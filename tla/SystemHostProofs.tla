-------------------------- MODULE SystemHostProofs --------------------------
(***************************************************************************)
(* What SystemHost promises for any threads, any providers over any shared *)
(* transports, and any number of operations.  After it, what is promised   *)
(* of the host that reaches a QEMU guest through its agent (GuestHost) and *)
(* of a call on this machine (LocalCall), which Hosts takes together.      *)
(***************************************************************************)
EXTENDS Hosts, SequenceTheorems, TLAPS

(* Where a thread may be.                                                  *)
Places == {"idle", "select", "ready", "dispatch", "initialize", "connectRun",
           "connectPath", "connectEnd", "close", "retire", "pick", "build"}

(* The places of a thread inside the lifecycle lock.                       *)
Inside == {"initialize", "connectRun", "connectPath", "connectEnd", "close", "retire"}

(* The lock is held by the thread inside, and by nobody else.              *)
Locked ==
    /\ \A t \in Threads: pc[t] \in Inside => lock = t
    /\ lock # Nobody => pc[lock] \in Inside

(* A thread has the provider it is working with, and at other places none. *)
Placed == \A t \in Threads:
    /\ pc[t] \in {"ready", "dispatch"} => provider[t] \in Providers
    /\ pc[t] = "build" => provider[t] \in Paths
    /\ pc[t] \in {"idle", "select", "pick"} \cup (Inside \ {"initialize"}) =>
           provider[t] = NoProvider

(* `connect` alone has providers of its own, of those the host has and of  *)
(* each kind one; `close` and `replace_providers` have transports to close.*)
ConnectHolds ==
    \/ pc[lock] \in {"connectPath", "connectEnd"}
    \/ pc[lock] = "initialize" /\ provider[lock] = NoProvider

Held ==
    /\ mine # Nothing => lock # Nobody /\ ConnectHolds
    /\ Members(mine) \subseteq executors \cup Paths
    /\ \A p \in Providers \ BothKinds: mine[p] <= 1
    /\ lock # Nobody /\ pc[lock] = "connectPath" => Members(mine) \subseteq executors
    /\ todo \cup closing # {} => lock # Nobody /\ pc[lock] \in {"close", "retire"}

(* An open transport that is or will be marked closed was so reopened, or  *)
(* its `close` raised.                                                     *)
Skipped == open \cap (closed \cup closing) \subseteq unnoticed \cup unclosed

(* The transports the host answers for: those of its providers, those that *)
(* are closed or will be, and what it connected for a replaced provider.   *)
Base == Targets(executors \cup Paths) \cup strays \cup closed \cup closing \cup todo

OpenBased == open \subseteq Base

ListBased == \A p \in Members(connected): TransportOf[p] \in Base

UseBased == \A t \in Threads:
    pc[t] \in {"dispatch", "initialize"} /\ provider[t] # NoProvider =>
        TransportOf[provider[t]] \in Base

(* `close` forgets none of the transports of the host's providers.         *)
Closes == lock # Nobody /\ pc[lock] = "close" =>
    Targets(executors \cup Paths) \subseteq todo \cup closing \cup closed

(* What the initializer has done is what the generation records of it.     *)
Once ==
    /\ inits = IF initialized THEN 1 ELSE 0
    /\ \A t \in Threads: pc[t] = "initialize" => ~initialized
    /\ DispatchInitialized

HostInv ==
    /\ TypeOK /\ Locked /\ Placed /\ Held /\ ConnectedOnce
    /\ Skipped /\ OpenBased /\ ListBased /\ UseBased /\ Closes /\ Once

USE DEF host, held, local, history

-----------------------------------------------------------------------------
(* Lists and transports. *)
LEMMA NothingIs ==
  /\ Nothing \in [Providers -> Nat] /\ Members(Nothing) = {}
  /\ \A p \in Providers: Nothing[p] = 0
  BY DEF Nothing, Members

LEMMA WithIs ==
  ASSUME NEW list \in [Providers -> Nat], NEW p \in Providers
  PROVE  /\ With(list, p) \in [Providers -> Nat]
         /\ Members(With(list, p)) = Members(list) \cup {p}
         /\ With(list, p)[p] = list[p] + 1
         /\ \A q \in Providers \ {p}: With(list, p)[q] = list[q]
  BY DEF With, Members

LEMMA WithOnce ==
  ASSUME NEW list \in [Providers -> Nat], NEW p \in Providers, NEW S \in SUBSET Providers,
         p \in S => list[p] = 0, \A q \in S: list[q] <= 1
  PROVE  \A q \in S: With(list, p)[q] <= 1
<1> SUFFICES ASSUME NEW q \in S PROVE With(list, p)[q] <= 1
  OBVIOUS
<1>1. CASE q = p
  BY <1>1 DEF With
<1>2. CASE q # p
  BY <1>2 DEF With
<1> QED
  BY <1>1, <1>2

LEMMA MembersIn ==
  ASSUME NEW list \in [Providers -> Nat]
  PROVE  /\ Members(list) \subseteq Providers
         /\ \A p \in Providers: p \notin Members(list) => list[p] = 0
  BY DEF Members

(* Providers of an executor set, and path providers, are providers.        *)
LEMMA ProvidersAre ==
  /\ Paths \subseteq Providers
  /\ \A E \in ExecutorSets: E \subseteq Providers
  BY DEF Providers

LEMMA TargetIn ==
  ASSUME NEW S \in SUBSET Providers, NEW p \in S
  PROVE  TransportOf[p] \in Targets(S)
  BY DEF Targets

LEMMA TargetsIn ==
  ASSUME NEW S \in SUBSET Providers
  PROVE  Targets(S) \subseteq Transports
  BY HostAssumption DEF Targets

LEMMA TargetsCup ==
  ASSUME NEW S \in SUBSET Providers, NEW R \in SUBSET Providers
  PROVE  Targets(S \cup R) = Targets(S) \cup Targets(R)
  BY DEF Targets

(* What the pieces of the actions do to the types. *)
LEMMA GotoOK ==
  ASSUME TypeOK, NEW t \in Threads, NEW where \in Places, Goto(t, where)
  PROVE  pc' \in [Threads -> Places]
  BY DEF TypeOK, Goto, Places

LEMMA StartOK ==
  ASSUME TypeOK, NEW t \in Threads, NEW where \in Places, Start(t, where)
  PROVE  /\ pc' \in [Threads -> Places]
         /\ calls' \in [Threads -> Nat] /\ \A u \in Threads: calls'[u] <= MaxCalls[u]
<1>1. pc' \in [Threads -> Places]
  BY GotoOK DEF Start
<1>2. calls' \in [Threads -> Nat] /\ \A u \in Threads: calls'[u] <= MaxCalls[u]
  <2>1. /\ calls \in [Threads -> Nat]
        /\ \A u \in Threads: calls[u] <= MaxCalls[u] /\ MaxCalls[u] \in Nat
    BY HostAssumption DEF TypeOK
  <2>2. calls[t] < MaxCalls[t] /\ calls' = [calls EXCEPT ![t] = @ + 1]
    BY DEF Start
  <2> QED
    BY <2>1, <2>2
<1> QED
  BY <1>1, <1>2

LEMMA LeaveOK ==
  ASSUME TypeOK, NEW t \in Threads, Leave(t)
  PROVE  /\ pc' \in [Threads -> Places]
         /\ provider' \in [Threads -> Providers \cup {NoProvider}]
         /\ excluded' \in [Threads -> SUBSET Providers]
<1>1. pc' \in [Threads -> Places]
  BY GotoOK DEF Leave, Places
<1>2. provider' \in [Threads -> Providers \cup {NoProvider}]
  BY DEF Leave, TypeOK
<1>3. excluded' \in [Threads -> SUBSET Providers]
  BY DEF Leave, TypeOK
<1> QED
  BY <1>1, <1>2, <1>3

LEMMA FailOverOK ==
  ASSUME TypeOK, NEW t \in Threads, NEW where \in Places, FailOver(t, where),
         provider[t] \in Providers
  PROVE  /\ pc' \in [Threads -> Places]
         /\ provider' \in [Threads -> Providers \cup {NoProvider}]
         /\ excluded' \in [Threads -> SUBSET Providers]
<1>1. pc' \in [Threads -> Places]
  BY GotoOK DEF FailOver
<1>2. provider' \in [Threads -> Providers \cup {NoProvider}]
  BY DEF FailOver, TypeOK
<1>3. excluded' \in [Threads -> SUBSET Providers]
  BY DEF FailOver, TypeOK
<1> QED
  BY <1>1, <1>2, <1>3

LEMMA ReopenOK ==
  ASSUME TypeOK, NEW p \in Providers, Reopen(p)
  PROVE  open' \subseteq Transports /\ unnoticed' \subseteq Transports
  BY HostAssumption DEF TypeOK, Reopen

LEMMA ConnectOK ==
  ASSUME TypeOK, NEW p \in Providers, ConnectProvider(p)
  PROVE  /\ open' \subseteq Transports /\ unnoticed' \subseteq Transports
         /\ closed' \subseteq Transports /\ strays' \subseteq Transports
         /\ unclosed' \subseteq Transports
  BY HostAssumption DEF TypeOK, ConnectProvider, Notice

LEMMA EndOK ==
  ASSUME TypeOK, EndGeneration
  PROVE  /\ isConnected' \in BOOLEAN /\ initialized' \in BOOLEAN /\ inits' \in Nat
         /\ moved' \in [Threads -> BOOLEAN]
<1>1. isConnected' \in BOOLEAN /\ initialized' \in BOOLEAN /\ inits' \in Nat
  BY DEF EndGeneration
<1>2. moved' = [t \in Threads |-> moved[t] \/ pc[t] = "dispatch"]
  BY Zenon DEF EndGeneration
<1>3. \A t \in Threads: (moved[t] \/ pc[t] = "dispatch") \in BOOLEAN
  OBVIOUS
<1> QED
  BY <1>1, <1>2, <1>3

LEMMA TargetsOne ==
  ASSUME NEW p \in Providers
  PROVE  Targets({p}) = {TransportOf[p]}
  BY DEF Targets

LEMMA TargetsOver ==
  ASSUME NEW S \in SUBSET Providers, NEW R \in SUBSET Providers, R \subseteq S
  PROVE  Targets(R) \subseteq Targets(S)
  BY DEF Targets

-----------------------------------------------------------------------------
(* Every step keeps the types. *)
LEMMA TypeStep ==
  ASSUME TypeOK, Placed, [Next]_vars
  PROVE  TypeOK'
<1>0. ASSUME UNCHANGED vars
      PROVE  TypeOK'
  BY <1>0 DEF vars, TypeOK
<1> SUFFICES ASSUME NEW t \in Threads,
                    \/ Step(t)
                    \/ RunBegin(t) \/ ConnectBegin(t) \/ CloseBegin(t) \/ PathBegin(t)
                    \/ \E p \in Providers: InitializerRuns(t, p) \/ PathUse(t, p)
                    \/ \E new \in ExecutorSets: Replace(t, new)
             PROVE  TypeOK'
  BY <1>0 DEF Next
<1>1. ASSUME RunBegin(t) PROVE TypeOK'
  BY <1>1, ProvidersAre, StartOK DEF RunBegin, TypeOK, Placed, Places
<1>2. ASSUME NEW p \in Providers, RunSelect(t, p) PROVE TypeOK'
  BY <1>2, ProvidersAre, GotoOK DEF RunSelect, TypeOK, Placed, Places
<1>3. ASSUME RunNone(t) PROVE TypeOK'
  BY <1>3, ProvidersAre, LeaveOK DEF RunNone, TypeOK, Placed, Places
<1>4. ASSUME Ready(t) PROVE TypeOK'
  BY <1>4, ProvidersAre, ConnectOK, WithIs, GotoOK DEF Ready, Listed, TypeOK,
     Placed, Places
<1>5. ASSUME NEW refuses \in BOOLEAN, NotReady(t, refuses) PROVE TypeOK'
  BY <1>5, ProvidersAre, FailOverOK, LeaveOK DEF NotReady, TypeOK, Placed, Places
<1>6. ASSUME NEW refuses \in BOOLEAN, Dispatch(t, refuses) PROVE TypeOK'
  BY <1>6, ProvidersAre, FailOverOK, LeaveOK, ReopenOK DEF Dispatch, TypeOK,
     Placed, Places
<1>7. ASSUME ConnectBegin(t) PROVE TypeOK'
  BY <1>7, ProvidersAre, StartOK DEF ConnectBegin, TypeOK, Placed, Places
<1>8. ASSUME NEW p \in Providers, Connects(t, p) PROVE TypeOK'
  BY <1>8, ProvidersAre, ConnectOK, WithIs, GotoOK DEF Connects, NextLeg,
     TypeOK, Placed, Places
<1>9. ASSUME NEW p \in Providers, ConnectRefused(t, p) PROVE TypeOK'
  BY <1>9, ProvidersAre DEF ConnectRefused, TypeOK, Placed, Places
<1>10. ASSUME ConnectSkips(t) PROVE TypeOK'
  BY <1>10, ProvidersAre, GotoOK DEF ConnectSkips, NextLeg, TypeOK, Placed, Places
<1>11. ASSUME NEW p \in Providers, ConnectFails(t, p) PROVE TypeOK'
  BY <1>11, ProvidersAre, LeaveOK, NothingIs DEF ConnectFails, ClosedAgain,
     LeaveConnect, TypeOK, Placed, Places
<1>12. ASSUME ConnectNothing(t) PROVE TypeOK'
  BY <1>12, ProvidersAre, LeaveOK, NothingIs DEF ConnectNothing, LeaveConnect,
     TypeOK, Placed, Places
<1>13. ASSUME ConnectEnd(t) PROVE TypeOK'
  BY <1>13, ProvidersAre, LeaveOK, NothingIs, GotoOK DEF ConnectEnd,
     LeaveConnect, TypeOK, Placed, Places
<1>14. ASSUME NEW p \in Providers, InitializerRuns(t, p) PROVE TypeOK'
  BY <1>14, ProvidersAre, ReopenOK, ConnectOK, WithIs DEF InitializerRuns,
     TypeOK, Placed, Places
<1>15. ASSUME InitializerDone(t) PROVE TypeOK'
  <2>1. CASE provider[t] # NoProvider
    BY <1>15, <2>1, GotoOK DEF InitializerDone, TypeOK, Places
  <2>2. CASE provider[t] = NoProvider
    <3>1. Leave(t) /\ mine' = Nothing /\ lock' = Nobody /\ offered' = FALSE
      BY <1>15, <2>2 DEF InitializerDone, LeaveConnect
    <3>2. inits' \in Nat /\ isConnected' \in BOOLEAN /\ initialized' \in BOOLEAN
      BY <1>15, <2>2 DEF InitializerDone, TypeOK
    <3>3. UNCHANGED <<todo, closing, path, executors, connected, closed, open, calls, unnoticed,
                      unclosed, strays, moved>>
      BY <1>15, <2>2 DEF InitializerDone, LeaveConnect
    <3>4. /\ pc' \in [Threads -> Places] /\ excluded' \in [Threads -> SUBSET Providers]
          /\ provider' \in [Threads -> Providers \cup {NoProvider}]
      BY <3>1, LeaveOK
    <3> QED
      BY <3>1, <3>2, <3>3, <3>4, NothingIs DEF TypeOK, Places
  <2> QED
    BY <2>1, <2>2
<1>16. ASSUME NEW refuses \in BOOLEAN, InitializerFails(t, refuses)
      PROVE  TypeOK'
  BY <1>16, ProvidersAre, LeaveOK, FailOverOK, NothingIs DEF InitializerFails,
     ClosedAgain, LeaveConnect, TypeOK, Placed, Places
<1>17. ASSUME CloseBegin(t) PROVE TypeOK'
  BY <1>17, ProvidersAre, StartOK, MembersIn, TargetsIn DEF CloseBegin, Known,
     TypeOK, Placed, Places
<1>18. ASSUME NEW target \in Transports, CloseTarget(t, target) PROVE TypeOK'
  BY <1>18, ProvidersAre DEF CloseTarget, TypeOK, Placed, Places
<1>19. ASSUME MarkClosed(t) PROVE TypeOK'
  BY <1>19, ProvidersAre DEF MarkClosed, TypeOK, Placed, Places
<1>20. ASSUME CloseEnd(t) PROVE TypeOK'
  BY <1>20, ProvidersAre, GotoOK, EndOK, NothingIs DEF CloseEnd, TypeOK, Placed,
     Places
<1>21. ASSUME NEW new \in ExecutorSets, Replace(t, new) PROVE TypeOK'
  BY <1>21, ProvidersAre, StartOK, EndOK, TargetsIn DEF Replace, TypeOK, Placed,
     Places
<1>22. ASSUME ReplaceEnd(t) PROVE TypeOK'
  BY <1>22, ProvidersAre, GotoOK DEF ReplaceEnd, TypeOK, Placed, Places
<1>23. ASSUME PathBegin(t) PROVE TypeOK'
  BY <1>23, ProvidersAre, StartOK DEF PathBegin, TypeOK, Placed, Places
<1>24. ASSUME NEW p \in Providers, PathPick(t, p) PROVE TypeOK'
  BY <1>24, ProvidersAre, GotoOK DEF PathPick, Notice, TypeOK, Placed, Places
<1>25. ASSUME NEW connects \in BOOLEAN, PathBuilt(t, connects) PROVE TypeOK'
  BY <1>25, ProvidersAre, LeaveOK, ReopenOK DEF PathBuilt, TypeOK, Placed, Places
<1>26. ASSUME PathDeclined(t) PROVE TypeOK'
  BY <1>26, ProvidersAre, FailOverOK DEF PathDeclined, TypeOK, Placed, Places
<1>27. ASSUME NEW p \in Providers, PathUse(t, p) PROVE TypeOK'
  BY <1>27, ProvidersAre, StartOK, ReopenOK DEF PathUse, TypeOK, Placed, Places
<1> QED
  BY <1>1, <1>2, <1>3, <1>4, <1>5, <1>6, <1>7, <1>8, <1>9, <1>10, <1>11, <1>12,
     <1>13, <1>14, <1>15, <1>16, <1>17, <1>18, <1>19, <1>20, <1>21, <1>22,
     <1>23, <1>24, <1>25, <1>26, <1>27 DEF Step

(* Nobody else comes inside while the lock is held. *)
LEMMA LockedStep ==
  ASSUME TypeOK, Locked, [Next]_vars
  PROVE  Locked'
<1>0. ASSUME UNCHANGED vars
      PROVE  Locked'
  BY <1>0 DEF vars, TypeOK, Locked, Inside
<1> SUFFICES ASSUME NEW t \in Threads,
                    \/ Step(t)
                    \/ RunBegin(t) \/ ConnectBegin(t) \/ CloseBegin(t) \/ PathBegin(t)
                    \/ \E p \in Providers: InitializerRuns(t, p) \/ PathUse(t, p)
                    \/ \E new \in ExecutorSets: Replace(t, new)
             PROVE  Locked'
  BY <1>0 DEF Next
<1>1. ASSUME RunBegin(t) PROVE Locked'
  BY <1>1, HostAssumption DEF RunBegin, Start, TypeOK, Locked, Inside, Goto
<1>2. ASSUME NEW p \in Providers, RunSelect(t, p) PROVE Locked'
  BY <1>2, HostAssumption DEF RunSelect, TypeOK, Locked, Inside, Goto
<1>3. ASSUME RunNone(t) PROVE Locked'
  BY <1>3, HostAssumption DEF RunNone, Leave, TypeOK, Locked, Inside, Goto
<1>4. ASSUME Ready(t) PROVE Locked'
  BY <1>4, HostAssumption DEF Ready, Listed, Due, ConnectProvider, Notice,
     TypeOK, Locked, Inside, Goto
<1>5. ASSUME NEW refuses \in BOOLEAN, NotReady(t, refuses) PROVE Locked'
  BY <1>5, HostAssumption DEF NotReady, FailOver, Leave, TypeOK, Locked, Inside,
     Goto
<1>6. ASSUME NEW refuses \in BOOLEAN, Dispatch(t, refuses) PROVE Locked'
  BY <1>6, HostAssumption DEF Dispatch, FailOver, Leave, Reopen, TypeOK, Locked,
     Inside, Goto
<1>7. ASSUME ConnectBegin(t) PROVE Locked'
  BY <1>7, HostAssumption DEF ConnectBegin, Start, TypeOK, Locked, Inside, Goto
<1>8. ASSUME NEW p \in Providers, Connects(t, p) PROVE Locked'
  BY <1>8, HostAssumption DEF Connects, Connecting, Leg, ConnectProvider,
     Notice, NextLeg, TypeOK, Locked, Inside, Goto
<1>9. ASSUME NEW p \in Providers, ConnectRefused(t, p) PROVE Locked'
  BY <1>9, HostAssumption DEF ConnectRefused, Connecting, Leg, TypeOK, Locked,
     Inside, Goto
<1>10. ASSUME ConnectSkips(t) PROVE Locked'
  BY <1>10, HostAssumption DEF ConnectSkips, NextLeg, TypeOK, Locked, Inside, Goto
<1>11. ASSUME NEW p \in Providers, ConnectFails(t, p) PROVE Locked'
  BY <1>11, HostAssumption DEF ConnectFails, Connecting, LeaveConnect, Leave,
     TypeOK, Locked, Inside, Goto
<1>12. ASSUME ConnectNothing(t) PROVE Locked'
  BY <1>12, HostAssumption DEF ConnectNothing, LeaveConnect, Leave, TypeOK,
     Locked, Inside, Goto
<1>13. ASSUME ConnectEnd(t) PROVE Locked'
  BY <1>13, HostAssumption DEF ConnectEnd, LeaveConnect, Leave, TypeOK, Locked,
     Inside, Goto
<1>14. ASSUME NEW p \in Providers, InitializerRuns(t, p) PROVE Locked'
  BY <1>14, HostAssumption DEF InitializerRuns, Listed, Reopen, ConnectProvider,
     Notice, TypeOK, Locked, Inside, Goto
<1>15. ASSUME InitializerDone(t) PROVE Locked'
  BY <1>15, HostAssumption DEF InitializerDone, LeaveConnect, Leave, TypeOK,
     Locked, Inside, Goto
<1>16. ASSUME NEW refuses \in BOOLEAN, InitializerFails(t, refuses)
      PROVE  Locked'
  BY <1>16, HostAssumption DEF InitializerFails, LeaveConnect, Leave, FailOver,
     TypeOK, Locked, Inside, Goto
<1>17. ASSUME CloseBegin(t) PROVE Locked'
  BY <1>17, HostAssumption DEF CloseBegin, Start, Known, TypeOK, Locked, Inside,
     Goto
<1>18. ASSUME NEW target \in Transports, CloseTarget(t, target) PROVE Locked'
  BY <1>18, HostAssumption DEF CloseTarget, TypeOK, Locked, Inside, Goto
<1>19. ASSUME MarkClosed(t) PROVE Locked'
  BY <1>19, HostAssumption DEF MarkClosed, TypeOK, Locked, Inside, Goto
<1>20. ASSUME CloseEnd(t) PROVE Locked'
  BY <1>20, HostAssumption DEF CloseEnd, EndGeneration, TypeOK, Locked, Inside, Goto
<1>21. ASSUME NEW new \in ExecutorSets, Replace(t, new) PROVE Locked'
  BY <1>21, HostAssumption DEF Replace, Start, EndGeneration, TypeOK, Locked,
     Inside, Goto
<1>22. ASSUME ReplaceEnd(t) PROVE Locked'
  BY <1>22, HostAssumption DEF ReplaceEnd, TypeOK, Locked, Inside, Goto
<1>23. ASSUME PathBegin(t) PROVE Locked'
  BY <1>23, HostAssumption DEF PathBegin, Start, TypeOK, Locked, Inside, Goto
<1>24. ASSUME NEW p \in Providers, PathPick(t, p) PROVE Locked'
  BY <1>24, HostAssumption DEF PathPick, Notice, TypeOK, Locked, Inside, Goto
<1>25. ASSUME NEW connects \in BOOLEAN, PathBuilt(t, connects) PROVE Locked'
  BY <1>25, HostAssumption DEF PathBuilt, Reopen, Leave, TypeOK, Locked, Inside,
     Goto
<1>26. ASSUME PathDeclined(t) PROVE Locked'
  BY <1>26, HostAssumption DEF PathDeclined, FailOver, TypeOK, Locked, Inside, Goto
<1>27. ASSUME NEW p \in Providers, PathUse(t, p) PROVE Locked'
  BY <1>27, HostAssumption DEF PathUse, Start, Reopen, TypeOK, Locked, Inside, Goto
<1> QED
  BY <1>1, <1>2, <1>3, <1>4, <1>5, <1>6, <1>7, <1>8, <1>9, <1>10, <1>11, <1>12,
     <1>13, <1>14, <1>15, <1>16, <1>17, <1>18, <1>19, <1>20, <1>21, <1>22,
     <1>23, <1>24, <1>25, <1>26, <1>27 DEF Step

(* The providers are where they are used. *)
LEMMA PlacedStep ==
  ASSUME TypeOK, Placed, [Next]_vars
  PROVE  Placed'
<1>0. ASSUME UNCHANGED vars
      PROVE  Placed'
  BY <1>0 DEF vars, TypeOK, Placed, Inside
<1> SUFFICES ASSUME NEW t \in Threads,
                    \/ Step(t)
                    \/ RunBegin(t) \/ ConnectBegin(t) \/ CloseBegin(t) \/ PathBegin(t)
                    \/ \E p \in Providers: InitializerRuns(t, p) \/ PathUse(t, p)
                    \/ \E new \in ExecutorSets: Replace(t, new)
             PROVE  Placed'
  BY <1>0 DEF Next
<1>1. ASSUME RunBegin(t) PROVE Placed'
  BY <1>1, HostAssumption, ProvidersAre DEF RunBegin, Start, TypeOK, Placed,
     Inside, Goto
<1>2. ASSUME NEW p \in Providers, RunSelect(t, p) PROVE Placed'
  BY <1>2, HostAssumption, ProvidersAre DEF RunSelect, TypeOK, Placed, Inside, Goto
<1>3. ASSUME RunNone(t) PROVE Placed'
  BY <1>3, HostAssumption, ProvidersAre DEF RunNone, Leave, TypeOK, Placed,
     Inside, Goto
<1>4. ASSUME Ready(t) PROVE Placed'
  BY <1>4, HostAssumption, ProvidersAre DEF Ready, Listed, Due, ConnectProvider,
     Notice, TypeOK, Placed, Inside, Goto
<1>5. ASSUME NEW refuses \in BOOLEAN, NotReady(t, refuses) PROVE Placed'
  BY <1>5, HostAssumption, ProvidersAre DEF NotReady, FailOver, Leave, TypeOK,
     Placed, Inside, Goto
<1>6. ASSUME NEW refuses \in BOOLEAN, Dispatch(t, refuses) PROVE Placed'
  BY <1>6, HostAssumption, ProvidersAre DEF Dispatch, FailOver, Leave, Reopen,
     TypeOK, Placed, Inside, Goto
<1>7. ASSUME ConnectBegin(t) PROVE Placed'
  BY <1>7, HostAssumption, ProvidersAre DEF ConnectBegin, Start, TypeOK, Placed,
     Inside, Goto
<1>8. ASSUME NEW p \in Providers, Connects(t, p) PROVE Placed'
  BY <1>8, HostAssumption, ProvidersAre DEF Connects, Connecting, Leg,
     ConnectProvider, Notice, NextLeg, TypeOK, Placed, Inside, Goto
<1>9. ASSUME NEW p \in Providers, ConnectRefused(t, p) PROVE Placed'
  BY <1>9, HostAssumption, ProvidersAre DEF ConnectRefused, Connecting, Leg,
     TypeOK, Placed, Inside, Goto
<1>10. ASSUME ConnectSkips(t) PROVE Placed'
  BY <1>10, HostAssumption, ProvidersAre DEF ConnectSkips, NextLeg, TypeOK,
     Placed, Inside, Goto
<1>11. ASSUME NEW p \in Providers, ConnectFails(t, p) PROVE Placed'
  BY <1>11, HostAssumption, ProvidersAre DEF ConnectFails, Connecting,
     LeaveConnect, Leave, TypeOK, Placed, Inside, Goto
<1>12. ASSUME ConnectNothing(t) PROVE Placed'
  BY <1>12, HostAssumption, ProvidersAre DEF ConnectNothing, LeaveConnect,
     Leave, TypeOK, Placed, Inside, Goto
<1>13. ASSUME ConnectEnd(t) PROVE Placed'
  BY <1>13, HostAssumption, ProvidersAre DEF ConnectEnd, LeaveConnect, Leave,
     TypeOK, Placed, Inside, Goto
<1>14. ASSUME NEW p \in Providers, InitializerRuns(t, p) PROVE Placed'
  BY <1>14, HostAssumption, ProvidersAre DEF InitializerRuns, Listed, Reopen,
     ConnectProvider, Notice, TypeOK, Placed, Inside, Goto
<1>15. ASSUME InitializerDone(t) PROVE Placed'
  BY <1>15, HostAssumption, ProvidersAre DEF InitializerDone, LeaveConnect,
     Leave, TypeOK, Placed, Inside, Goto
<1>16. ASSUME NEW refuses \in BOOLEAN, InitializerFails(t, refuses)
      PROVE  Placed'
  BY <1>16, HostAssumption, ProvidersAre DEF InitializerFails, LeaveConnect,
     Leave, FailOver, TypeOK, Placed, Inside, Goto
<1>17. ASSUME CloseBegin(t) PROVE Placed'
  BY <1>17, HostAssumption, ProvidersAre DEF CloseBegin, Start, Known, TypeOK,
     Placed, Inside, Goto
<1>18. ASSUME NEW target \in Transports, CloseTarget(t, target) PROVE Placed'
  BY <1>18, HostAssumption, ProvidersAre DEF CloseTarget, TypeOK, Placed,
     Inside, Goto
<1>19. ASSUME MarkClosed(t) PROVE Placed'
  BY <1>19, HostAssumption, ProvidersAre DEF MarkClosed, TypeOK, Placed, Inside,
     Goto
<1>20. ASSUME CloseEnd(t) PROVE Placed'
  BY <1>20, HostAssumption, ProvidersAre DEF CloseEnd, EndGeneration, TypeOK,
     Placed, Inside, Goto
<1>21. ASSUME NEW new \in ExecutorSets, Replace(t, new) PROVE Placed'
  BY <1>21, HostAssumption, ProvidersAre DEF Replace, Start, EndGeneration,
     TypeOK, Placed, Inside, Goto
<1>22. ASSUME ReplaceEnd(t) PROVE Placed'
  BY <1>22, HostAssumption, ProvidersAre DEF ReplaceEnd, TypeOK, Placed, Inside,
     Goto
<1>23. ASSUME PathBegin(t) PROVE Placed'
  BY <1>23, HostAssumption, ProvidersAre DEF PathBegin, Start, TypeOK, Placed,
     Inside, Goto
<1>24. ASSUME NEW p \in Providers, PathPick(t, p) PROVE Placed'
  BY <1>24, HostAssumption, ProvidersAre DEF PathPick, Notice, TypeOK, Placed,
     Inside, Goto
<1>25. ASSUME NEW connects \in BOOLEAN, PathBuilt(t, connects) PROVE Placed'
  BY <1>25, HostAssumption, ProvidersAre DEF PathBuilt, Reopen, Leave, TypeOK,
     Placed, Inside, Goto
<1>26. ASSUME PathDeclined(t) PROVE Placed'
  BY <1>26, HostAssumption, ProvidersAre DEF PathDeclined, FailOver, TypeOK,
     Placed, Inside, Goto
<1>27. ASSUME NEW p \in Providers, PathUse(t, p) PROVE Placed'
  BY <1>27, HostAssumption, ProvidersAre DEF PathUse, Start, Reopen, TypeOK,
     Placed, Inside, Goto
<1> QED
  BY <1>1, <1>2, <1>3, <1>4, <1>5, <1>6, <1>7, <1>8, <1>9, <1>10, <1>11, <1>12,
     <1>13, <1>14, <1>15, <1>16, <1>17, <1>18, <1>19, <1>20, <1>21, <1>22,
     <1>23, <1>24, <1>25, <1>26, <1>27 DEF Step

(* What is held inside the lock is let go with it. *)
LEMMA HeldStep ==
  ASSUME TypeOK, Locked, Placed, Held, [Next]_vars
  PROVE  Held'
<1>0. ASSUME UNCHANGED vars
      PROVE  Held'
  BY <1>0 DEF vars, TypeOK, Locked, Placed, Inside, Held, ConnectHolds
<1> SUFFICES ASSUME NEW t \in Threads,
                    \/ Step(t)
                    \/ RunBegin(t) \/ ConnectBegin(t) \/ CloseBegin(t) \/ PathBegin(t)
                    \/ \E p \in Providers: InitializerRuns(t, p) \/ PathUse(t, p)
                    \/ \E new \in ExecutorSets: Replace(t, new)
             PROVE  Held'
  BY <1>0 DEF Next
<1>1. ASSUME RunBegin(t) PROVE Held'
  BY <1>1, HostAssumption DEF RunBegin, Start, TypeOK, Locked, Placed, Inside,
     Held, ConnectHolds, Goto
<1>2. ASSUME NEW p \in Providers, RunSelect(t, p) PROVE Held'
  BY <1>2, HostAssumption DEF RunSelect, TypeOK, Locked, Placed, Inside, Held,
     ConnectHolds, Goto
<1>3. ASSUME RunNone(t) PROVE Held'
  BY <1>3, HostAssumption DEF RunNone, Leave, TypeOK, Locked, Placed, Inside,
     Held, ConnectHolds, Goto
<1>4. ASSUME Ready(t) PROVE Held'
  BY <1>4, HostAssumption, WithIs, NothingIs, ProvidersAre DEF Ready, Listed,
     Due, ConnectProvider, Notice, TypeOK, Locked, Placed, Inside, Held,
     ConnectHolds, Goto
<1>5. ASSUME NEW refuses \in BOOLEAN, NotReady(t, refuses) PROVE Held'
  BY <1>5, HostAssumption DEF NotReady, FailOver, Leave, TypeOK, Locked, Placed,
     Inside, Held, ConnectHolds, Goto
<1>6. ASSUME NEW refuses \in BOOLEAN, Dispatch(t, refuses) PROVE Held'
  BY <1>6, HostAssumption DEF Dispatch, FailOver, Leave, Reopen, TypeOK, Locked,
     Placed, Inside, Held, ConnectHolds, Goto
<1>7. ASSUME ConnectBegin(t) PROVE Held'
  BY <1>7, HostAssumption DEF ConnectBegin, Start, TypeOK, Locked, Placed,
     Inside, Held, ConnectHolds, Goto
<1>8. ASSUME NEW p \in Providers, Connects(t, p) PROVE Held'
  <2>1. /\ lock = t /\ lock' = t /\ t # Nobody
        /\ mine' = With(mine, p) /\ Members(mine') = Members(mine) \cup {p}
        /\ UNCHANGED <<executors, todo, closing>>
    BY <1>8, HostAssumption, WithIs DEF Connects, Connecting, TypeOK, Locked, Inside
  <2>2. CASE pc[t] = "connectRun"
    <3>1. mine = Nothing /\ Members(mine) = {} /\ p \in executors /\ pc'[t] = "connectPath"
      BY <1>8, <2>1, <2>2, NothingIs DEF Connects, Connecting, Leg, NextLeg,
         Goto, TypeOK, Held, ConnectHolds
    <3>2. \A q \in Providers: mine'[q] <= 1
      BY <2>1, <3>1, WithOnce, NothingIs
    <3> QED
      BY <2>1, <2>2, <3>1, <3>2 DEF Held, ConnectHolds
  <2>3. CASE pc[t] = "connectPath"
    <3>1. Members(mine) \subseteq executors /\ p \in Paths /\ pc'[t] = "connectEnd"
      BY <1>8, <2>1, <2>3 DEF Connects, Connecting, Leg, NextLeg, Goto, TypeOK, Held
    <3>2. \A q \in Providers \ BothKinds: mine'[q] <= 1
      <4>1. p \notin BothKinds => mine[p] = 0
        BY <3>1, MembersIn DEF TypeOK, BothKinds
      <4> QED
        <5>1. mine \in [Providers -> Nat] /\ \A q \in Providers \ BothKinds: mine[q] <= 1
          BY DEF TypeOK, Held
        <5>2. p \in Providers \ BothKinds => mine[p] = 0
          BY <4>1
        <5> QED
          BY <2>1, <5>1, <5>2, WithOnce
    <3> QED
      BY <2>1, <2>3, <3>1, <3>2 DEF Held, ConnectHolds
  <2> QED
    BY <1>8, <2>2, <2>3 DEF Connects, Connecting
<1>9. ASSUME NEW p \in Providers, ConnectRefused(t, p) PROVE Held'
  BY <1>9, HostAssumption DEF ConnectRefused, Connecting, Leg, TypeOK, Locked,
     Placed, Inside, Held, ConnectHolds, Goto
<1>10. ASSUME ConnectSkips(t) PROVE Held'
  BY <1>10, HostAssumption, NothingIs DEF ConnectSkips, NextLeg, TypeOK, Locked,
     Inside, Held, ConnectHolds, Goto
<1>11. ASSUME NEW p \in Providers, ConnectFails(t, p) PROVE Held'
  BY <1>11, HostAssumption, WithIs, NothingIs, ProvidersAre DEF ConnectFails,
     Connecting, LeaveConnect, Leave, TypeOK, Locked, Placed, Inside, Held,
     ConnectHolds, Goto
<1>12. ASSUME ConnectNothing(t) PROVE Held'
  BY <1>12, HostAssumption, WithIs, NothingIs, ProvidersAre DEF ConnectNothing,
     LeaveConnect, Leave, TypeOK, Locked, Placed, Inside, Held, ConnectHolds,
     Goto
<1>13. ASSUME ConnectEnd(t) PROVE Held'
  BY <1>13, HostAssumption, WithIs, NothingIs, ProvidersAre DEF ConnectEnd,
     LeaveConnect, Leave, TypeOK, Locked, Placed, Inside, Held, ConnectHolds,
     Goto
<1>14. ASSUME NEW p \in Providers, InitializerRuns(t, p) PROVE Held'
  BY <1>14, HostAssumption, WithIs, NothingIs, ProvidersAre DEF InitializerRuns,
     Listed, Reopen, ConnectProvider, Notice, TypeOK, Locked, Placed, Inside,
     Held, ConnectHolds, Goto
<1>15. ASSUME InitializerDone(t) PROVE Held'
  BY <1>15, HostAssumption, WithIs, NothingIs, ProvidersAre DEF InitializerDone,
     LeaveConnect, Leave, TypeOK, Locked, Placed, Inside, Held, ConnectHolds,
     Goto
<1>16. ASSUME NEW refuses \in BOOLEAN, InitializerFails(t, refuses) PROVE Held'
  BY <1>16, HostAssumption, WithIs, NothingIs, ProvidersAre DEF
     InitializerFails, LeaveConnect, Leave, FailOver, TypeOK, Locked, Placed,
     Inside, Held, ConnectHolds, Goto
<1>17. ASSUME CloseBegin(t) PROVE Held'
  BY <1>17, HostAssumption DEF CloseBegin, Start, Known, TypeOK, Locked, Placed,
     Inside, Held, ConnectHolds, Goto
<1>18. ASSUME NEW target \in Transports, CloseTarget(t, target) PROVE Held'
  BY <1>18, HostAssumption DEF CloseTarget, TypeOK, Locked, Placed, Inside,
     Held, ConnectHolds, Goto
<1>19. ASSUME MarkClosed(t) PROVE Held'
  BY <1>19, HostAssumption DEF MarkClosed, TypeOK, Locked, Placed, Inside, Held,
     ConnectHolds, Goto
<1>20. ASSUME CloseEnd(t) PROVE Held'
  BY <1>20, HostAssumption, WithIs, NothingIs, ProvidersAre DEF CloseEnd,
     EndGeneration, TypeOK, Locked, Placed, Inside, Held, ConnectHolds, Goto
<1>21. ASSUME NEW new \in ExecutorSets, Replace(t, new) PROVE Held'
  BY <1>21, HostAssumption, WithIs, NothingIs, ProvidersAre DEF Replace, Start,
     EndGeneration, TypeOK, Locked, Placed, Inside, Held, ConnectHolds, Goto
<1>22. ASSUME ReplaceEnd(t) PROVE Held'
  BY <1>22, HostAssumption DEF ReplaceEnd, TypeOK, Locked, Placed, Inside, Held,
     ConnectHolds, Goto
<1>23. ASSUME PathBegin(t) PROVE Held'
  BY <1>23, HostAssumption DEF PathBegin, Start, TypeOK, Locked, Placed, Inside,
     Held, ConnectHolds, Goto
<1>24. ASSUME NEW p \in Providers, PathPick(t, p) PROVE Held'
  BY <1>24, HostAssumption DEF PathPick, Notice, TypeOK, Locked, Placed, Inside,
     Held, ConnectHolds, Goto
<1>25. ASSUME NEW connects \in BOOLEAN, PathBuilt(t, connects) PROVE Held'
  BY <1>25, HostAssumption DEF PathBuilt, Reopen, Leave, TypeOK, Locked, Placed,
     Inside, Held, ConnectHolds, Goto
<1>26. ASSUME PathDeclined(t) PROVE Held'
  BY <1>26, HostAssumption DEF PathDeclined, FailOver, TypeOK, Locked, Placed,
     Inside, Held, ConnectHolds, Goto
<1>27. ASSUME NEW p \in Providers, PathUse(t, p) PROVE Held'
  BY <1>27, HostAssumption DEF PathUse, Start, Reopen, TypeOK, Locked, Placed,
     Inside, Held, ConnectHolds, Goto
<1> QED
  BY <1>1, <1>2, <1>3, <1>4, <1>5, <1>6, <1>7, <1>8, <1>9, <1>10, <1>11, <1>12,
     <1>13, <1>14, <1>15, <1>16, <1>17, <1>18, <1>19, <1>20, <1>21, <1>22,
     <1>23, <1>24, <1>25, <1>26, <1>27 DEF Step

(* No provider is listed twice. *)
LEMMA ListedStep ==
  ASSUME TypeOK, Locked, Placed, Held, ConnectedOnce, [Next]_vars
  PROVE  ConnectedOnce'
<1>0. ASSUME UNCHANGED vars
      PROVE  ConnectedOnce'
  BY <1>0 DEF vars, ConnectedOnce, TypeOK
<1> SUFFICES ASSUME NEW t \in Threads,
                    \/ Step(t)
                    \/ RunBegin(t) \/ ConnectBegin(t) \/ CloseBegin(t) \/ PathBegin(t)
                    \/ \E p \in Providers: InitializerRuns(t, p) \/ PathUse(t, p)
                    \/ \E new \in ExecutorSets: Replace(t, new)
             PROVE  ConnectedOnce'
  BY <1>0 DEF Next
<1>1. ASSUME \/ RunBegin(t) \/ RunNone(t) \/ ConnectBegin(t)
             \/ ConnectSkips(t) \/ ConnectNothing(t) \/ InitializerDone(t)
             \/ CloseBegin(t) \/ MarkClosed(t) \/ ReplaceEnd(t)
             \/ PathBegin(t) \/ PathDeclined(t)
             \/ \E connects \in BOOLEAN: PathBuilt(t, connects)
             \/ \E p \in Providers:
                   \/ RunSelect(t, p) \/ Connects(t, p)
                   \/ ConnectRefused(t, p) \/ ConnectFails(t, p)
                   \/ PathPick(t, p) \/ PathUse(t, p)
             \/ \E refuses \in BOOLEAN:
                   \/ NotReady(t, refuses) \/ Dispatch(t, refuses)
             \/ \E target \in Transports: CloseTarget(t, target)
      PROVE  ConnectedOnce'
  BY <1>1 DEF RunBegin, Start, RunSelect, RunNone, Leave, NotReady, FailOver,
     Dispatch, Reopen, ConnectBegin, Connects, ConnectProvider, Notice, NextLeg,
     ConnectRefused, ConnectSkips, ConnectFails, LeaveConnect, ConnectNothing,
     InitializerDone, CloseBegin, CloseTarget, MarkClosed, ReplaceEnd,
     PathBegin, PathPick, PathBuilt, PathDeclined, PathUse, ConnectedOnce
<1>2. ASSUME Ready(t) PROVE ConnectedOnce'
  <2>1. provider[t] \in Providers
    BY <1>2 DEF Ready, Placed
  <2>2. CASE Listed(provider[t])
    BY <1>2, <2>2 DEF Ready, ConnectedOnce
  <2>3. CASE ~Listed(provider[t])
    <3>1. connected' = With(connected, provider[t]) /\ connected[provider[t]] = 0
      BY <1>2, <2>1, <2>3, MembersIn DEF Ready, Listed, TypeOK
    <3> QED
      <4>1. connected \in [Providers -> Nat] /\ \A q \in Providers \ BothKinds: connected[q] <= 1
        BY DEF TypeOK, ConnectedOnce
      <4>2. \A q \in Providers \ BothKinds: connected'[q] <= 1
        BY <2>1, <3>1, <4>1, WithOnce
      <4> QED
        BY <4>2 DEF ConnectedOnce
  <2> QED
    BY <2>2, <2>3
<1>3. ASSUME ConnectEnd(t) PROVE ConnectedOnce'
  BY <1>3, WithIs, NothingIs, MembersIn, ProvidersAre DEF ConnectEnd,
     LeaveConnect, Leave, ConnectedOnce, TypeOK, Held
<1>4. ASSUME NEW p \in Providers, InitializerRuns(t, p) PROVE ConnectedOnce'
  <2>1. CASE Listed(p)
    BY <1>4, <2>1 DEF InitializerRuns, ConnectedOnce
  <2>2. CASE ~Listed(p)
    <3>1. connected' = With(connected, p) /\ connected[p] = 0
      BY <1>4, <2>2, MembersIn DEF InitializerRuns, Listed, TypeOK
    <3> QED
      <4>1. connected \in [Providers -> Nat] /\ \A q \in Providers \ BothKinds: connected[q] <= 1
        BY DEF TypeOK, ConnectedOnce
      <4>2. \A q \in Providers \ BothKinds: connected'[q] <= 1
        BY <3>1, <4>1, WithOnce
      <4> QED
        BY <4>2 DEF ConnectedOnce
  <2> QED
    BY <2>1, <2>2
<1>5. ASSUME NEW refuses \in BOOLEAN, InitializerFails(t, refuses)
      PROVE  ConnectedOnce'
  BY <1>5, WithIs, NothingIs, MembersIn, ProvidersAre DEF InitializerFails,
     LeaveConnect, Leave, FailOver, ConnectedOnce, TypeOK
<1>6. ASSUME CloseEnd(t) PROVE ConnectedOnce'
  BY <1>6, WithIs, NothingIs, MembersIn, ProvidersAre DEF CloseEnd,
     EndGeneration, ConnectedOnce, TypeOK
<1>7. ASSUME NEW new \in ExecutorSets, Replace(t, new) PROVE ConnectedOnce'
  BY <1>7, WithIs, NothingIs, MembersIn, ProvidersAre DEF Replace, Start,
     EndGeneration, ConnectedOnce, TypeOK
<1> QED
  BY <1>1, <1>2, <1>3, <1>4, <1>5, <1>6, <1>7 DEF Step

(* A transport is marked closed while closed, unless reopened unnoticed. *)
LEMMA SkippedStep ==
  ASSUME TypeOK, Locked, Placed, Held, Skipped, [Next]_vars
  PROVE  Skipped'
<1>0. ASSUME UNCHANGED vars
      PROVE  Skipped'
  BY <1>0 DEF vars, Skipped
<1> SUFFICES ASSUME NEW t \in Threads,
                    \/ Step(t)
                    \/ RunBegin(t) \/ ConnectBegin(t) \/ CloseBegin(t) \/ PathBegin(t)
                    \/ \E p \in Providers: InitializerRuns(t, p) \/ PathUse(t, p)
                    \/ \E new \in ExecutorSets: Replace(t, new)
             PROVE  Skipped'
  BY <1>0 DEF Next
<1>1. ASSUME \/ RunBegin(t) \/ RunNone(t) \/ ConnectBegin(t)
             \/ ConnectSkips(t) \/ ConnectNothing(t) \/ ConnectEnd(t)
             \/ InitializerDone(t) \/ CloseBegin(t) \/ CloseEnd(t)
             \/ ReplaceEnd(t) \/ PathBegin(t) \/ PathDeclined(t)
             \/ \E new \in ExecutorSets: Replace(t, new)
             \/ \E p \in Providers:
                   \/ RunSelect(t, p) \/ ConnectRefused(t, p)
             \/ \E refuses \in BOOLEAN: NotReady(t, refuses)
      PROVE  Skipped'
  BY <1>1 DEF RunBegin, Start, RunSelect, RunNone, Leave, NotReady, FailOver,
     ConnectBegin, ConnectRefused, ConnectSkips, NextLeg, ConnectNothing,
     LeaveConnect, ConnectEnd, InitializerDone, CloseBegin, CloseEnd,
     EndGeneration, Replace, ReplaceEnd, PathBegin, PathDeclined, Skipped
<1>2. ASSUME Ready(t) PROVE Skipped'
  BY <1>2 DEF Ready, Listed, Due, ConnectProvider, Notice, Skipped, TypeOK,
     Locked, Held, Inside
<1>3. ASSUME NEW refuses \in BOOLEAN, Dispatch(t, refuses) PROVE Skipped'
  BY <1>3 DEF Dispatch, FailOver, Leave, Reopen, Skipped
<1>4. ASSUME NEW p \in Providers, Connects(t, p) PROVE Skipped'
  BY <1>4 DEF Connects, Connecting, Leg, ConnectProvider, Notice, NextLeg,
     Skipped, TypeOK, Locked, Held, Inside
<1>5. ASSUME NEW p \in Providers, ConnectFails(t, p) PROVE Skipped'
  BY <1>5 DEF ConnectFails, ClosedAgain, Connecting, LeaveConnect, Leave, Skipped
<1>6. ASSUME NEW p \in Providers, InitializerRuns(t, p) PROVE Skipped'
  BY <1>6 DEF InitializerRuns, Listed, Reopen, ConnectProvider, Notice, Skipped,
     TypeOK, Locked, Held, Inside
<1>7. ASSUME NEW refuses \in BOOLEAN, InitializerFails(t, refuses)
      PROVE  Skipped'
  BY <1>7 DEF InitializerFails, ClosedAgain, LeaveConnect, Leave, FailOver,
     Skipped
<1>8. ASSUME NEW target \in Transports, CloseTarget(t, target) PROVE Skipped'
  BY <1>8 DEF CloseTarget, Skipped, TypeOK, Locked, Held, Inside
<1>9. ASSUME MarkClosed(t) PROVE Skipped'
  BY <1>9 DEF MarkClosed, Skipped
<1>10. ASSUME NEW p \in Providers, PathPick(t, p) PROVE Skipped'
  BY <1>10 DEF PathPick, Notice, Skipped, TypeOK, Locked, Held, Inside
<1>11. ASSUME NEW connects \in BOOLEAN, PathBuilt(t, connects) PROVE Skipped'
  BY <1>11 DEF PathBuilt, Reopen, Leave, Skipped
<1>12. ASSUME NEW p \in Providers, PathUse(t, p) PROVE Skipped'
  BY <1>12 DEF PathUse, Start, Reopen, Skipped
<1> QED
  BY <1>1, <1>2, <1>3, <1>4, <1>5, <1>6, <1>7, <1>8, <1>9, <1>10, <1>11, <1>12
     DEF Step

(* The initializer comes first, and once. *)
LEMMA OnceStep ==
  ASSUME TypeOK, Locked, Placed, Once, [Next]_vars
  PROVE  Once'
<1>0. ASSUME UNCHANGED vars
      PROVE  Once'
  BY <1>0 DEF vars, TypeOK, Locked, Inside, Once, DispatchInitialized
<1> SUFFICES ASSUME NEW t \in Threads,
                    \/ Step(t)
                    \/ RunBegin(t) \/ ConnectBegin(t) \/ CloseBegin(t) \/ PathBegin(t)
                    \/ \E p \in Providers: InitializerRuns(t, p) \/ PathUse(t, p)
                    \/ \E new \in ExecutorSets: Replace(t, new)
             PROVE  Once'
  BY <1>0 DEF Next
<1>1. ASSUME \/ MarkClosed(t)
             \/ \E p \in Providers:
                   \/ ConnectRefused(t, p) \/ InitializerRuns(t, p)
             \/ \E target \in Transports: CloseTarget(t, target)
      PROVE  Once'
  BY <1>1 DEF ConnectRefused, InitializerRuns, Reopen, ConnectProvider, Notice,
     CloseTarget, MarkClosed, Locked, Inside, Once, DispatchInitialized
<1>2. ASSUME RunBegin(t) PROVE Once'
  BY <1>2, HostAssumption DEF RunBegin, Start, TypeOK, Locked, Inside, Once,
     DispatchInitialized, Goto
<1>3. ASSUME NEW p \in Providers, RunSelect(t, p) PROVE Once'
  BY <1>3, HostAssumption DEF RunSelect, TypeOK, Locked, Inside, Once,
     DispatchInitialized, Goto
<1>4. ASSUME RunNone(t) PROVE Once'
  BY <1>4, HostAssumption DEF RunNone, Leave, TypeOK, Locked, Inside, Once,
     DispatchInitialized, Goto
<1>5. ASSUME Ready(t) PROVE Once'
  BY <1>5, HostAssumption DEF Ready, Listed, Due, ConnectProvider, Notice,
     TypeOK, Locked, Inside, Once, DispatchInitialized, Goto
<1>6. ASSUME NEW refuses \in BOOLEAN, NotReady(t, refuses) PROVE Once'
  BY <1>6, HostAssumption DEF NotReady, FailOver, Leave, TypeOK, Locked, Inside,
     Once, DispatchInitialized, Goto
<1>7. ASSUME NEW refuses \in BOOLEAN, Dispatch(t, refuses) PROVE Once'
  BY <1>7, HostAssumption DEF Dispatch, FailOver, Leave, Reopen, TypeOK, Locked,
     Inside, Once, DispatchInitialized, Goto
<1>8. ASSUME ConnectBegin(t) PROVE Once'
  BY <1>8, HostAssumption DEF ConnectBegin, Start, TypeOK, Locked, Inside, Once,
     DispatchInitialized, Goto
<1>9. ASSUME NEW p \in Providers, Connects(t, p) PROVE Once'
  BY <1>9, HostAssumption DEF Connects, Connecting, Leg, ConnectProvider,
     Notice, NextLeg, TypeOK, Locked, Inside, Once, DispatchInitialized, Goto
<1>10. ASSUME ConnectSkips(t) PROVE Once'
  BY <1>10, HostAssumption DEF ConnectSkips, NextLeg, TypeOK, Locked, Inside,
     Once, DispatchInitialized, Goto
<1>11. ASSUME NEW p \in Providers, ConnectFails(t, p) PROVE Once'
  BY <1>11, HostAssumption DEF ConnectFails, Connecting, LeaveConnect, Leave,
     TypeOK, Locked, Inside, Once, DispatchInitialized, Goto
<1>12. ASSUME ConnectNothing(t) PROVE Once'
  BY <1>12, HostAssumption DEF ConnectNothing, LeaveConnect, Leave, TypeOK,
     Locked, Inside, Once, DispatchInitialized, Goto
<1>13. ASSUME ConnectEnd(t) PROVE Once'
  BY <1>13, HostAssumption DEF ConnectEnd, LeaveConnect, Leave, TypeOK, Locked,
     Inside, Once, DispatchInitialized, Goto
<1>14. ASSUME InitializerDone(t) PROVE Once'
  BY <1>14, HostAssumption DEF InitializerDone, LeaveConnect, Leave, TypeOK,
     Locked, Inside, Once, DispatchInitialized, Goto
<1>15. ASSUME NEW refuses \in BOOLEAN, InitializerFails(t, refuses) PROVE Once'
  BY <1>15, HostAssumption DEF InitializerFails, LeaveConnect, Leave, FailOver,
     TypeOK, Locked, Inside, Once, DispatchInitialized, Goto
<1>16. ASSUME CloseBegin(t) PROVE Once'
  BY <1>16, HostAssumption DEF CloseBegin, Start, Known, TypeOK, Locked, Inside,
     Once, DispatchInitialized, Goto
<1>17. ASSUME CloseEnd(t) PROVE Once'
  BY <1>17, HostAssumption DEF CloseEnd, EndGeneration, TypeOK, Locked, Inside,
     Once, DispatchInitialized, Goto
<1>18. ASSUME NEW new \in ExecutorSets, Replace(t, new) PROVE Once'
  BY <1>18, HostAssumption DEF Replace, Start, EndGeneration, TypeOK, Locked,
     Inside, Once, DispatchInitialized, Goto
<1>19. ASSUME ReplaceEnd(t) PROVE Once'
  BY <1>19, HostAssumption DEF ReplaceEnd, TypeOK, Locked, Inside, Once,
     DispatchInitialized, Goto
<1>20. ASSUME PathBegin(t) PROVE Once'
  BY <1>20, HostAssumption DEF PathBegin, Start, TypeOK, Locked, Inside, Once,
     DispatchInitialized, Goto
<1>21. ASSUME NEW p \in Providers, PathPick(t, p) PROVE Once'
  BY <1>21, HostAssumption DEF PathPick, Notice, TypeOK, Locked, Inside, Once,
     DispatchInitialized, Goto
<1>22. ASSUME NEW connects \in BOOLEAN, PathBuilt(t, connects) PROVE Once'
  BY <1>22, HostAssumption DEF PathBuilt, Reopen, Leave, TypeOK, Locked, Inside,
     Once, DispatchInitialized, Goto
<1>23. ASSUME PathDeclined(t) PROVE Once'
  BY <1>23, HostAssumption DEF PathDeclined, FailOver, TypeOK, Locked, Inside,
     Once, DispatchInitialized, Goto
<1>24. ASSUME NEW p \in Providers, PathUse(t, p) PROVE Once'
  BY <1>24, HostAssumption DEF PathUse, Start, Reopen, TypeOK, Locked, Inside,
     Once, DispatchInitialized, Goto
<1> QED
  BY <1>1, <1>2, <1>3, <1>4, <1>5, <1>6, <1>7, <1>8, <1>9, <1>10, <1>11, <1>12,
     <1>13, <1>14, <1>15, <1>16, <1>17, <1>18, <1>19, <1>20, <1>21, <1>22,
     <1>23, <1>24 DEF Step

(* The transport of a provider the host has, or has just connected, is one *)
(* it answers for.                                                         *)
LEMMA InBase ==
  ASSUME TypeOK, NEW p \in executors \cup Paths
  PROVE  TransportOf[p] \in Base
  BY TargetIn, ProvidersAre DEF TypeOK, Base

LEMMA ConnectedInBase ==
  ASSUME TypeOK, NEW p \in Providers, ConnectProvider(p), executors' = executors
  PROVE  TransportOf[p] \in Base'
  BY TargetIn, ProvidersAre DEF TypeOK, Base, ConnectProvider

(* The host goes on answering for every transport it answered for. *)
LEMMA BaseGrows ==
  ASSUME TypeOK, Locked, Placed, Held, [Next]_vars
  PROVE  Base \subseteq Base'
<1>0. ASSUME UNCHANGED vars
      PROVE  Base \subseteq Base'
  BY <1>0 DEF vars, Base
<1> SUFFICES ASSUME NEW t \in Threads,
                    \/ Step(t)
                    \/ RunBegin(t) \/ ConnectBegin(t) \/ CloseBegin(t) \/ PathBegin(t)
                    \/ \E p \in Providers: InitializerRuns(t, p) \/ PathUse(t, p)
                    \/ \E new \in ExecutorSets: Replace(t, new)
             PROVE  Base \subseteq Base'
  BY <1>0 DEF Next
<1>1. ASSUME \/ RunBegin(t) \/ RunNone(t) \/ ConnectBegin(t)
             \/ ConnectSkips(t) \/ ConnectNothing(t) \/ ConnectEnd(t)
             \/ InitializerDone(t) \/ CloseEnd(t) \/ ReplaceEnd(t)
             \/ PathBegin(t) \/ PathDeclined(t)
             \/ \E connects \in BOOLEAN: PathBuilt(t, connects)
             \/ \E p \in Providers:
                   \/ RunSelect(t, p) \/ ConnectRefused(t, p)
                   \/ ConnectFails(t, p) \/ PathUse(t, p)
             \/ \E refuses \in BOOLEAN:
                   \/ NotReady(t, refuses) \/ Dispatch(t, refuses)
                   \/ InitializerFails(t, refuses)
      PROVE  Base \subseteq Base'
  BY <1>1 DEF RunBegin, Start, RunSelect, RunNone, Leave, NotReady, FailOver,
     Dispatch, Reopen, ConnectBegin, ConnectRefused, ConnectSkips, NextLeg,
     ConnectFails, LeaveConnect, ConnectNothing, ConnectEnd, InitializerDone,
     InitializerFails, CloseEnd, EndGeneration, ReplaceEnd, PathBegin,
     PathBuilt, PathDeclined, PathUse, Base
<1>2. ASSUME Ready(t) PROVE Base \subseteq Base'
  BY <1>2, TargetIn, ProvidersAre DEF Ready, Listed, Due, ConnectProvider,
     Notice, Base, TypeOK
<1>3. ASSUME NEW p \in Providers, Connects(t, p) PROVE Base \subseteq Base'
  BY <1>3, TargetIn, ProvidersAre DEF Connects, Connecting, Leg,
     ConnectProvider, Notice, NextLeg, Base, TypeOK
<1>4. ASSUME NEW p \in Providers, InitializerRuns(t, p)
      PROVE  Base \subseteq Base'
  BY <1>4, TargetIn, ProvidersAre DEF InitializerRuns, Listed, Reopen,
     ConnectProvider, Notice, Base, TypeOK
<1>5. ASSUME CloseBegin(t) PROVE Base \subseteq Base'
  BY <1>5 DEF CloseBegin, Start, Known, Base, Held
<1>6. ASSUME NEW target \in Transports, CloseTarget(t, target)
      PROVE  Base \subseteq Base'
  BY <1>6 DEF CloseTarget, Base
<1>7. ASSUME MarkClosed(t) PROVE Base \subseteq Base'
  BY <1>7 DEF MarkClosed, Base
<1>8. ASSUME NEW new \in ExecutorSets, Replace(t, new)
      PROVE  Base \subseteq Base'
  <2> DEFINE gone == executors \ (new \cup Paths)
  <2>1. /\ todo = {} /\ UNCHANGED <<strays, closed, closing>> /\ executors' = new
        /\ todo' = (Targets(gone) \ Targets(new \cup Paths)) \ closed
    BY <1>8 DEF Replace, Held
  <2>2. Targets(executors \cup Paths) \subseteq Targets(gone) \cup Targets(new \cup Paths)
    <3>1. gone \in SUBSET Providers /\ new \cup Paths \in SUBSET Providers
      BY ProvidersAre DEF TypeOK
    <3>2. /\ executors \cup Paths \subseteq gone \cup (new \cup Paths)
          /\ gone \cup (new \cup Paths) \in SUBSET Providers
      BY <3>1
    <3> DEFINE stay == new \cup Paths
    <3> HIDE DEF gone, stay
    <3>3. Targets(executors \cup Paths) \subseteq Targets(gone \cup stay)
      BY <3>2, TargetsOver DEF stay
    <3>4. Targets(gone \cup stay) = Targets(gone) \cup Targets(stay)
      BY <3>1, TargetsCup DEF stay
    <3> QED
      BY <3>3, <3>4 DEF stay
  <2> QED
    BY <2>1, <2>2 DEF Base
<1>9. ASSUME NEW p \in Providers, PathPick(t, p) PROVE Base \subseteq Base'
  BY <1>9, TargetIn, ProvidersAre DEF PathPick, Notice, Base, TypeOK
<1> QED
  BY <1>1, <1>2, <1>3, <1>4, <1>5, <1>6, <1>7, <1>8, <1>9 DEF Step

LEMMA BaseStays ==
  ASSUME UNCHANGED vars
  PROVE  Base' = Base
  BY DEF vars, Base

(* What is opened is one the host answers for. *)
LEMMA OpenStep ==
  ASSUME TypeOK, TypeOK', Locked, Placed, Held, Base \subseteq Base', OpenBased, ListBased,
         UseBased, [Next]_vars
  PROVE  OpenBased'
<1>0. ASSUME UNCHANGED vars
      PROVE  OpenBased'
  BY <1>0, BaseStays DEF vars, OpenBased
<1> SUFFICES ASSUME NEW t \in Threads,
                    \/ Step(t)
                    \/ RunBegin(t) \/ ConnectBegin(t) \/ CloseBegin(t) \/ PathBegin(t)
                    \/ \E p \in Providers: InitializerRuns(t, p) \/ PathUse(t, p)
                    \/ \E new \in ExecutorSets: Replace(t, new)
             PROVE  OpenBased'
  BY <1>0 DEF Next
<1>1. ASSUME \/ RunBegin(t) \/ RunNone(t) \/ ConnectBegin(t)
             \/ ConnectSkips(t) \/ ConnectNothing(t) \/ ConnectEnd(t)
             \/ InitializerDone(t) \/ CloseBegin(t) \/ MarkClosed(t)
             \/ CloseEnd(t) \/ ReplaceEnd(t) \/ PathBegin(t)
             \/ PathDeclined(t)
             \/ \E new \in ExecutorSets: Replace(t, new)
             \/ \E p \in Providers:
                   \/ RunSelect(t, p) \/ ConnectRefused(t, p)
                   \/ PathPick(t, p)
             \/ \E refuses \in BOOLEAN: NotReady(t, refuses)
      PROVE  OpenBased'
  BY <1>1 DEF RunBegin, Start, RunSelect, RunNone, Leave, NotReady, FailOver,
     ConnectBegin, ConnectRefused, ConnectSkips, NextLeg, ConnectNothing,
     LeaveConnect, ConnectEnd, InitializerDone, CloseBegin, MarkClosed,
     CloseEnd, EndGeneration, Replace, ReplaceEnd, PathBegin, PathPick, Notice,
     PathDeclined, OpenBased
<1>2. ASSUME Ready(t) PROVE OpenBased'
  <2>1. provider[t] \in Providers
    BY <1>2 DEF Ready, Placed
  <2>2. CASE Listed(provider[t])
    BY <1>2, <2>2 DEF Ready, OpenBased
  <2>3. CASE ~Listed(provider[t])
    <3>1. ConnectProvider(provider[t]) /\ executors' = executors
      BY <1>2, <2>3 DEF Ready
    <3> QED
      BY <2>1, <3>1, ConnectedInBase DEF ConnectProvider, OpenBased
  <2> QED
    BY <2>2, <2>3
<1>3. ASSUME NEW refuses \in BOOLEAN, Dispatch(t, refuses) PROVE OpenBased'
  <2>1. provider[t] \in Providers /\ TransportOf[provider[t]] \in Base
    BY <1>3, HostAssumption DEF Dispatch, Placed, UseBased
  <2> QED
    BY <1>3, <2>1 DEF Dispatch, Reopen, OpenBased
<1>4. ASSUME NEW p \in Providers, Connects(t, p) PROVE OpenBased'
  <2>1. ConnectProvider(p) /\ executors' = executors
    BY <1>4 DEF Connects
  <2> QED
    BY <2>1, ConnectedInBase DEF ConnectProvider, OpenBased
<1>5. ASSUME NEW p \in Providers, ConnectFails(t, p) PROVE OpenBased'
  BY <1>5 DEF ConnectFails, ClosedAgain, Connecting, LeaveConnect, Leave, OpenBased
<1>6. ASSUME NEW p \in Providers, InitializerRuns(t, p) PROVE OpenBased'
  <2>1. CASE Listed(p)
    BY <1>6, <2>1, InBase DEF InitializerRuns, Reopen, OpenBased
  <2>2. CASE ~Listed(p)
    <3>1. ConnectProvider(p) /\ executors' = executors
      BY <1>6, <2>2 DEF InitializerRuns
    <3> QED
      BY <3>1, ConnectedInBase DEF ConnectProvider, OpenBased
  <2> QED
    BY <2>1, <2>2
<1>7. ASSUME NEW refuses \in BOOLEAN, InitializerFails(t, refuses)
      PROVE  OpenBased'
  BY <1>7 DEF InitializerFails, ClosedAgain, LeaveConnect, Leave, FailOver, OpenBased
<1>8. ASSUME NEW target \in Transports, CloseTarget(t, target) PROVE OpenBased'
  BY <1>8 DEF CloseTarget, OpenBased
<1>9. ASSUME NEW connects \in BOOLEAN, PathBuilt(t, connects) PROVE OpenBased'
  BY <1>9, InBase DEF PathBuilt, Reopen, Leave, OpenBased, Placed
<1>10. ASSUME NEW p \in Providers, PathUse(t, p) PROVE OpenBased'
  BY <1>10, InBase DEF PathUse, Start, Reopen, OpenBased, TypeOK
<1> QED
  BY <1>1, <1>2, <1>3, <1>4, <1>5, <1>6, <1>7, <1>8, <1>9, <1>10 DEF Step

(* Whatever is listed as connected is over one the host answers for. *)
LEMMA ListStep ==
  ASSUME TypeOK, TypeOK', Locked, Placed, Held, Base \subseteq Base', ListBased, [Next]_vars
  PROVE  ListBased'
<1>0. ASSUME UNCHANGED vars
      PROVE  ListBased'
  BY <1>0, BaseStays DEF vars, ListBased
<1> SUFFICES ASSUME NEW t \in Threads,
                    \/ Step(t)
                    \/ RunBegin(t) \/ ConnectBegin(t) \/ CloseBegin(t) \/ PathBegin(t)
                    \/ \E p \in Providers: InitializerRuns(t, p) \/ PathUse(t, p)
                    \/ \E new \in ExecutorSets: Replace(t, new)
             PROVE  ListBased'
  BY <1>0 DEF Next
<1>1. ASSUME \/ RunBegin(t) \/ RunNone(t) \/ ConnectBegin(t)
             \/ ConnectSkips(t) \/ ConnectNothing(t) \/ InitializerDone(t)
             \/ CloseBegin(t) \/ MarkClosed(t) \/ ReplaceEnd(t)
             \/ PathBegin(t) \/ PathDeclined(t)
             \/ \E connects \in BOOLEAN: PathBuilt(t, connects)
             \/ \E p \in Providers:
                   \/ RunSelect(t, p) \/ Connects(t, p)
                   \/ ConnectRefused(t, p) \/ ConnectFails(t, p)
                   \/ PathPick(t, p) \/ PathUse(t, p)
             \/ \E refuses \in BOOLEAN:
                   \/ NotReady(t, refuses) \/ Dispatch(t, refuses)
             \/ \E target \in Transports: CloseTarget(t, target)
      PROVE  ListBased'
  BY <1>1 DEF RunBegin, Start, RunSelect, RunNone, Leave, NotReady, FailOver,
     Dispatch, Reopen, ConnectBegin, Connects, ConnectProvider, Notice, NextLeg,
     ConnectRefused, ConnectSkips, ConnectFails, LeaveConnect, ConnectNothing,
     InitializerDone, CloseBegin, CloseTarget, MarkClosed, ReplaceEnd,
     PathBegin, PathPick, PathBuilt, PathDeclined, PathUse, ListBased
<1>2. ASSUME Ready(t) PROVE ListBased'
  <2>1. provider[t] \in Providers
    BY <1>2 DEF Ready, Placed
  <2>2. CASE Listed(provider[t])
    BY <1>2, <2>2 DEF Ready, ListBased
  <2>3. CASE ~Listed(provider[t])
    <3>1. /\ ConnectProvider(provider[t]) /\ executors' = executors
          /\ connected' = With(connected, provider[t])
      BY <1>2, <2>3 DEF Ready
    <3>2. Members(connected') = Members(connected) \cup {provider[t]}
      BY <2>1, <3>1, WithIs DEF TypeOK
    <3> QED
      BY <2>1, <3>1, <3>2, ConnectedInBase DEF ListBased
  <2> QED
    BY <2>2, <2>3
<1>3. ASSUME ConnectEnd(t) PROVE ListBased'
  BY <1>3, InBase DEF ConnectEnd, LeaveConnect, Leave, ListBased, Held
<1>4. ASSUME NEW p \in Providers, InitializerRuns(t, p) PROVE ListBased'
  <2>1. CASE Listed(p)
    BY <1>4, <2>1 DEF InitializerRuns, ListBased
  <2>2. CASE ~Listed(p)
    <3>1. /\ ConnectProvider(p) /\ executors' = executors
          /\ connected' = With(connected, p)
      BY <1>4, <2>2 DEF InitializerRuns
    <3>2. Members(connected') = Members(connected) \cup {p}
      BY <3>1, WithIs DEF TypeOK
    <3> QED
      BY <3>1, <3>2, ConnectedInBase DEF ListBased
  <2> QED
    BY <2>1, <2>2
<1>5. ASSUME NEW refuses \in BOOLEAN, InitializerFails(t, refuses)
      PROVE  ListBased'
  BY <1>5, NothingIs DEF InitializerFails, LeaveConnect, Leave, FailOver, ListBased
<1>6. ASSUME CloseEnd(t) PROVE ListBased'
  BY <1>6, NothingIs DEF CloseEnd, EndGeneration, ListBased
<1>7. ASSUME NEW new \in ExecutorSets, Replace(t, new) PROVE ListBased'
  <2>1. Members(connected') \subseteq Members(connected)
    BY <1>7 DEF Replace, Members
  <2> QED
    BY <2>1 DEF ListBased
<1> QED
  BY <1>1, <1>2, <1>3, <1>4, <1>5, <1>6, <1>7 DEF Step

(* Whatever is made ready for a use is over one the host answers for. *)
LEMMA UseStep ==
  ASSUME TypeOK, TypeOK', Locked, Placed, Held, Base \subseteq Base', ListBased, UseBased,
         [Next]_vars
  PROVE  UseBased'
<1>0. ASSUME UNCHANGED vars
      PROVE  UseBased'
  BY <1>0, BaseStays DEF vars, UseBased, TypeOK
<1> SUFFICES ASSUME NEW t \in Threads,
                    \/ Step(t)
                    \/ RunBegin(t) \/ ConnectBegin(t) \/ CloseBegin(t) \/ PathBegin(t)
                    \/ \E p \in Providers: InitializerRuns(t, p) \/ PathUse(t, p)
                    \/ \E new \in ExecutorSets: Replace(t, new)
             PROVE  UseBased'
  BY <1>0 DEF Next
<1>1. ASSUME \/ MarkClosed(t)
             \/ \E p \in Providers:
                   \/ ConnectRefused(t, p) \/ InitializerRuns(t, p)
             \/ \E target \in Transports: CloseTarget(t, target)
      PROVE  UseBased'
  BY <1>1 DEF ConnectRefused, InitializerRuns, Reopen, ConnectProvider, Notice,
     CloseTarget, MarkClosed, UseBased
<1>2. ASSUME RunBegin(t) PROVE UseBased'
  BY <1>2 DEF RunBegin, Start, UseBased, TypeOK, Goto
<1>3. ASSUME NEW p \in Providers, RunSelect(t, p) PROVE UseBased'
  BY <1>3 DEF RunSelect, UseBased, TypeOK, Goto
<1>4. ASSUME RunNone(t) PROVE UseBased'
  BY <1>4 DEF RunNone, Leave, UseBased, TypeOK, Goto
<1>5. ASSUME Ready(t) PROVE UseBased'
  <2>1. provider[t] \in Providers /\ provider' = provider
    BY <1>5 DEF Ready, Placed
  <2>2. TransportOf[provider[t]] \in Base'
    <3>1. CASE Listed(provider[t])
      BY <3>1 DEF Listed, ListBased
    <3>2. CASE ~Listed(provider[t])
      BY <1>5, <2>1, <3>2, ConnectedInBase DEF Ready
    <3> QED
      BY <3>1, <3>2
  <2>3. \A u \in Threads \ {t}: pc'[u] = pc[u]
    BY <1>5 DEF Ready, Goto, TypeOK
  <2> QED
    BY <2>1, <2>2, <2>3 DEF UseBased
<1>6. ASSUME NEW refuses \in BOOLEAN, NotReady(t, refuses) PROVE UseBased'
  BY <1>6 DEF NotReady, FailOver, Leave, UseBased, TypeOK, Goto
<1>7. ASSUME NEW refuses \in BOOLEAN, Dispatch(t, refuses) PROVE UseBased'
  BY <1>7 DEF Dispatch, FailOver, Leave, Reopen, UseBased, TypeOK, Goto
<1>8. ASSUME ConnectBegin(t) PROVE UseBased'
  BY <1>8 DEF ConnectBegin, Start, UseBased, TypeOK, Goto
<1>9. ASSUME NEW p \in Providers, Connects(t, p) PROVE UseBased'
  BY <1>9 DEF Connects, Connecting, Leg, ConnectProvider, Notice, NextLeg,
     UseBased, TypeOK, Goto
<1>10. ASSUME ConnectSkips(t) PROVE UseBased'
  BY <1>10 DEF ConnectSkips, NextLeg, UseBased, TypeOK, Goto
<1>11. ASSUME NEW p \in Providers, ConnectFails(t, p) PROVE UseBased'
  BY <1>11 DEF ConnectFails, Connecting, LeaveConnect, Leave, UseBased, TypeOK, Goto
<1>12. ASSUME ConnectNothing(t) PROVE UseBased'
  BY <1>12 DEF ConnectNothing, LeaveConnect, Leave, UseBased, TypeOK, Goto
<1>13. ASSUME ConnectEnd(t) PROVE UseBased'
  BY <1>13 DEF ConnectEnd, LeaveConnect, Leave, UseBased, TypeOK, Goto, Placed,
     Inside
<1>14. ASSUME InitializerDone(t) PROVE UseBased'
  BY <1>14 DEF InitializerDone, LeaveConnect, Leave, UseBased, TypeOK, Goto
<1>15. ASSUME NEW refuses \in BOOLEAN, InitializerFails(t, refuses)
      PROVE  UseBased'
  BY <1>15 DEF InitializerFails, LeaveConnect, Leave, FailOver, UseBased,
     TypeOK, Goto
<1>16. ASSUME CloseBegin(t) PROVE UseBased'
  BY <1>16 DEF CloseBegin, Start, Known, UseBased, TypeOK, Goto
<1>17. ASSUME CloseEnd(t) PROVE UseBased'
  BY <1>17 DEF CloseEnd, EndGeneration, UseBased, TypeOK, Goto, Placed
<1>18. ASSUME NEW new \in ExecutorSets, Replace(t, new) PROVE UseBased'
  BY <1>18 DEF Replace, Start, EndGeneration, UseBased, TypeOK, Goto
<1>19. ASSUME ReplaceEnd(t) PROVE UseBased'
  BY <1>19 DEF ReplaceEnd, UseBased, TypeOK, Goto
<1>20. ASSUME PathBegin(t) PROVE UseBased'
  BY <1>20 DEF PathBegin, Start, UseBased, TypeOK, Goto
<1>21. ASSUME NEW p \in Providers, PathPick(t, p) PROVE UseBased'
  BY <1>21 DEF PathPick, Notice, UseBased, TypeOK, Goto
<1>22. ASSUME NEW connects \in BOOLEAN, PathBuilt(t, connects) PROVE UseBased'
  BY <1>22 DEF PathBuilt, Reopen, Leave, UseBased, TypeOK, Goto
<1>23. ASSUME PathDeclined(t) PROVE UseBased'
  BY <1>23 DEF PathDeclined, FailOver, UseBased, TypeOK, Goto
<1>24. ASSUME NEW p \in Providers, PathUse(t, p) PROVE UseBased'
  BY <1>24 DEF PathUse, Start, Reopen, UseBased, TypeOK, Goto
<1> QED
  BY <1>1, <1>2, <1>3, <1>4, <1>5, <1>6, <1>7, <1>8, <1>9, <1>10, <1>11, <1>12,
     <1>13, <1>14, <1>15, <1>16, <1>17, <1>18, <1>19, <1>20, <1>21, <1>22,
     <1>23, <1>24 DEF Step

(* A close forgets no transport on its way. *)
LEMMA ClosesStep ==
  ASSUME TypeOK, Locked, Closes, [Next]_vars
  PROVE  Closes'
<1>0. ASSUME UNCHANGED vars
      PROVE  Closes'
  BY <1>0 DEF vars, TypeOK, Locked, Inside, Closes
<1> SUFFICES ASSUME NEW t \in Threads,
                    \/ Step(t)
                    \/ RunBegin(t) \/ ConnectBegin(t) \/ CloseBegin(t) \/ PathBegin(t)
                    \/ \E p \in Providers: InitializerRuns(t, p) \/ PathUse(t, p)
                    \/ \E new \in ExecutorSets: Replace(t, new)
             PROVE  Closes'
  BY <1>0 DEF Next
<1>1. ASSUME RunBegin(t) PROVE Closes'
  BY <1>1, HostAssumption DEF RunBegin, Start, TypeOK, Locked, Inside, Closes, Goto
<1>2. ASSUME NEW p \in Providers, RunSelect(t, p) PROVE Closes'
  BY <1>2, HostAssumption DEF RunSelect, TypeOK, Locked, Inside, Closes, Goto
<1>3. ASSUME RunNone(t) PROVE Closes'
  BY <1>3, HostAssumption DEF RunNone, Leave, TypeOK, Locked, Inside, Closes, Goto
<1>4. ASSUME Ready(t) PROVE Closes'
  BY <1>4, HostAssumption DEF Ready, Listed, Due, ConnectProvider, Notice,
     TypeOK, Locked, Inside, Closes, Goto
<1>5. ASSUME NEW refuses \in BOOLEAN, NotReady(t, refuses) PROVE Closes'
  BY <1>5, HostAssumption DEF NotReady, FailOver, Leave, TypeOK, Locked, Inside,
     Closes, Goto
<1>6. ASSUME NEW refuses \in BOOLEAN, Dispatch(t, refuses) PROVE Closes'
  BY <1>6, HostAssumption DEF Dispatch, FailOver, Leave, Reopen, TypeOK, Locked,
     Inside, Closes, Goto
<1>7. ASSUME ConnectBegin(t) PROVE Closes'
  BY <1>7, HostAssumption DEF ConnectBegin, Start, TypeOK, Locked, Inside,
     Closes, Goto
<1>8. ASSUME NEW p \in Providers, Connects(t, p) PROVE Closes'
  BY <1>8, HostAssumption DEF Connects, Connecting, Leg, ConnectProvider,
     Notice, NextLeg, TypeOK, Locked, Inside, Closes, Goto
<1>9. ASSUME NEW p \in Providers, ConnectRefused(t, p) PROVE Closes'
  BY <1>9, HostAssumption DEF ConnectRefused, Connecting, Leg, TypeOK, Locked,
     Inside, Closes, Goto
<1>10. ASSUME ConnectSkips(t) PROVE Closes'
  BY <1>10, HostAssumption DEF ConnectSkips, NextLeg, TypeOK, Locked, Inside,
     Closes, Goto
<1>11. ASSUME NEW p \in Providers, ConnectFails(t, p) PROVE Closes'
  BY <1>11, HostAssumption DEF ConnectFails, Connecting, LeaveConnect, Leave,
     TypeOK, Locked, Inside, Closes, Goto
<1>12. ASSUME ConnectNothing(t) PROVE Closes'
  BY <1>12, HostAssumption DEF ConnectNothing, LeaveConnect, Leave, TypeOK,
     Locked, Inside, Closes, Goto
<1>13. ASSUME ConnectEnd(t) PROVE Closes'
  BY <1>13, HostAssumption DEF ConnectEnd, LeaveConnect, Leave, TypeOK, Locked,
     Inside, Closes, Goto
<1>14. ASSUME NEW p \in Providers, InitializerRuns(t, p) PROVE Closes'
  BY <1>14, HostAssumption DEF InitializerRuns, Listed, Reopen, ConnectProvider,
     Notice, TypeOK, Locked, Inside, Closes, Goto
<1>15. ASSUME InitializerDone(t) PROVE Closes'
  BY <1>15, HostAssumption DEF InitializerDone, LeaveConnect, Leave, TypeOK,
     Locked, Inside, Closes, Goto
<1>16. ASSUME NEW refuses \in BOOLEAN, InitializerFails(t, refuses)
      PROVE  Closes'
  BY <1>16, HostAssumption DEF InitializerFails, LeaveConnect, Leave, FailOver,
     TypeOK, Locked, Inside, Closes, Goto
<1>17. ASSUME CloseBegin(t) PROVE Closes'
  BY <1>17, HostAssumption, TargetsOver, ProvidersAre, MembersIn DEF CloseBegin,
     Start, Known, TypeOK, Locked, Inside, Closes, Goto
<1>18. ASSUME NEW target \in Transports, CloseTarget(t, target) PROVE Closes'
  BY <1>18, HostAssumption DEF CloseTarget, TypeOK, Locked, Inside, Closes, Goto
<1>19. ASSUME MarkClosed(t) PROVE Closes'
  BY <1>19, HostAssumption DEF MarkClosed, TypeOK, Locked, Inside, Closes, Goto
<1>20. ASSUME CloseEnd(t) PROVE Closes'
  BY <1>20, HostAssumption DEF CloseEnd, EndGeneration, TypeOK, Locked, Inside,
     Closes, Goto
<1>21. ASSUME NEW new \in ExecutorSets, Replace(t, new) PROVE Closes'
  BY <1>21, HostAssumption DEF Replace, Start, EndGeneration, TypeOK, Locked,
     Inside, Closes, Goto
<1>22. ASSUME ReplaceEnd(t) PROVE Closes'
  BY <1>22, HostAssumption DEF ReplaceEnd, TypeOK, Locked, Inside, Closes, Goto
<1>23. ASSUME PathBegin(t) PROVE Closes'
  BY <1>23, HostAssumption DEF PathBegin, Start, TypeOK, Locked, Inside, Closes,
     Goto
<1>24. ASSUME NEW p \in Providers, PathPick(t, p) PROVE Closes'
  BY <1>24, HostAssumption DEF PathPick, Notice, TypeOK, Locked, Inside, Closes,
     Goto
<1>25. ASSUME NEW connects \in BOOLEAN, PathBuilt(t, connects) PROVE Closes'
  BY <1>25, HostAssumption DEF PathBuilt, Reopen, Leave, TypeOK, Locked, Inside,
     Closes, Goto
<1>26. ASSUME PathDeclined(t) PROVE Closes'
  BY <1>26, HostAssumption DEF PathDeclined, FailOver, TypeOK, Locked, Inside,
     Closes, Goto
<1>27. ASSUME NEW p \in Providers, PathUse(t, p) PROVE Closes'
  BY <1>27, HostAssumption DEF PathUse, Start, Reopen, TypeOK, Locked, Inside,
     Closes, Goto
<1> QED
  BY <1>1, <1>2, <1>3, <1>4, <1>5, <1>6, <1>7, <1>8, <1>9, <1>10, <1>11, <1>12,
     <1>13, <1>14, <1>15, <1>16, <1>17, <1>18, <1>19, <1>20, <1>21, <1>22,
     <1>23, <1>24, <1>25, <1>26, <1>27 DEF Step

(* All of it together. *)
LEMMA InvInit == Init => HostInv
<1> SUFFICES ASSUME Init PROVE HostInv
  OBVIOUS
<1>1. TypeOK
  <2>1. /\ calls \in [Threads -> Nat] /\ \A t \in Threads: calls[t] <= MaxCalls[t]
        /\ moved \in [Threads -> BOOLEAN]
    BY HostAssumption DEF Init
  <2>2. /\ provider \in [Threads -> Providers \cup {NoProvider}]
        /\ excluded \in [Threads -> SUBSET Providers] /\ path \in [Threads -> SUBSET Paths]
    BY DEF Init
  <2> QED
    BY <2>1, <2>2, NothingIs DEF Init, TypeOK
<1>2. Locked /\ Placed /\ Held /\ ConnectedOnce
  BY HostAssumption, NothingIs DEF Init, Locked, Placed, Held, ConnectHolds,
     ConnectedOnce, Inside
<1>3. Skipped /\ OpenBased /\ ListBased /\ UseBased /\ Closes
  BY HostAssumption, NothingIs DEF Init, Skipped, OpenBased, ListBased,
     UseBased, Closes
<1>4. Once
  BY DEF Init, Once, DispatchInitialized
<1> QED
  BY <1>1, <1>2, <1>3, <1>4 DEF HostInv

LEMMA InvStep == HostInv /\ [Next]_vars => HostInv'
<1> SUFFICES ASSUME HostInv, [Next]_vars PROVE HostInv'
  OBVIOUS
<1>0. /\ TypeOK /\ Locked /\ Placed /\ Held /\ ConnectedOnce
      /\ Skipped /\ OpenBased /\ ListBased /\ UseBased /\ Closes /\ Once
  BY DEF HostInv
<1>1. TypeOK' /\ Locked' /\ Placed'
  BY <1>0, TypeStep, LockedStep, PlacedStep
<1>2. Held' /\ ConnectedOnce' /\ Skipped'
  BY <1>0, HeldStep, ListedStep, SkippedStep
<1>3. Base \subseteq Base'
  BY <1>0, BaseGrows
<1>4. OpenBased' /\ ListBased' /\ UseBased'
  BY <1>0, <1>1, <1>3, OpenStep, ListStep, UseStep
<1>5. Closes' /\ Once'
  BY <1>0, ClosesStep, OnceStep
<1> QED
  BY <1>1, <1>2, <1>4, <1>5 DEF HostInv

LEMMA InvAlways == Spec => []HostInv
  BY InvInit, InvStep, PTL DEF Spec

-----------------------------------------------------------------------------
(* The host knows its transports: no provider is listed twice, and a close *)
(* skips or leaves open only what was reopened behind the host's back,     *)
(* what raised when it was closed, or what was connected for a run whose   *)
(* provider was replaced meanwhile.                                        *)
THEOREM TransportsAreAccounted == Spec => []TransportsAccounted
<1>1. HostInv => TransportsAccounted
  <2> SUFFICES ASSUME HostInv PROVE TransportsAccounted
    OBVIOUS
  <2>1. TypeOK /\ ConnectedOnce /\ SkippedOnlyUnnoticed
    BY DEF HostInv, Skipped, SkippedOnlyUnnoticed
  <2>2. ASSUME NEW t \in Threads, pc[t] = "close", todo \cup closing = {}
        PROVE  open \subseteq unnoticed \cup unclosed \cup strays
    <3>1. lock # Nobody /\ pc[lock] = "close"
      BY <2>2, HostAssumption DEF HostInv, Locked, Inside
    <3>2. Base \subseteq strays \cup closed
      BY <2>2, <3>1 DEF HostInv, Closes, Base
    <3> QED
      BY <3>2 DEF HostInv, OpenBased, Skipped
  <2> QED
    BY <2>1, <2>2 DEF TransportsAccounted, CloseClosesAll
<1> QED
  BY <1>1, InvAlways, PTL

(* The session initializer completes at most once in a generation, and     *)
(* nothing is dispatched before it has.                                    *)
THEOREM InitializerFirst == Spec => []InitializedFirst
<1>1. HostInv => InitializedFirst
  BY DEF HostInv, Once, InitializedFirst, InitializedOnce
<1> QED
  BY <1>1, InvAlways, PTL

-----------------------------------------------------------------------------
(***************************************************************************)
(* The host of a QEMU guest, for any number of callers, calls, transports  *)
(* and connections, and for either kind of transport.                      *)
(***************************************************************************)
(* Where a thread may be, and what it knows there. *)
Ended == {"idle", "refused", "crashed", "asserted"}
Asking == {"execute", "bind", "bound", "call"}
Shutting == {"drop", "drop domain", "hang up", "dropped"}
Requesting == Asking \cup Shutting
CallPlaces == Ended \cup Requesting
            \cup {"connect", "obtain", "transport", "probing", "command", "capable", "backend",
                  "commands", "helper", "store", "take", "provider", "probe", "make", "use",
                  "close"}
Discovering == {"info", "commit"}

Doing == [op: G!Calls \cup {"none"}, at: CallPlaces, then: {"none", "capable", "commands"},
          back: {"none", "info", "commit", "ran", "probed", "used"},
          tr: Nat, of: Nat, be: Nat, helps: BOOLEAN, caps: BOOLEAN, conn: Nat]
Made == [tr: Nat, helps: BOOLEAN, caps: BOOLEAN, closed: BOOLEAN]

(* What GuestHost assumes of its constants.                                *)
GuestBounds == Kinds \subseteq {"framed", "libvirt"} /\ GuestHelps \in BOOLEAN /\ 0 \notin Callers
             /\ MaxTransports \in Nat

HostTyped ==
    /\ GuestBounds
    /\ kind \in Kinds /\ holder \in Callers \cup {0}
    /\ transport \in 0 .. built /\ built \in 0 .. MaxTransports
    /\ commands \in BOOLEAN /\ osInfo \in BOOLEAN /\ helper \in {"unprobed", "none", "some"}
    /\ backends \in Seq(Made) /\ backend \in 0 .. Len(backends) /\ maker \in 0 .. Len(backends)
    /\ paths \subseteq 1 .. Len(backends) /\ lost \subseteq 1 .. Len(backends)

WireTyped ==
    /\ dialled \in Nat /\ opened \subseteq 1 .. dialled
    /\ conn \in [G!AllTransports -> 0 .. dialled] /\ domain \in [G!AllTransports -> 0 .. dialled]
    /\ connLock \in [G!AllTransports -> Callers \cup {0}]

ThreadsTyped ==
    /\ th \in [Callers -> Doing]
    /\ \A t \in Callers: /\ th[t].tr \in 0 .. built /\ th[t].of \in 0 .. built
                         /\ th[t].be \in 0 .. Len(backends)

(* A call discovers the guest; one probes for the helper; and one          *)
(* assembles a backend over the transport `of`.                            *)
Discovers(t) ==
    \/ th[t].at = "obtain"
    \/ th[t].at \in Requesting /\ th[t].back \in Discovering
Probing(t) == th[t].at \in Requesting /\ th[t].back = "probed"
Assembling(t) ==
    \/ th[t].at \in {"commands", "helper", "probing", "store"}
    \/ Probing(t)
    \/ th[t].then = "commands" /\ (th[t].at = "connect" \/ Discovers(t))

(* What a thread's place says of the rest of what it is doing.             *)
Stands(t) ==
    /\ (th[t].at = "connect" \/ Discovers(t)) => th[t].then \in {"capable", "commands"}
    /\ th[t].op = "close" => th[t].at \in {"close"} \cup Shutting /\ th[t].back = "none"
    /\ th[t].at = "close" => th[t].op = "close" /\ th[t].tr = 0
    /\ th[t].at \in Requesting => th[t].tr # 0 /\ (th[t].op = "close" \/ th[t].back # "none")
    /\ th[t].conn # 0 => th[t].at \in {"bind", "bound", "drop domain", "hang up"}
    /\ th[t].at \in {"bind", "bound"} => th[t].conn # 0
    /\ th[t].at = "use" => th[t].be # 0
    /\ Assembling(t) => th[t].of # 0

(* A transport in use is the host's, unless its close met the call, or it  *)
(* is used through a backend whose place another took.                     *)
Overtaken(i) == i \in overlapped \/ \E b \in lost: backends[b].tr = i
Uses(t) ==
    /\ th[t].at \in Requesting /\ th[t].op # "close" /\ th[t].back # "used" =>
          (th[t].tr = transport \/ th[t].tr \in overlapped)
    /\ th[t].at \in Requesting /\ th[t].back = "used" =>
          (th[t].tr = transport \/ Overtaken(th[t].tr))
    /\ Assembling(t) => (th[t].of = transport \/ th[t].of \in overlapped)
BackendsOwn ==
    /\ \A b \in 1 .. Len(backends):
          /\ backends[b].tr \in 1 .. built
          /\ ~backends[b].closed => (b = backend \/ b \in lost)
    /\ backend # 0 => (backends[backend].tr = transport \/ backends[backend].tr \in overlapped)

(* The host's lock is held to discover the guest and to close.             *)
Holding(t) == Discovers(t) \/ (th[t].op = "close" /\ th[t].at \in Shutting)
LockOwn == \A t \in Callers: holder = t => Holding(t)

(* Until a close meets another call, a call that has found the guest's     *)
(* commands, or made a backend, finds them again.                          *)
Finds(t) ==
    /\ th[t].at \in {"capable", "commands"} => commands
    /\ (th[t].at \in {"helper", "probing", "store"} \/ Probing(t)) => th[t].caps
    /\ th[t].at \in {"take", "provider", "probe", "make"} => backend # 0
    /\ th[t].at = "provider" => th[t].be # 0
    /\ th[t].at \in {"probe", "make"} => maker # 0
    /\ th[t].at \notin {"refused", "crashed"}
Equipped ==
    /\ (commands \/ backend # 0) => transport # 0
    /\ \A b \in 1 .. Len(backends): backends[b].caps
Found == overlapped = {} => Equipped /\ \A t \in Callers: Finds(t)

(* The lock of a libvirt transport is held by the thread that connects it; *)
(* unless a close met a connect, the transport has a connection only when  *)
(* it has its domain, or is about to.                                      *)
Joins(t) ==
    /\ th[t].at \in {"bind", "bound", "drop domain", "hang up"} =>
          kind = "libvirt" /\ th[t].tr \in G!AllTransports
    /\ th[t].at \in {"bind", "bound"} => connLock[th[t].tr] = t
    /\ torn = {} =>
          /\ th[t].at \in {"bind", "drop domain"} => conn[th[t].tr] = 0
          /\ th[t].at = "bound" => conn[th[t].tr] = th[t].conn
JoinOwn == \A i \in G!AllTransports, t \in Callers:
    connLock[i] = t => th[t].at \in {"bind", "bound"} /\ th[t].tr = i
Wired == torn = {} /\ kind = "libvirt" =>
    \A i \in G!AllTransports: connLock[i] = 0 /\ domain[i] = 0 => conn[i] = 0

(* What is closed is the host's no longer, and what is left of it is for a *)
(* call that had fetched it before.                                        *)
Shuts(t) == th[t].op = "close" /\ th[t].at \in Shutting =>
    /\ th[t].tr \in G!AllTransports /\ th[t].tr # transport
    /\ torn = {} /\ th[t].at # "drop" => (conn[th[t].tr] = 0 \/ Overtaken(th[t].tr))

OpenOwn == torn = {} =>
    \A c \in opened: G!Owned(c) \/ \E i \in G!AllTransports: conn[i] = c /\ Overtaken(i)

(* What is kept of the host, and of the wire.                              *)
HostOwn ==
    /\ HostTyped /\ ThreadsTyped /\ BackendsOwn /\ LockOwn /\ G!DiscoveredWhole /\ Found
    /\ \A t \in Callers: Stands(t) /\ Uses(t)
WireOwn ==
    /\ WireTyped /\ JoinOwn /\ Wired /\ OpenOwn
    /\ \A t \in Callers: th[t].conn \in 0 .. dialled /\ Joins(t) /\ Shuts(t)
GuestInv == HostOwn /\ WireOwn


Rest(t) == \A u \in Callers \ {t}: th'[u] = th[u]

(* A step of `t` that leaves the host's transport and backends as they     *)
(* are keeps what is said of the host, when it does of `t`.                *)
LEMMA HostMoves ==
  ASSUME HostOwn, NEW t \in Callers, Rest(t), th' \in [Callers -> Doing],
         UNCHANGED <<kind, transport, built, backends, backend, overlapped, lost>>,
         maker' \in 0 .. Len(backends), paths' \subseteq 1 .. Len(backends),
         overlapped = {} /\ maker # 0 => maker' # 0,
         osInfo' \in BOOLEAN, helper' \in {"unprobed", "none", "some"}, G!DiscoveredWhole',
         \/ commands' = commands
         \/ commands' = TRUE /\ (overlapped = {} => transport # 0),
         \/ holder' = 0
         \/ holder' = t /\ Holding(t)'
         \/ holder' = holder /\ holder # t,
         th'[t].tr \in 0 .. built, th'[t].of \in 0 .. built, th'[t].be \in 0 .. Len(backends),
         Stands(t)', Uses(t)', overlapped = {} => Finds(t)'
  PROVE  HostOwn'
<1>0. /\ HostTyped /\ ThreadsTyped /\ BackendsOwn /\ LockOwn /\ G!DiscoveredWhole /\ Found
      /\ \A u \in Callers: Stands(u) /\ Uses(u)
  BY DEF HostOwn
<1>1. \A u \in Callers \ {t}: th'[u] = th[u]
  BY DEF Rest
<1>2. HostTyped'
  BY <1>0 DEF HostTyped, GuestBounds
<1>3. ThreadsTyped'
  BY <1>0, <1>1 DEF ThreadsTyped
<1>4. BackendsOwn'
  BY <1>0 DEF BackendsOwn
<1>5. LockOwn'
  <2> SUFFICES ASSUME NEW u \in Callers, holder' = u PROVE Holding(u)'
    BY DEF LockOwn
  <2>1. CASE u = t
    BY <1>0, <2>1 DEF HostTyped, GuestBounds
  <2>2. CASE u # t
    <3>1. Holding(u) /\ th'[u] = th[u]
      BY <1>0, <1>1, <2>2 DEF LockOwn, HostTyped, GuestBounds
    <3> QED
      BY <3>1 DEF Holding, Discovers
  <2> QED
    BY <2>1, <2>2
<1>6. \A u \in Callers: Stands(u)'
  <2> SUFFICES ASSUME NEW u \in Callers \ {t} PROVE Stands(u)'
    OBVIOUS
  <2>1. th'[u] = th[u] /\ Stands(u)
    BY <1>0, <1>1
  <2> QED
    BY <2>1 DEF Stands, Assembling, Discovers, Probing
<1>7. \A u \in Callers: Uses(u)'
  <2> SUFFICES ASSUME NEW u \in Callers \ {t} PROVE Uses(u)'
    OBVIOUS
  <2>1. th'[u] = th[u] /\ Uses(u)
    BY <1>0, <1>1
  <2> QED
    BY <2>1 DEF Uses, Assembling, Discovers, Probing, Overtaken
<1>8. Found'
  <2> SUFFICES ASSUME overlapped' = {} PROVE Equipped' /\ \A u \in Callers: Finds(u)'
    BY DEF Found
  <2>1. Equipped /\ \A u \in Callers: Finds(u)
    BY <1>0 DEF Found
  <2>2. Equipped'
    BY <2>1 DEF Equipped
  <2>3. ASSUME NEW u \in Callers \ {t} PROVE Finds(u)'
    <3>1. th'[u] = th[u] /\ Finds(u)
      BY <1>1, <2>1
    <3> QED
      BY <3>1 DEF Finds, Probing
  <2> QED
    BY <2>2, <2>3
<1> QED
  BY <1>2, <1>3, <1>4, <1>5, <1>6, <1>7, <1>8 DEF HostOwn

LEMMA HostStill ==
  ASSUME HostOwn, NEW t \in Callers, Rest(t), th' \in [Callers -> Doing],
         UNCHANGED <<kind, transport, built, backends, backend, maker, paths>>,
         UNCHANGED <<overlapped, lost>>,
         osInfo' \in BOOLEAN, helper' \in {"unprobed", "none", "some"}, G!DiscoveredWhole',
         \/ commands' = commands
         \/ commands' = TRUE /\ (overlapped = {} => transport # 0),
         \/ holder' = 0
         \/ holder' = t /\ Holding(t)'
         \/ holder' = holder /\ holder # t,
         th'[t].tr \in 0 .. built, th'[t].of \in 0 .. built, th'[t].be \in 0 .. Len(backends),
         Stands(t)', Uses(t)', overlapped = {} => Finds(t)'
  PROVE  HostOwn'
<1>1. /\ maker' \in 0 .. Len(backends) /\ paths' \subseteq 1 .. Len(backends)
      /\ UNCHANGED <<kind, transport, built, backends, backend, overlapped, lost>>
      /\ overlapped = {} /\ maker # 0 => maker' # 0
  BY DEF HostOwn, HostTyped
<1> QED
  BY <1>1, HostMoves

LEMMA ATransport ==
  ASSUME GuestBounds, NEW i \in G!AllTransports
  PROVE  i \in Nat /\ i # 0
BY DEF GuestBounds, G!AllTransports

(* So is every open connection within reach, or was overtaken.             *)
LEMMA OpenStill ==
  ASSUME OpenOwn, WireTyped, GuestBounds, NEW t \in Callers, Rest(t),
         UNCHANGED <<conn, opened, torn>>, th[t].conn = 0,
         \A i \in Nat: Overtaken(i) => Overtaken(i)',
         \A i \in G!AllTransports:
             i = transport /\ i # transport' => G!Closing(i)' \/ Overtaken(i)',
         \/ th[t].op # "close" \/ th[t].tr = 0
         \/ th'[t].op = "close" /\ th'[t].tr = th[t].tr
         \/ torn = {} => conn[th[t].tr] = 0 \/ Overtaken(th[t].tr)
  PROVE  OpenOwn'
<1>0. \A u \in Callers \ {t}: th'[u] = th[u]
  BY DEF Rest
<1> SUFFICES ASSUME torn' = {}, NEW c \in opened'
             PROVE  G!Owned(c)' \/ \E i \in G!AllTransports: conn'[i] = c /\ Overtaken(i)'
  BY DEF OpenOwn
<1>1. torn = {} /\ c \in opened
  OBVIOUS
<1>2. G!Owned(c) \/ \E i \in G!AllTransports: conn[i] = c /\ Overtaken(i)
  BY <1>1 DEF OpenOwn
<1>3. c # 0
  BY <1>1 DEF WireTyped
<1>4. CASE G!Held(c)
  <2>1. PICK u \in Callers: th[u].conn = c
    BY <1>4 DEF G!Held
  <2>2. th'[u].conn = c
    BY <1>0, <1>3, <2>1
  <2> QED
    BY <2>2 DEF G!Owned, G!Held
<1>5. ASSUME NEW i \in G!AllTransports, conn[i] = c, Overtaken(i)
      PROVE  Overtaken(i)' /\ conn'[i] = c
  BY <1>5, ATransport
<1>6. ASSUME NEW i \in G!AllTransports, conn[i] = c, i = transport
      PROVE  conn'[i] = c /\ (i = transport' \/ G!Closing(i)' \/ Overtaken(i)')
  <2>1. CASE transport' = transport
    BY <1>6, <2>1
  <2>2. CASE transport' # transport
    <3>1. G!Closing(i)' \/ Overtaken(i)'
      BY <1>6, <2>2
    <3> QED
      BY <3>1, <1>6
  <2> QED
    BY <2>1, <2>2
<1>7. ASSUME NEW i \in G!AllTransports, conn[i] = c, G!Closing(i)
      PROVE  conn'[i] = c /\ (G!Closing(i)' \/ Overtaken(i)')
  <2>1. PICK u \in Callers: th[u].op = "close" /\ th[u].tr = i
    BY <1>7 DEF G!Closing
  <2>2. CASE u # t
    <3>1. th'[u].op = "close" /\ th'[u].tr = i
      BY <1>0, <2>1, <2>2
    <3> QED
      BY <3>1, <1>7 DEF G!Closing
  <2>3. CASE u = t
    <3>1. i # 0 /\ i \in Nat
      BY ATransport
    <3>2. \/ th'[t].op = "close" /\ th'[t].tr = i
          \/ Overtaken(i)
      BY <1>3, <1>7, <2>1, <2>3, <3>1
    <3> QED
      BY <3>1, <3>2, <1>7 DEF G!Closing
  <2> QED
    BY <2>2, <2>3
<1> QED
  BY <1>2, <1>4, <1>5, <1>6, <1>7 DEF G!Owned

(* A step of `t` that leaves the wire as it is keeps what is said of it,   *)
(* when a transport that is the host's no longer is being closed, or met   *)
(* another call.                                                           *)
LEMMA WireStill ==
  ASSUME WireOwn, NEW t \in Callers, Rest(t), th \in [Callers -> Doing],
         th' \in [Callers -> Doing], UNCHANGED <<kind, G!wire, torn>>, GuestBounds,
         th[t].at \notin {"bind", "bound", "drop domain", "hang up"}, th[t].conn = 0,
         th'[t].at \notin {"bind", "bound", "drop domain", "hang up"}, th'[t].conn = 0,
         \A i \in Nat: Overtaken(i) => Overtaken(i)',
         \A u \in Callers \ {t}:
            th[u].tr \in G!AllTransports /\ th[u].tr # transport => th[u].tr # transport',
         \A i \in G!AllTransports:
             i = transport /\ i # transport' => G!Closing(i)' \/ Overtaken(i)',
         \/ th[t].op # "close" \/ th[t].tr = 0
         \/ th'[t].op = "close" /\ th'[t].tr = th[t].tr
         \/ torn = {} => conn[th[t].tr] = 0 \/ Overtaken(th[t].tr),
         Shuts(t)'
  PROVE  WireOwn'
<1>0. /\ WireTyped /\ JoinOwn /\ Wired /\ OpenOwn
      /\ \A u \in Callers: th[u].conn \in 0 .. dialled /\ Joins(u) /\ Shuts(u)
  BY DEF WireOwn
<1>1. \A u \in Callers \ {t}: th'[u] = th[u]
  BY DEF Rest
<1>2. WireTyped' /\ Wired'
  BY <1>0 DEF WireTyped, Wired, G!wire
<1>3. JoinOwn'
  <2> SUFFICES ASSUME NEW i \in G!AllTransports, NEW u \in Callers, connLock'[i] = u
               PROVE  th'[u].at \in {"bind", "bound"} /\ th'[u].tr = i
    BY DEF JoinOwn
  <2>1. th[u].at \in {"bind", "bound"} /\ th[u].tr = i
    BY <1>0 DEF JoinOwn, G!wire
  <2> QED
    BY <1>1, <2>1
<1>4. \A u \in Callers: th'[u].conn \in 0 .. dialled' /\ Joins(u)'
  <2> SUFFICES ASSUME NEW u \in Callers PROVE th'[u].conn \in 0 .. dialled' /\ Joins(u)'
    OBVIOUS
  <2>1. CASE u = t
    BY <1>0, <2>1 DEF Joins, WireTyped, G!wire
  <2>2. CASE u # t
    <3>1. th'[u] = th[u] /\ Joins(u) /\ th[u].conn \in 0 .. dialled
      BY <1>0, <1>1, <2>2
    <3> QED
      BY <3>1 DEF Joins, G!wire
  <2> QED
    BY <2>1, <2>2
<1>5. \A u \in Callers: Shuts(u)'
  <2> SUFFICES ASSUME NEW u \in Callers \ {t} PROVE Shuts(u)'
    OBVIOUS
  <2>1. th'[u] = th[u] /\ Shuts(u) /\ th[u].tr \in Nat
    BY <1>0, <1>1 DEF Doing
  <2>2. CASE th[u].op = "close" /\ th[u].at \in Shutting
    <3>1. th'[u].tr # transport'
      BY <2>1, <2>2 DEF Shuts
    <3>2. Overtaken(th[u].tr) => Overtaken(th[u].tr)'
      BY <2>1
    <3>3. torn' = {} /\ th'[u].at # "drop" => (conn'[th[u].tr] = 0 \/ Overtaken(th[u].tr)')
      BY <2>1, <2>2, <3>2 DEF Shuts, G!wire
    <3> QED
      BY <2>1, <3>1, <3>3 DEF Shuts, Overtaken
  <2>3. CASE ~(th[u].op = "close" /\ th[u].at \in Shutting)
    BY <2>1, <2>3 DEF Shuts
  <2> QED
    BY <2>2, <2>3
<1>6. OpenOwn'
  BY <1>0, OpenStill DEF G!wire
<1> QED
  BY <1>2, <1>3, <1>4, <1>5, <1>6 DEF WireOwn

(* What a thread does to itself.                                           *)
LEMMA GoesOn ==
  ASSUME th \in [Callers -> Doing], NEW t \in Callers, NEW go \in CallPlaces, G!Goes(t, go)
  PROVE  /\ th' \in [Callers -> Doing] /\ Rest(t) /\ th'[t].at = go
         /\ th'[t].op = th[t].op /\ th'[t].then = th[t].then /\ th'[t].back = th[t].back
         /\ th'[t].tr = th[t].tr /\ th'[t].of = th[t].of /\ th'[t].be = th[t].be
         /\ th'[t].caps = th[t].caps /\ th'[t].conn = th[t].conn
BY DEF G!Goes, Rest, Doing

LEMMA Executes ==
  ASSUME th \in [Callers -> Doing], NEW t \in Callers, NEW i \in Nat,
         NEW b \in {"info", "commit", "ran", "probed", "used"}, G!Execute(t, i, b)
  PROVE  /\ th' \in [Callers -> Doing] /\ Rest(t) /\ th'[t].at = "execute"
         /\ th'[t].op = th[t].op /\ th'[t].then = th[t].then /\ th'[t].back = b
         /\ th'[t].tr = i /\ th'[t].of = th[t].of /\ th'[t].be = th[t].be
         /\ th'[t].caps = th[t].caps /\ th'[t].conn = th[t].conn
<1>1. th' = [th EXCEPT ![t] = [th[t] EXCEPT !.tr = i, !.at = "execute", !.back = b]]
  BY DEF G!Execute, Doing
<1>2. "execute" \in CallPlaces /\ th[t] \in Doing
  BY DEF CallPlaces, Requesting, Asking
<1>3. [th[t] EXCEPT !.tr = i, !.at = "execute", !.back = b] \in Doing
  BY <1>2 DEF Doing
<1> QED
  BY <1>1, <1>2, <1>3 DEF Rest, Doing

LEMMA IdleTyped == [G!Idle EXCEPT !.at = "idle"] = G!Idle /\ G!Idle \in Doing
BY DEF G!Idle, Doing, CallPlaces, Ended, Requesting, Asking, Shutting

LEMMA IsOver ==
  ASSUME th \in [Callers -> Doing], NEW t \in Callers, NEW how \in Ended, G!Ends(t, how)
  PROVE  /\ th' \in [Callers -> Doing] /\ Rest(t) /\ th'[t].at = how
         /\ th'[t].op = "none" /\ th'[t].then = "none" /\ th'[t].back = "none"
         /\ th'[t].tr = 0 /\ th'[t].of = 0 /\ th'[t].be = 0 /\ th'[t].conn = 0
BY DEF G!Ends, G!Idle, Rest, Doing, CallPlaces, Ended

LEMMA OverOwn ==
  ASSUME NEW t \in Callers, th'[t].at \in Ended, th'[t].op = "none", th'[t].conn = 0
  PROVE  /\ Stands(t)' /\ Uses(t)'
         /\ th'[t].at \notin {"refused", "crashed"} => Finds(t)'
BY DEF Stands, Uses, Finds, Ended, Assembling, Discovers, Probing, Requesting, Asking, Shutting

OnWire == {"bind", "bound", "drop domain", "hang up"}

(* A step of a call that only moves it on.                                 *)
LEMMA CallKeeps ==
  ASSUME GuestInv, NEW t \in Callers, Rest(t), th' \in [Callers -> Doing],
         UNCHANGED <<kind, transport, built, backends, backend, maker, paths>>,
         UNCHANGED <<G!wire, overlapped, lost, torn>>,
         osInfo' \in BOOLEAN, helper' \in {"unprobed", "none", "some"}, G!DiscoveredWhole',
         \/ commands' = commands
         \/ commands' = TRUE /\ (overlapped = {} => transport # 0),
         \/ holder' = 0
         \/ holder' = t /\ Holding(t)'
         \/ holder' = holder /\ holder # t,
         th'[t].tr \in 0 .. built, th'[t].of \in 0 .. built, th'[t].be \in 0 .. Len(backends),
         Stands(t)', Uses(t)', overlapped = {} => Finds(t)',
         th[t].at \notin OnWire, th'[t].at \notin OnWire,
         th[t].op # "close" \/ th[t].at = "dropped",
         th'[t].op # "close" \/ th'[t].at \notin Shutting
  PROVE  GuestInv'
<1>0. /\ HostOwn /\ WireOwn /\ GuestBounds /\ th \in [Callers -> Doing]
      /\ Stands(t) /\ Shuts(t)
  BY DEF GuestInv, HostOwn, WireOwn, HostTyped, ThreadsTyped
<1>1. HostOwn'
  BY <1>0, HostStill
<1>2. th[t].conn = 0 /\ th'[t].conn = 0
  BY <1>0 DEF Stands, OnWire
<1>3. \/ th[t].op # "close" \/ th[t].tr = 0
      \/ torn = {} => conn[th[t].tr] = 0 \/ Overtaken(th[t].tr)
  BY <1>0 DEF Shuts, Shutting
<1>4. \A i \in Nat: Overtaken(i) => Overtaken(i)'
  BY DEF Overtaken
<1>5. Shuts(t)'
  BY DEF Shuts
<1>6. UNCHANGED <<kind, G!wire, torn>> /\ transport' = transport
  OBVIOUS
<1>7. /\ th[t].at \notin {"bind", "bound", "drop domain", "hang up"}
      /\ th'[t].at \notin {"bind", "bound", "drop domain", "hang up"}
  BY DEF OnWire
<1>8. WireOwn'
  BY <1>0, <1>2, <1>3, <1>4, <1>5, <1>6, <1>7, WireStill
<1> QED
  BY <1>1, <1>8 DEF GuestInv

LEMMA Knows ==
  ASSUME GuestInv, NEW t \in Callers
  PROVE  /\ HostTyped /\ GuestBounds /\ th \in [Callers -> Doing] /\ th[t] \in Doing
         /\ th[t].tr \in 0 .. built /\ th[t].of \in 0 .. built /\ th[t].be \in 0 .. Len(backends)
         /\ Stands(t) /\ Uses(t) /\ G!DiscoveredWhole
         /\ overlapped = {} => Equipped /\ Finds(t)
         /\ ~Holding(t) => holder # t
<1>1. /\ HostTyped /\ ThreadsTyped /\ G!DiscoveredWhole /\ Found /\ LockOwn
      /\ \A u \in Callers: Stands(u) /\ Uses(u)
  BY DEF GuestInv, HostOwn
<1>2. GuestBounds
  BY <1>1 DEF HostTyped
<1>3. th \in [Callers -> Doing] /\ th[t] \in Doing
  BY <1>1 DEF ThreadsTyped
<1>4. th[t].tr \in 0 .. built /\ th[t].of \in 0 .. built /\ th[t].be \in 0 .. Len(backends)
  BY <1>1 DEF ThreadsTyped
<1>5. overlapped = {} => Equipped /\ Finds(t)
  BY <1>1 DEF Found
<1>6. ~Holding(t) => holder # t
  BY <1>1 DEF LockOwn
<1> QED
  BY <1>1, <1>2, <1>3, <1>4, <1>5, <1>6

(* A call that goes on to a place, taking nothing with it.                 *)
LEMMA GoesKeeps ==
  ASSUME GuestInv, NEW t \in Callers, NEW go \in CallPlaces, G!Goes(t, go),
         UNCHANGED <<kind, transport, built, commands, osInfo, backends, backend, maker, paths>>,
         UNCHANGED <<G!wire, overlapped, lost, torn>>,
         helper' \in {"unprobed", "none", "some"},
         \/ holder' = 0
         \/ holder' = t /\ Holding(t)'
         \/ holder' = holder /\ holder # t,
         Stands(t)', Uses(t)', overlapped = {} => Finds(t)',
         th[t].at \notin OnWire, go \notin OnWire, th[t].op # "close"
  PROVE  GuestInv'
<1>0. /\ HostTyped /\ th \in [Callers -> Doing] /\ G!DiscoveredWhole
      /\ th[t].tr \in 0 .. built /\ th[t].of \in 0 .. built /\ th[t].be \in 0 .. Len(backends)
  BY Knows
<1>1. /\ th' \in [Callers -> Doing] /\ Rest(t) /\ th'[t].at = go /\ th'[t].op = th[t].op
      /\ th'[t].tr = th[t].tr /\ th'[t].of = th[t].of /\ th'[t].be = th[t].be
  BY <1>0, GoesOn
<1>2. osInfo' \in BOOLEAN /\ G!DiscoveredWhole'
  BY <1>0 DEF HostTyped, G!DiscoveredWhole
<1>3. /\ th'[t].tr \in 0 .. built /\ th'[t].of \in 0 .. built /\ th'[t].be \in 0 .. Len(backends)
      /\ th'[t].at \notin OnWire /\ th'[t].op # "close"
  BY <1>0, <1>1
<1> QED
  BY <1>1, <1>2, <1>3, CallKeeps

(* A call that is over.                                                    *)
LEMMA EndsKeeps ==
  ASSUME GuestInv, NEW t \in Callers, NEW how \in Ended, G!Ends(t, how),
         UNCHANGED <<kind, transport, built, commands, osInfo, helper, backends, backend>>,
         UNCHANGED <<maker, paths, G!wire, overlapped, lost, torn>>,
         holder' = G!Unlocked(t) \/ (UNCHANGED holder /\ ~Holding(t)),
         overlapped = {} => how \notin {"refused", "crashed"},
         th[t].at \notin OnWire, th[t].op # "close" \/ th[t].at = "dropped"
  PROVE  GuestInv'
<1>0. /\ HostTyped /\ GuestBounds /\ th \in [Callers -> Doing] /\ G!DiscoveredWhole
      /\ ~Holding(t) => holder # t
  BY Knows
<1>1. /\ th' \in [Callers -> Doing] /\ Rest(t) /\ th'[t].at = how /\ th'[t].op = "none"
      /\ th'[t].tr = 0 /\ th'[t].of = 0 /\ th'[t].be = 0 /\ th'[t].conn = 0
  BY <1>0, IsOver
<1>2. /\ Stands(t)' /\ Uses(t)'
      /\ overlapped = {} => Finds(t)'
  BY <1>1, OverOwn
<1>3. \/ holder' = 0
      \/ holder' = holder /\ holder # t
  BY <1>0 DEF G!Unlocked
<1>4. /\ osInfo' \in BOOLEAN /\ helper' \in {"unprobed", "none", "some"} /\ G!DiscoveredWhole'
      /\ 0 \in 0 .. built /\ 0 \in 0 .. Len(backends)
  BY <1>0 DEF HostTyped, G!DiscoveredWhole
<1>5. th'[t].at \notin OnWire
  BY <1>1 DEF OnWire, Ended
<1>6. /\ th'[t].tr \in 0 .. built /\ th'[t].of \in 0 .. built /\ th'[t].be \in 0 .. Len(backends)
  BY <1>1, <1>4
<1> QED
  BY <1>1, <1>2, <1>3, <1>4, <1>5, <1>6, CallKeeps

LEMMA BeginStep ==
  ASSUME GuestInv, NEW t \in Callers, NEW o \in G!Calls, G!Begin(t, o)
  PROVE  GuestInv'
<1>0. /\ HostTyped /\ GuestBounds /\ th \in [Callers -> Doing] /\ Stands(t) /\ G!DiscoveredWhole
      /\ ~Holding(t) => holder # t
  BY Knows
<1>1. th[t].at \in Ended /\ th[t].op # "close"
  BY <1>0 DEF G!Begin, G!Busy, Ended, Stands, Shutting
<1>2. holder # t
  BY <1>0, <1>1 DEF Holding, Discovers, Ended, Requesting, Asking, Shutting
<1>3. /\ UNCHANGED <<kind, holder, transport, built, commands, osInfo, helper, backends, backend>>
      /\ UNCHANGED <<maker, paths, G!wire, overlapped, lost, torn>>
  BY DEF G!Begin, G!host, G!history
<1>4. /\ th' \in [Callers -> Doing] /\ Rest(t)
      /\ \/ th'[t].at = "connect" /\ th'[t].op \in {"run", "path"} /\ th'[t].then = "capable"
         \/ th'[t].at = "use" /\ th'[t].op = "use" /\ th'[t].be \in paths /\ th'[t].then = "none"
         \/ th'[t].at = "close" /\ th'[t].op = "close" /\ th'[t].then = "none"
      /\ th'[t].tr = 0 /\ th'[t].of = 0 /\ th'[t].conn = 0 /\ th'[t].back = "none"
      /\ th'[t].be \in {0} \cup paths
  <2>1. PICK r \in Doing: /\ th' = [th EXCEPT ![t] = r]
                          /\ \/ r.at = "connect" /\ r.op \in {"run", "path"} /\ r.then = "capable"
                                /\ r.be = 0
                             \/ r.at = "use" /\ r.op = "use" /\ r.be \in paths /\ r.then = "none"
                             \/ r.at = "close" /\ r.op = "close" /\ r.then = "none" /\ r.be = 0
                          /\ r.tr = 0 /\ r.of = 0 /\ r.conn = 0 /\ r.back = "none"
    <3>0. G!Idle \in Doing /\ {"connect", "use", "close"} \subseteq CallPlaces
      BY IdleTyped DEF CallPlaces
    <3>1. CASE /\ o \in {"run", "path"}
               /\ th' = [th EXCEPT ![t] = [G!Idle EXCEPT !.op = o, !.at = "connect",
                                                       !.then = "capable"]]
      <4>1. [G!Idle EXCEPT !.op = o, !.at = "connect", !.then = "capable"] \in Doing
        BY <3>0 DEF Doing
      <4> QED
        BY <3>1, <4>1 DEF G!Idle
    <3>2. ASSUME NEW b \in paths, o = "use",
                 th' = [th EXCEPT ![t] = [G!Idle EXCEPT !.op = o, !.at = "use", !.be = b]]
          PROVE  \E r \in Doing: /\ th' = [th EXCEPT ![t] = r] /\ r.be \in paths /\ r.tr = 0
                                 /\ r.at = "use" /\ r.op = "use" /\ r.then = "none" /\ r.of = 0
                                 /\ r.conn = 0 /\ r.back = "none"
      <4>1. b \in Nat
        BY <1>0 DEF HostTyped
      <4>2. [G!Idle EXCEPT !.op = o, !.at = "use", !.be = b] \in Doing
        BY <3>0, <4>1 DEF Doing
      <4> QED
        BY <3>2, <4>2 DEF G!Idle
    <3>3. CASE /\ o = "close"
               /\ th' = [th EXCEPT ![t] = [G!Idle EXCEPT !.op = o, !.at = "close"]]
      <4>1. [G!Idle EXCEPT !.op = o, !.at = "close"] \in Doing
        BY <3>0 DEF Doing
      <4> QED
        BY <3>3, <4>1 DEF G!Idle
    <3> QED
      BY <3>1, <3>2, <3>3 DEF G!Begin
  <2> QED
    BY <1>0, <2>1 DEF Rest
<1>5. /\ th'[t].be \in 0 .. Len(backends)
      /\ th'[t].at = "use" => th'[t].be # 0
  <2>1. paths \subseteq 1 .. Len(backends) /\ Len(backends) \in Nat
    BY <1>0 DEF HostTyped
  <2>2. th'[t].be = 0 \/ th'[t].be \in 1 .. Len(backends)
    BY <1>4, <2>1
  <2>3. th'[t].at = "use" => th'[t].be \in 1 .. Len(backends)
    BY <1>4, <2>1
  <2> QED
    BY <2>1, <2>2, <2>3
<1>6. Stands(t)' /\ Uses(t)'
  BY <1>4, <1>5 DEF Stands, Uses, Assembling, Discovers, Probing, Discovering, Requesting, Asking,
                    Shutting
<1>7. Finds(t)'
  BY <1>4 DEF Finds, Probing, Requesting, Asking, Shutting
<1>8. /\ osInfo' \in BOOLEAN /\ helper' \in {"unprobed", "none", "some"} /\ G!DiscoveredWhole'
      /\ 0 \in 0 .. built
  BY <1>0, <1>3 DEF HostTyped, G!DiscoveredWhole
<1>9. /\ th'[t].tr \in 0 .. built /\ th'[t].of \in 0 .. built /\ th'[t].be \in 0 .. Len(backends)
      /\ th[t].at \notin OnWire /\ th'[t].at \notin OnWire /\ th'[t].at \notin Shutting
  BY <1>1, <1>4, <1>5, <1>8 DEF OnWire, Ended, Shutting
<1> QED
  BY <1>1, <1>2, <1>3, <1>4, <1>6, <1>7, <1>8, <1>9, CallKeeps

LEMMA ConnectStep ==
  ASSUME GuestInv, NEW t \in Callers, G!Connect(t)
  PROVE  GuestInv'
<1>0. /\ HostTyped /\ th \in [Callers -> Doing] /\ th[t] \in Doing /\ Stands(t) /\ Uses(t)
      /\ ~Holding(t) => holder # t
  BY Knows
<1>1. th[t].at = "connect" /\ th[t].op # "close" /\ th[t].then \in {"capable", "commands"}
  BY <1>0 DEF G!Connect, G!At, Stands, Shutting
<1>2. th[t].at \notin OnWire /\ holder # t
  BY <1>0, <1>1 DEF OnWire, Holding, Discovers, Requesting, Asking, Shutting
<1>3. /\ UNCHANGED <<kind, transport, built, commands, osInfo, backends, backend, maker, paths>>
      /\ UNCHANGED <<G!wire, overlapped, lost, torn>> /\ helper' \in {"unprobed", "none", "some"}
  BY <1>0 DEF G!Connect, G!history, HostTyped
<1>4. CASE commands /\ G!Goes(t, th[t].then) /\ UNCHANGED holder
  <2>1. th[t].then \in CallPlaces /\ th[t].then \notin OnWire
    BY <1>1 DEF CallPlaces, OnWire
  <2>2. /\ th'[t].at = th[t].then /\ th'[t].op = th[t].op /\ th'[t].then = th[t].then
        /\ th'[t].of = th[t].of /\ th'[t].conn = th[t].conn
    BY <1>0, <2>1, <1>4, GoesOn
  <2>3. Stands(t)' /\ Uses(t)'
    BY <1>0, <1>1, <1>3, <2>2
       DEF Stands, Uses, Assembling, Discovers, Probing, Requesting, Asking, Shutting
  <2>4. Finds(t)'
    BY <1>1, <1>3, <1>4, <2>2 DEF Finds, Probing, Requesting, Asking, Shutting
  <2> QED
    BY <1>1, <1>2, <1>3, <1>4, <2>1, <2>3, <2>4, GoesKeeps
<1>5. CASE holder' = t /\ G!Goes(t, "obtain")
  <2>1. "obtain" \in CallPlaces /\ "obtain" \notin OnWire
    BY DEF CallPlaces, OnWire
  <2>2. /\ th'[t].at = "obtain" /\ th'[t].op = th[t].op /\ th'[t].then = th[t].then
        /\ th'[t].of = th[t].of /\ th'[t].conn = th[t].conn
    BY <1>0, <2>1, <1>5, GoesOn
  <2>3. Stands(t)' /\ Uses(t)' /\ Holding(t)'
    BY <1>0, <1>1, <1>3, <2>2
       DEF Stands, Uses, Assembling, Discovers, Probing, Requesting, Asking, Shutting, Holding
  <2>4. Finds(t)'
    BY <1>1, <1>3, <2>2 DEF Finds, Probing, Requesting, Asking, Shutting
  <2> QED
    BY <1>1, <1>2, <1>3, <1>5, <2>1, <2>3, <2>4, GoesKeeps
<1> QED
  BY <1>4, <1>5 DEF G!Connect, G!Discovered

LEMMA CapableStep ==
  ASSUME GuestInv, NEW t \in Callers, G!Capable(t)
  PROVE  GuestInv'
<1>0. /\ HostTyped /\ th \in [Callers -> Doing] /\ Stands(t)
      /\ overlapped = {} => Equipped /\ Finds(t)
      /\ ~Holding(t) => holder # t
  BY Knows
<1>1. th[t].at = "capable" /\ th[t].op # "close" /\ th[t].conn = 0
  BY <1>0 DEF G!Capable, G!At, Stands, Shutting
<1>2. th[t].at \notin OnWire /\ ~Holding(t)
  BY <1>1 DEF OnWire, Holding, Discovers, Requesting, Asking, Shutting
<1>3. /\ UNCHANGED <<kind, holder, transport, built, commands, osInfo, helper, backends, backend>>
      /\ UNCHANGED <<maker, paths, G!wire, overlapped, lost, torn>>
  BY DEF G!Capable, G!host, G!history
<1>4. CASE ~commands /\ G!Ends(t, "refused")
  <2>1. overlapped # {}
    BY <1>0, <1>1, <1>4 DEF Finds
  <2>2. "refused" \in Ended
    BY DEF Ended
  <2> QED
    BY <1>1, <1>2, <1>3, <1>4, <2>1, <2>2, EndsKeeps
<1>5. ASSUME NEW go \in {"command", "backend"}, G!Goes(t, go) PROVE GuestInv'
  <2>1. go \in CallPlaces /\ go \notin OnWire
    BY DEF CallPlaces, OnWire
  <2>2. th'[t].at = go /\ th'[t].op = th[t].op /\ th'[t].conn = 0
    BY <1>0, <1>1, <1>5, <2>1, GoesOn
  <2>3. Stands(t)' /\ Uses(t)' /\ Finds(t)'
    BY <1>1, <2>2
       DEF Stands, Uses, Assembling, Discovers, Probing, Requesting, Asking, Shutting, Finds
  <2>4. helper' \in {"unprobed", "none", "some"} /\ holder # t
    BY <1>0, <1>2, <1>3 DEF HostTyped
  <2> QED
    BY <1>1, <1>2, <1>3, <1>5, <2>1, <2>3, <2>4, GoesKeeps
<1> QED
  BY <1>4, <1>5 DEF G!Capable

LEMMA BackendStep ==
  ASSUME GuestInv, NEW t \in Callers, G!Backend(t)
  PROVE  GuestInv'
<1>0. /\ HostTyped /\ th \in [Callers -> Doing] /\ Stands(t)
      /\ ~Holding(t) => holder # t
  BY Knows
<1>1. th[t].at = "backend" /\ th[t].op # "close" /\ th[t].conn = 0
  BY <1>0 DEF G!Backend, G!At, Stands, Shutting
<1>2. th[t].at \notin OnWire /\ holder # t
  BY <1>0, <1>1 DEF OnWire, Holding, Discovers, Requesting, Asking, Shutting
<1>3. /\ UNCHANGED <<kind, holder, transport, built, commands, osInfo, helper, backends, backend>>
      /\ UNCHANGED <<maker, paths, G!wire, overlapped, lost, torn>>
  BY DEF G!Backend, G!host, G!history
<1>4. PICK go \in {"take", "transport"}: G!Goes(t, go) /\ (go = "take" => backend # 0)
  BY DEF G!Backend
<1>5. go \in CallPlaces /\ go \notin OnWire
  BY DEF CallPlaces, OnWire
<1>6. th'[t].at = go /\ th'[t].op = th[t].op /\ th'[t].conn = 0
  BY <1>0, <1>1, <1>4, <1>5, GoesOn
<1>7. Stands(t)' /\ Uses(t)' /\ Finds(t)'
  BY <1>1, <1>3, <1>4, <1>6
     DEF Stands, Uses, Assembling, Discovers, Probing, Requesting, Asking, Shutting, Finds
<1>8. helper' \in {"unprobed", "none", "some"}
  BY <1>0, <1>3 DEF HostTyped
<1> QED
  BY <1>1, <1>2, <1>3, <1>4, <1>5, <1>7, <1>8, GoesKeeps

LEMMA CommandsStep ==
  ASSUME GuestInv, NEW t \in Callers, G!Commands(t)
  PROVE  GuestInv'
<1>0. /\ HostTyped /\ th \in [Callers -> Doing] /\ th[t] \in Doing
      /\ Stands(t) /\ Uses(t) /\ G!DiscoveredWhole
      /\ th[t].tr \in 0 .. built /\ th[t].of \in 0 .. built /\ th[t].be \in 0 .. Len(backends)
      /\ overlapped = {} => Equipped /\ Finds(t)
      /\ ~Holding(t) => holder # t
  BY Knows
<1>1. th[t].at = "commands" /\ th[t].op # "close" /\ th[t].conn = 0
  BY <1>0 DEF G!Commands, G!At, Stands, Shutting
<1>2. th[t].at \notin OnWire /\ holder # t
  BY <1>0, <1>1 DEF OnWire, Holding, Discovers, Requesting, Asking, Shutting
<1>3. /\ UNCHANGED <<kind, holder, transport, built, commands, osInfo, helper, backends, backend>>
      /\ UNCHANGED <<maker, paths, G!wire, overlapped, lost, torn>>
  BY DEF G!Commands, G!host, G!history
<1>4. /\ commands \in BOOLEAN /\ osInfo' \in BOOLEAN /\ helper' \in {"unprobed", "none", "some"}
      /\ G!DiscoveredWhole'
  BY <1>0, <1>3 DEF HostTyped, G!DiscoveredWhole
<1>5. th' = [th EXCEPT ![t] = [th[t] EXCEPT !.caps = commands, !.at = "helper"]]
  BY <1>0 DEF G!Commands
<1>6. [th[t] EXCEPT !.caps = commands, !.at = "helper"] \in Doing
  <2>1. {"helper", "store", "probing", "provider"} \subseteq CallPlaces
    BY DEF CallPlaces
  <2> QED
    BY <1>0, <1>4, <2>1 DEF Doing
<1>7. /\ th' \in [Callers -> Doing] /\ Rest(t) /\ th'[t].at = "helper" /\ th'[t].op = th[t].op
      /\ th'[t].tr = th[t].tr /\ th'[t].of = th[t].of /\ th'[t].be = th[t].be
      /\ th'[t].caps = commands /\ th'[t].conn = 0
  BY <1>0, <1>1, <1>5, <1>6 DEF Rest, Doing
<1>8. Stands(t)' /\ Uses(t)'
  BY <1>0, <1>1, <1>3, <1>7
     DEF Stands, Uses, Assembling, Discovers, Probing, Requesting, Asking, Shutting
<1>9. overlapped = {} => Finds(t)'
  BY <1>0, <1>1, <1>3, <1>7 DEF Finds, Probing, Requesting, Asking, Shutting
<1>10. /\ th'[t].tr \in 0 .. built /\ th'[t].of \in 0 .. built /\ th'[t].be \in 0 .. Len(backends)
       /\ th'[t].at \notin OnWire /\ th'[t].at \notin Shutting
  BY <1>0, <1>7 DEF OnWire, Shutting
<1> QED
  BY <1>1, <1>2, <1>3, <1>4, <1>7, <1>8, <1>9, <1>10, CallKeeps

LEMMA HelperStep ==
  ASSUME GuestInv, NEW t \in Callers, G!Helper(t)
  PROVE  GuestInv'
<1>0. /\ HostTyped /\ th \in [Callers -> Doing] /\ th[t] \in Doing
      /\ Stands(t) /\ Uses(t) /\ G!DiscoveredWhole
      /\ th[t].tr \in 0 .. built /\ th[t].of \in 0 .. built /\ th[t].be \in 0 .. Len(backends)
      /\ overlapped = {} => Equipped /\ Finds(t)
      /\ ~Holding(t) => holder # t
  BY Knows
<1>1. th[t].at = "helper" /\ th[t].op # "close" /\ th[t].conn = 0
  BY <1>0 DEF G!Helper, G!At, Stands, Shutting
<1>2. th[t].at \notin OnWire /\ holder # t
  BY <1>0, <1>1 DEF OnWire, Holding, Discovers, Requesting, Asking, Shutting
<1>3. /\ UNCHANGED <<kind, holder, transport, built, commands, osInfo, backends, backend>>
      /\ UNCHANGED <<maker, paths, G!wire, overlapped, lost, torn>>
  BY DEF G!Helper, G!history
<1>4. osInfo' \in BOOLEAN /\ helper' \in {"unprobed", "none", "some"} /\ G!DiscoveredWhole'
  BY <1>0, <1>3 DEF HostTyped, G!DiscoveredWhole, G!Helper
<1>5. PICK h \in BOOLEAN, go \in {"store", "probing"}:
         th' = [th EXCEPT ![t] = [th[t] EXCEPT !.helps = h, !.at = go]]
  <2>1. CASE th' = [th EXCEPT ![t].helps = (helper = "some"), ![t].at = "store"]
    <3>1. th' = [th EXCEPT ![t] = [th[t] EXCEPT !.helps = (helper = "some"), !.at = "store"]]
      BY <1>0, <2>1
    <3> QED
      BY <3>1
  <2>2. ASSUME NEW go \in {"store", "probing"},
               th' = [th EXCEPT ![t].helps = FALSE, ![t].at = go]
        PROVE  \E h \in BOOLEAN: th' = [th EXCEPT ![t] = [th[t] EXCEPT !.helps = h, !.at = go]]
    <3>1. th' = [th EXCEPT ![t] = [th[t] EXCEPT !.helps = FALSE, !.at = go]]
      BY <1>0, <2>2
    <3> QED
      BY <3>1
  <2> QED
    BY <2>1, <2>2 DEF G!Helper
<1>6. [th[t] EXCEPT !.helps = h, !.at = go] \in Doing
  <2>1. {"helper", "store", "probing", "provider"} \subseteq CallPlaces
    BY DEF CallPlaces
  <2> QED
    BY <1>0, <2>1 DEF Doing
<1>7. /\ th' \in [Callers -> Doing] /\ Rest(t) /\ th'[t].at = go /\ th'[t].op = th[t].op
      /\ th'[t].tr = th[t].tr /\ th'[t].of = th[t].of /\ th'[t].be = th[t].be
      /\ th'[t].caps = th[t].caps /\ th'[t].conn = 0
  BY <1>0, <1>1, <1>5, <1>6 DEF Rest, Doing
<1>8. Stands(t)' /\ Uses(t)'
  BY <1>0, <1>1, <1>3, <1>7
     DEF Stands, Uses, Assembling, Discovers, Probing, Requesting, Asking, Shutting
<1>9. overlapped = {} => Finds(t)'
  BY <1>0, <1>1, <1>3, <1>7 DEF Finds, Probing, Requesting, Asking, Shutting
<1>10. /\ th'[t].tr \in 0 .. built /\ th'[t].of \in 0 .. built /\ th'[t].be \in 0 .. Len(backends)
       /\ th'[t].at \notin OnWire /\ th'[t].at \notin Shutting
  BY <1>0, <1>7 DEF OnWire, Shutting
<1> QED
  BY <1>1, <1>2, <1>3, <1>4, <1>7, <1>8, <1>9, <1>10, CallKeeps

LEMMA TakeStep ==
  ASSUME GuestInv, NEW t \in Callers, G!Take(t)
  PROVE  GuestInv'
<1>0. /\ HostTyped /\ th \in [Callers -> Doing] /\ th[t] \in Doing /\ Stands(t) /\ G!DiscoveredWhole
      /\ th[t].tr \in 0 .. built /\ th[t].of \in 0 .. built
      /\ overlapped = {} => Equipped /\ Finds(t)
      /\ ~Holding(t) => holder # t
  BY Knows
<1>1. th[t].at = "take" /\ th[t].op # "close" /\ th[t].conn = 0
  BY <1>0 DEF G!Take, G!At, Stands, Shutting
<1>2. th[t].at \notin OnWire /\ holder # t
  BY <1>0, <1>1 DEF OnWire, Holding, Discovers, Requesting, Asking, Shutting
<1>3. /\ UNCHANGED <<kind, holder, transport, built, commands, osInfo, helper, backends, backend>>
      /\ UNCHANGED <<maker, paths, G!wire, overlapped, lost, torn>>
  BY DEF G!Take, G!host, G!history
<1>4. /\ osInfo' \in BOOLEAN /\ helper' \in {"unprobed", "none", "some"} /\ G!DiscoveredWhole'
      /\ backend \in 0 .. Len(backends) /\ backend \in Nat
  BY <1>0, <1>3 DEF HostTyped, G!DiscoveredWhole
<1>5. th' = [th EXCEPT ![t] = [th[t] EXCEPT !.be = backend, !.at = "provider"]]
  BY <1>0 DEF G!Take
<1>6. [th[t] EXCEPT !.be = backend, !.at = "provider"] \in Doing
  <2>1. {"helper", "store", "probing", "provider"} \subseteq CallPlaces
    BY DEF CallPlaces
  <2> QED
    BY <1>0, <1>4, <2>1 DEF Doing
<1>7. /\ th' \in [Callers -> Doing] /\ Rest(t) /\ th'[t].at = "provider" /\ th'[t].op = th[t].op
      /\ th'[t].tr = th[t].tr /\ th'[t].of = th[t].of /\ th'[t].be = backend
      /\ th'[t].conn = 0
  BY <1>0, <1>1, <1>5, <1>6 DEF Rest, Doing
<1>8. Stands(t)' /\ Uses(t)'
  BY <1>1, <1>7 DEF Stands, Uses, Assembling, Discovers, Probing, Requesting, Asking, Shutting
<1>9. overlapped = {} => Finds(t)'
  BY <1>0, <1>1, <1>3, <1>7 DEF Finds, Probing, Requesting, Asking, Shutting
<1>10. /\ th'[t].tr \in 0 .. built /\ th'[t].of \in 0 .. built /\ th'[t].be \in 0 .. Len(backends)
       /\ th'[t].at \notin OnWire /\ th'[t].at \notin Shutting
  BY <1>0, <1>4, <1>7 DEF OnWire, Shutting
<1> QED
  BY <1>1, <1>2, <1>3, <1>4, <1>7, <1>8, <1>9, <1>10, CallKeeps

LEMMA ProbeStep ==
  ASSUME GuestInv, NEW t \in Callers, G!Probe(t)
  PROVE  GuestInv'
<1>0. /\ HostTyped /\ th \in [Callers -> Doing] /\ Stands(t)
      /\ overlapped = {} => Equipped /\ Finds(t)
      /\ ~Holding(t) => holder # t
  BY Knows
<1>1. th[t].at = "probe" /\ th[t].op # "close" /\ th[t].conn = 0
  BY <1>0 DEF G!Probe, G!At, Stands, Shutting
<1>2. th[t].at \notin OnWire /\ ~Holding(t)
  BY <1>1 DEF OnWire, Holding, Discovers, Requesting, Asking, Shutting
<1>3. /\ UNCHANGED <<kind, holder, transport, built, commands, osInfo, helper, backends, backend>>
      /\ UNCHANGED <<maker, paths, G!wire, overlapped, lost, torn>>
  BY DEF G!Probe, G!host, G!history
<1>4. overlapped = {} => maker \in 1 .. Len(backends) /\ backends[maker].caps
  BY <1>0, <1>1 DEF Finds, Equipped, HostTyped
<1>5. ASSUME NEW how \in {"crashed", "refused"}, G!Ends(t, how),
             maker = 0 \/ ~backends[maker].caps
      PROVE  GuestInv'
  <2>1. overlapped # {} /\ how \in Ended
    BY <1>4, <1>5 DEF Ended
  <2> QED
    BY <1>1, <1>2, <1>3, <1>5, <2>1, EndsKeeps
<1>6. CASE G!Goes(t, "make")
  <2>1. "make" \in CallPlaces /\ "make" \notin OnWire
    BY DEF CallPlaces, OnWire
  <2>2. th'[t].at = "make" /\ th'[t].op = th[t].op /\ th'[t].conn = 0
    BY <1>0, <1>1, <1>6, <2>1, GoesOn
  <2>3. Stands(t)' /\ Uses(t)'
    BY <1>1, <2>2 DEF Stands, Uses, Assembling, Discovers, Probing, Requesting, Asking, Shutting
  <2>4. overlapped = {} => Finds(t)'
    BY <1>0, <1>1, <1>3, <2>2 DEF Finds, Probing, Requesting, Asking, Shutting
  <2>5. helper' \in {"unprobed", "none", "some"} /\ holder # t
    BY <1>0, <1>2, <1>3 DEF HostTyped
  <2> QED
    BY <1>1, <1>2, <1>3, <1>6, <2>1, <2>3, <2>4, <2>5, GoesKeeps
<1> QED
  BY <1>5, <1>6 DEF G!Probe

(* How a request ends, for the call that made it.                          *)
Settled(t) == /\ th' \in [Callers -> Doing] /\ Rest(t)
              /\ th'[t].at \notin OnWire /\ th'[t].at \notin Shutting
              /\ th'[t].op # "close" /\ th'[t].conn = 0

(* The helper is probed for, and was or was not found.                     *)
LEMMA Probed ==
  ASSUME GuestInv, NEW t \in Callers, th[t].op # "close", th[t].at \notin OnWire,
         Probing(t) \/ th[t].at = "probing", NEW r, r \in Doing, th' = [th EXCEPT ![t] = r],
         r.at = "store", r.op = th[t].op, r.then = th[t].then, r.back = th[t].back,
         r.tr = th[t].tr, r.of = th[t].of, r.be = th[t].be, r.caps = th[t].caps, r.conn = 0,
         UNCHANGED <<kind, holder, transport, built, commands, osInfo, backends, backend>>,
         UNCHANGED <<maker, paths, overlapped, lost>>,
         helper' \in {"none", "some"}
  PROVE  HostOwn' /\ Settled(t)
<1>0. /\ HostTyped /\ th \in [Callers -> Doing] /\ Stands(t) /\ Uses(t) /\ G!DiscoveredWhole
      /\ th[t].tr \in 0 .. built /\ th[t].of \in 0 .. built /\ th[t].be \in 0 .. Len(backends)
      /\ overlapped = {} => Equipped /\ Finds(t)
      /\ ~Holding(t) => holder # t
  BY Knows
<1>1. /\ th' \in [Callers -> Doing] /\ Rest(t) /\ th'[t] = r
  BY <1>0 DEF Rest
<1>2. holder # t
  BY <1>0 DEF Holding, Discovers, Probing, Requesting, Asking, Shutting, Discovering
<1>3. Stands(t)' /\ Uses(t)'
  BY <1>0, <1>1 DEF Stands, Uses, Assembling, Discovers, Probing, Requesting, Asking, Shutting
<1>4. overlapped = {} => Finds(t)'
  BY <1>0, <1>1 DEF Finds, Probing, Requesting, Asking, Shutting
<1>5. osInfo' \in BOOLEAN /\ helper' \in {"unprobed", "none", "some"} /\ G!DiscoveredWhole'
  BY <1>0 DEF HostTyped, G!DiscoveredWhole
<1>6. /\ th'[t].tr \in 0 .. built /\ th'[t].of \in 0 .. built /\ th'[t].be \in 0 .. Len(backends)
      /\ UNCHANGED <<kind, transport, built, backends, backend, maker, paths>>
      /\ UNCHANGED <<overlapped, lost>> /\ commands' = commands /\ holder' = holder
  BY <1>0, <1>1
<1>7. HostOwn
  BY DEF GuestInv
<1>8. HostOwn'
  BY <1>1, <1>2, <1>3, <1>4, <1>5, <1>6, <1>7, HostStill
<1> QED
  BY <1>1, <1>8 DEF Settled, OnWire, Shutting

(* The call is over, and lets go of its lock.                              *)
LEMMA GivenUp ==
  ASSUME GuestInv, NEW t \in Callers, NEW how \in {"idle", "asserted"}, G!Ends(t, how),
         UNCHANGED <<kind, transport, built, commands, osInfo, helper, backends, backend>>,
         UNCHANGED <<maker, paths, overlapped, lost>>,
         holder' = G!Unlocked(t) \/ (UNCHANGED holder /\ ~Holding(t))
  PROVE  HostOwn' /\ Settled(t)
<1>0. /\ HostTyped /\ GuestBounds /\ th \in [Callers -> Doing] /\ G!DiscoveredWhole
      /\ ~Holding(t) => holder # t
  BY Knows
<1>1. how \in Ended
  BY DEF Ended
<1>2. /\ th' \in [Callers -> Doing] /\ Rest(t) /\ th'[t].at = how /\ th'[t].op = "none"
      /\ th'[t].tr = 0 /\ th'[t].of = 0 /\ th'[t].be = 0 /\ th'[t].conn = 0
  BY <1>0, <1>1, IsOver
<1>3. Stands(t)' /\ Uses(t)' /\ Finds(t)'
  BY <1>1, <1>2, OverOwn
<1>4. \/ holder' = 0
      \/ holder' = holder /\ holder # t
  BY <1>0 DEF G!Unlocked
<1>5. /\ osInfo' \in BOOLEAN /\ helper' \in {"unprobed", "none", "some"} /\ G!DiscoveredWhole'
      /\ 0 \in 0 .. built /\ 0 \in 0 .. Len(backends)
  BY <1>0 DEF HostTyped, G!DiscoveredWhole
<1>6. /\ th'[t].tr \in 0 .. built /\ th'[t].of \in 0 .. built /\ th'[t].be \in 0 .. Len(backends)
      /\ UNCHANGED <<kind, transport, built, backends, backend, maker, paths>>
      /\ UNCHANGED <<overlapped, lost>> /\ commands' = commands /\ HostOwn
  BY <1>2, <1>5 DEF GuestInv
<1>7. HostOwn'
  BY <1>2, <1>3, <1>4, <1>5, <1>6, HostStill
<1> QED
  BY <1>2, <1>7 DEF Settled, OnWire, Shutting

LEMMA RequestFails ==
  ASSUME GuestInv, NEW t \in Callers, NEW how \in {"idle", "asserted"}, G!Fails(t, how),
         th[t].op # "close", th[t].at \in Requesting, th[t].at \notin OnWire,
         UNCHANGED <<kind, transport, built, commands, osInfo, backends, backend>>,
         UNCHANGED <<maker, paths, overlapped, lost>>
  PROVE  HostOwn' /\ Settled(t)
<1>0. th \in [Callers -> Doing] /\ th[t] \in Doing
  BY Knows
<1>1. CASE th[t].back = "probed"
  <2> DEFINE r == [th[t] EXCEPT !.at = "store", !.helps = FALSE, !.conn = 0]
  <2>1. th' = [th EXCEPT ![t] = r] /\ UNCHANGED holder /\ helper' = "none"
    BY <1>0, <1>1 DEF G!Fails
  <2>2. "store" \in CallPlaces
    BY DEF CallPlaces
  <2>3. /\ r \in Doing /\ r.at = "store" /\ r.op = th[t].op /\ r.then = th[t].then
        /\ r.back = th[t].back /\ r.tr = th[t].tr /\ r.of = th[t].of /\ r.be = th[t].be
        /\ r.caps = th[t].caps /\ r.conn = 0
    BY <1>0, <2>2 DEF Doing
  <2>4. Probing(t)
    BY <1>1 DEF Probing
  <2> HIDE DEF r
  <2> QED
    BY <2>1, <2>3, <2>4, Probed
<1>2. CASE th[t].back # "probed"
  BY <1>2, GivenUp DEF G!Fails
<1> QED
  BY <1>1, <1>2

LEMMA RequestAnswered ==
  ASSUME GuestInv, NEW t \in Callers, G!Answered(t), th[t].op # "close",
         th[t].at \in Requesting, th[t].at \notin OnWire, UNCHANGED <<kind, overlapped, lost>>
  PROVE  /\ HostOwn' /\ Settled(t)
         /\ UNCHANGED <<transport, built, backends, backend, maker, paths>>
<1>0. /\ HostTyped /\ GuestBounds /\ th \in [Callers -> Doing] /\ th[t] \in Doing
      /\ th[t].tr \in 0 .. built /\ th[t].of \in 0 .. built /\ th[t].be \in 0 .. Len(backends)
      /\ Stands(t) /\ Uses(t) /\ G!DiscoveredWhole
      /\ overlapped = {} => Equipped /\ Finds(t)
      /\ ~Holding(t) => holder # t
  BY Knows
<1>1. /\ UNCHANGED <<kind, transport, built, backends, backend, maker, paths>>
      /\ UNCHANGED <<overlapped, lost>> /\ HostOwn
  BY DEF G!Answered, GuestInv
<1>2. th[t].conn = 0 /\ th[t].tr # 0 /\ th[t].back # "none"
  BY <1>0 DEF Stands, OnWire
<1>3. CASE th[t].back = "info"
  <2>1. G!Execute(t, th[t].tr, "commit") /\ UNCHANGED <<commands, osInfo, holder, helper>>
    BY <1>3 DEF G!Answered, G!Commits
  <2>2. /\ th' \in [Callers -> Doing] /\ Rest(t) /\ th'[t].at = "execute"
        /\ th'[t].op = th[t].op /\ th'[t].then = th[t].then /\ th'[t].back = "commit"
        /\ th'[t].tr = th[t].tr /\ th'[t].of = th[t].of /\ th'[t].be = th[t].be
        /\ th'[t].caps = th[t].caps /\ th'[t].conn = 0
    <3>1. th[t].tr \in Nat
      BY <1>0 DEF HostTyped
    <3> QED
      BY <1>0, <1>2, <2>1, <3>1, Executes
  <2>3. Stands(t)' /\ Uses(t)' /\ Holding(t)'
    BY <1>0, <1>1, <1>3, <2>2
       DEF Stands, Uses, Assembling, Discovers, Probing, Discovering, Requesting, Asking, Shutting,
           Holding
  <2>4. Finds(t)'
    BY <2>2 DEF Finds, Probing
  <2>5. osInfo' \in BOOLEAN /\ helper' \in {"unprobed", "none", "some"} /\ G!DiscoveredWhole'
    BY <1>0, <2>1 DEF HostTyped, G!DiscoveredWhole
  <2>6. /\ th'[t].tr \in 0 .. built /\ th'[t].of \in 0 .. built /\ th'[t].be \in 0 .. Len(backends)
        /\ commands' = commands /\ holder' = holder
    BY <1>0, <2>1, <2>2
  <2>7. HostOwn'
    BY <1>1, <2>2, <2>3, <2>4, <2>5, <2>6, HostStill
  <2> QED
    BY <1>1, <2>2, <2>7 DEF Settled, OnWire, Shutting
<1>4. CASE th[t].back = "commit"
  <2>1. /\ commands' = TRUE /\ osInfo' = TRUE /\ holder' = G!Unlocked(t) /\ G!Goes(t, th[t].then)
        /\ UNCHANGED helper
    BY <1>4 DEF G!Answered, G!Commits
  <2>2. th[t].then \in {"capable", "commands"}
    BY <1>0, <1>4 DEF Stands, Discovers, Discovering
  <2>3. /\ th' \in [Callers -> Doing] /\ Rest(t) /\ th'[t].at = th[t].then
        /\ th'[t].op = th[t].op /\ th'[t].then = th[t].then
        /\ th'[t].tr = th[t].tr /\ th'[t].of = th[t].of /\ th'[t].be = th[t].be
        /\ th'[t].conn = 0
    <3>1. th[t].then \in CallPlaces
      BY <2>2 DEF CallPlaces
    <3> QED
      BY <1>0, <1>2, <2>1, <3>1, GoesOn
  <2>4. Stands(t)' /\ Uses(t)'
    BY <1>0, <1>1, <1>4, <2>2, <2>3
       DEF Stands, Uses, Assembling, Discovers, Probing, Discovering, Requesting, Asking, Shutting
  <2>5. Finds(t)'
    BY <2>1, <2>2, <2>3 DEF Finds, Probing, Requesting, Asking, Shutting
  <2>6. overlapped = {} => transport # 0
    BY <1>0, <1>2, <1>4 DEF Uses
  <2>7. osInfo' \in BOOLEAN /\ helper' \in {"unprobed", "none", "some"} /\ G!DiscoveredWhole'
    BY <1>0, <2>1 DEF HostTyped, G!DiscoveredWhole
  <2>8. \/ holder' = 0
        \/ holder' = holder /\ holder # t
    BY <2>1 DEF G!Unlocked
  <2>9. th'[t].tr \in 0 .. built /\ th'[t].of \in 0 .. built /\ th'[t].be \in 0 .. Len(backends)
    BY <1>0, <2>3
  <2>10. HostOwn'
    BY <1>1, <2>1, <2>3, <2>4, <2>5, <2>6, <2>7, <2>8, <2>9, HostStill
  <2> QED
    BY <1>1, <2>2, <2>3, <2>10 DEF Settled, OnWire, Shutting
<1>5. CASE th[t].back = "probed"
  <2> DEFINE r == [th[t] EXCEPT !.at = "store", !.helps = GuestHelps]
  <2>1. /\ commands' = commands /\ helper' = (IF GuestHelps THEN "some" ELSE "none")
        /\ th' = [th EXCEPT ![t].at = "store", ![t].helps = GuestHelps]
        /\ UNCHANGED <<osInfo, holder>>
    BY <1>5 DEF G!Answered, G!Commits
  <2>2. th' = [th EXCEPT ![t] = r]
    BY <1>0, <2>1
  <2>3. "store" \in CallPlaces /\ GuestHelps \in BOOLEAN
    BY <1>0 DEF CallPlaces, GuestBounds
  <2>4. /\ r \in Doing /\ r.at = "store" /\ r.op = th[t].op /\ r.then = th[t].then
        /\ r.back = th[t].back /\ r.tr = th[t].tr /\ r.of = th[t].of /\ r.be = th[t].be
        /\ r.caps = th[t].caps /\ r.conn = 0
    BY <1>0, <1>2, <2>3 DEF Doing
  <2>5. Probing(t)
    BY <1>5 DEF Probing
  <2> HIDE DEF r
  <2>6. HostOwn' /\ Settled(t)
    BY <1>1, <2>1, <2>2, <2>4, <2>5, Probed
  <2> QED
    BY <1>1, <2>6
<1>6. CASE th[t].back \in {"ran", "used"}
  <2>1. G!Ends(t, "idle") /\ UNCHANGED <<commands, osInfo, holder, helper>>
    BY <1>6 DEF G!Answered, G!Commits
  <2>2. ~Holding(t)
    BY <1>6 DEF Holding, Discovers, Discovering, Requesting, Asking, Shutting
  <2>3. HostOwn' /\ Settled(t)
    BY <1>1, <2>1, <2>2, GivenUp
  <2> QED
    BY <1>1, <2>3
<1> QED
  BY <1>0, <1>2, <1>3, <1>4, <1>5, <1>6 DEF Doing

(* A call that did not touch the wire, when nothing was closed under it.   *)
LEMMA HostSettles ==
  ASSUME GuestInv, NEW t \in Callers, HostOwn', Settled(t), th[t].at \notin OnWire,
         th[t].op # "close" \/ th[t].at \in {"close", "dropped"}, UNCHANGED <<kind, G!wire, torn>>,
         \A i \in Nat: Overtaken(i) => Overtaken(i)',
         transport' = transport \/ transport = 0,
         \A u \in Callers \ {t}:
            th[u].tr \in G!AllTransports /\ th[u].tr # transport => th[u].tr # transport'
  PROVE  GuestInv'
<1>0. /\ WireOwn /\ GuestBounds /\ th \in [Callers -> Doing] /\ Stands(t) /\ Shuts(t)
  BY Knows DEF GuestInv, WireOwn
<1>1. /\ th' \in [Callers -> Doing] /\ Rest(t) /\ th'[t].conn = 0 /\ th'[t].at \notin OnWire
      /\ th'[t].op # "close"
  BY DEF Settled
<1>2. th[t].conn = 0
  BY <1>0 DEF Stands, OnWire
<1>3. \/ th[t].op # "close" \/ th[t].tr = 0
      \/ torn = {} => conn[th[t].tr] = 0 \/ Overtaken(th[t].tr)
  BY <1>0 DEF Shuts, Shutting, Stands
<1>4. Shuts(t)'
  BY <1>1 DEF Shuts
<1>5. \A i \in G!AllTransports: i = transport /\ i # transport' => G!Closing(i)' \/ Overtaken(i)'
  BY <1>0, ATransport
<1>6. /\ th[t].at \notin {"bind", "bound", "drop domain", "hang up"}
      /\ th'[t].at \notin {"bind", "bound", "drop domain", "hang up"}
  BY <1>1 DEF OnWire
<1>7. WireOwn'
  BY <1>0, <1>1, <1>2, <1>3, <1>4, <1>5, <1>6, WireStill
<1> QED
  BY <1>7 DEF GuestInv

LEMMA SettledKeeps ==
  ASSUME GuestInv, NEW t \in Callers, HostOwn', Settled(t), th[t].at \notin OnWire,
         th[t].op # "close" \/ th[t].at \in {"close", "dropped"},
         UNCHANGED <<kind, transport, backends, overlapped, lost, G!wire, torn>>
  PROVE  GuestInv'
<1>1. \A i \in Nat: Overtaken(i) => Overtaken(i)'
  BY DEF Overtaken
<1> QED
  BY <1>1, HostSettles

LEMMA UsePathStep ==
  ASSUME GuestInv, NEW t \in Callers, G!Use(t)
  PROVE  GuestInv'
<1>0. /\ HostTyped /\ th \in [Callers -> Doing] /\ Stands(t) /\ G!DiscoveredWhole
      /\ th[t].of \in 0 .. built /\ th[t].be \in 0 .. Len(backends)
      /\ ~Holding(t) => holder # t
  BY Knows
<1>1. th[t].at = "use" /\ th[t].op # "close" /\ th[t].conn = 0 /\ th[t].be # 0
  BY <1>0 DEF G!Use, G!At, Stands, Shutting
<1>2. th[t].at \notin OnWire /\ ~Holding(t) /\ holder # t
  BY <1>0, <1>1 DEF OnWire, Holding, Discovers, Requesting, Asking, Shutting
<1>3. /\ UNCHANGED <<kind, holder, transport, built, commands, osInfo, helper, backends, backend>>
      /\ UNCHANGED <<maker, paths, G!wire, overlapped, lost, torn>>
  BY DEF G!Use, G!host, G!history
<1>4. CASE G!Ends(t, "idle")
  <2>1. "idle" \in Ended
    BY DEF Ended
  <2> QED
    BY <1>1, <1>2, <1>3, <1>4, <2>1, EndsKeeps
<1>5. CASE ~backends[th[t].be].closed /\ G!Execute(t, backends[th[t].be].tr, "used")
  <2>1. th[t].be \in 1 .. Len(backends)
    BY <1>0, <1>1 DEF HostTyped
  <2>2. BackendsOwn
    BY DEF GuestInv, HostOwn
  <2>3. PICK i \in 1 .. built: i = backends[th[t].be].tr
    BY <1>5, <2>1, <2>2 DEF BackendsOwn
  <2>4. i = transport \/ Overtaken(i)
    <3>0. th[t].be = backend \/ th[t].be \in lost
      BY <1>5, <2>1, <2>2 DEF BackendsOwn
    <3>1. CASE th[t].be = backend
      BY <1>1, <2>2, <2>3, <3>1 DEF BackendsOwn, Overtaken
    <3>2. CASE th[t].be \in lost
      BY <2>3, <3>2 DEF Overtaken
    <3> QED
      BY <3>0, <3>1, <3>2
  <2>5. i \in Nat /\ i # 0 /\ i \in 0 .. built
    BY <1>0, <2>3 DEF HostTyped
  <2>6. /\ th' \in [Callers -> Doing] /\ Rest(t) /\ th'[t].at = "execute"
        /\ th'[t].op = th[t].op /\ th'[t].then = th[t].then /\ th'[t].back = "used"
        /\ th'[t].tr = i /\ th'[t].of = th[t].of /\ th'[t].be = th[t].be
        /\ th'[t].conn = 0
    <3>1. G!Execute(t, i, "used")
      BY <1>5, <2>3
    <3> QED
      BY <1>0, <1>1, <2>5, <3>1, Executes
  <2>7. i = transport' \/ Overtaken(i)'
    BY <1>3, <2>4 DEF Overtaken
  <2>8. Stands(t)' /\ Finds(t)'
    BY <1>1, <2>5, <2>6
       DEF Stands, Assembling, Discovers, Probing, Discovering, Requesting, Asking, Shutting, Finds
  <2>9. Uses(t)'
    <3>1. ~Assembling(t)'
      BY <2>6 DEF Assembling, Discovers, Discovering, Probing
    <3>2. th'[t].tr = transport' \/ Overtaken(i)'
      BY <2>6, <2>7
    <3>3. Overtaken(th[t].tr)' <=> Overtaken(i)'
      BY <2>6 DEF Overtaken
    <3> QED
      BY <2>6, <3>1, <3>2, <3>3 DEF Uses
  <2>10. /\ osInfo' \in BOOLEAN /\ helper' \in {"unprobed", "none", "some"} /\ G!DiscoveredWhole'
         /\ th'[t].tr \in 0 .. built /\ th'[t].of \in 0 .. built /\ th'[t].be \in 0 .. Len(backends)
         /\ th'[t].at \notin OnWire /\ th'[t].op # "close"
    BY <1>0, <1>1, <1>3, <2>5, <2>6 DEF HostTyped, G!DiscoveredWhole, OnWire
  <2> QED
    BY <1>1, <1>2, <1>3, <2>6, <2>8, <2>9, <2>10, CallKeeps
<1> QED
  BY <1>4, <1>5 DEF G!Use

LEMMA CannotBuildStep ==
  ASSUME GuestInv, NEW t \in Callers, G!CannotBuild(t)
  PROVE  GuestInv'
<1>0. th \in [Callers -> Doing] /\ th[t] \in Doing /\ Stands(t)
  BY Knows
<1>1. th[t].at \in {"obtain", "transport", "probing", "command"} /\ th[t].op # "close"
  BY <1>0 DEF G!CannotBuild, Stands, Shutting
<1>2. /\ th[t].at \notin OnWire /\ th[t].conn = 0
      /\ UNCHANGED <<kind, transport, built, commands, osInfo, backends, backend>>
      /\ UNCHANGED <<maker, paths, G!wire, overlapped, lost, torn>>
  BY <1>0, <1>1 DEF G!CannotBuild, OnWire, G!history, Stands
<1>3. CASE th[t].at = "probing"
  <2> DEFINE r == [th[t] EXCEPT !.at = "store", !.helps = FALSE]
  <2>1. th' = [th EXCEPT ![t] = r] /\ UNCHANGED holder /\ helper' = "none"
    BY <1>0, <1>3 DEF G!CannotBuild
  <2>2. "store" \in CallPlaces
    BY DEF CallPlaces
  <2>3. /\ r \in Doing /\ r.at = "store" /\ r.op = th[t].op /\ r.then = th[t].then
        /\ r.back = th[t].back /\ r.tr = th[t].tr /\ r.of = th[t].of /\ r.be = th[t].be
        /\ r.caps = th[t].caps /\ r.conn = 0
    BY <1>0, <1>2, <2>2 DEF Doing
  <2> HIDE DEF r
  <2>4. HostOwn' /\ Settled(t)
    BY <1>1, <1>2, <1>3, <2>1, <2>3, Probed
  <2> QED
    BY <1>1, <1>2, <2>4, SettledKeeps
<1>4. CASE th[t].at # "probing"
  <2>1. G!Ends(t, "idle") /\ holder' = G!Unlocked(t) /\ UNCHANGED helper /\ "idle" \in Ended
    BY <1>4 DEF G!CannotBuild, Ended
  <2> QED
    BY <1>1, <1>2, <2>1, EndsKeeps
<1> QED
  BY <1>3, <1>4

LEMMA DroppedStep ==
  ASSUME GuestInv, NEW t \in Callers, G!Dropped(t)
  PROVE  GuestInv'
<1>1. /\ th[t].at = "dropped" /\ th[t].at \notin OnWire /\ th[t].at \in Requesting
      /\ UNCHANGED <<kind, transport, built, commands, osInfo, backends, backend>>
      /\ UNCHANGED <<maker, paths, G!wire, overlapped, lost, torn>>
  BY DEF G!Dropped, G!At, OnWire, G!history, Requesting, Shutting
<1>2. CASE th[t].op = "close"
  <2>1. G!Ends(t, "idle") /\ holder' = G!Unlocked(t) /\ UNCHANGED helper /\ "idle" \in Ended
    BY <1>2 DEF G!Dropped, Ended
  <2> QED
    BY <1>1, <2>1, EndsKeeps
<1>3. CASE th[t].op # "close"
  <2>1. G!Fails(t, "idle")
    BY <1>3 DEF G!Dropped
  <2>2. HostOwn' /\ Settled(t)
    BY <1>1, <1>3, <2>1, RequestFails
  <2> QED
    BY <1>1, <1>3, <2>2, SettledKeeps
<1> QED
  BY <1>2, <1>3

LEMMA CallStep ==
  ASSUME GuestInv, NEW t \in Callers, G!Call(t)
  PROVE  GuestInv'
<1>0. /\ HostTyped /\ th \in [Callers -> Doing] /\ Stands(t) /\ Uses(t)
      /\ overlapped = {} => Equipped /\ Finds(t)
      /\ ~Holding(t) => holder # t
  BY Knows
<1>1. /\ th[t].at = "call" /\ th[t].op # "close" /\ th[t].at \notin OnWire
      /\ th[t].at \in Requesting /\ UNCHANGED <<kind, G!wire, overlapped, lost, torn>>
  BY <1>0 DEF G!Call, G!At, OnWire, G!history, Requesting, Asking, Stands, Shutting
<1>2. CASE G!Refused(t, "asserted")
  <2>1. /\ G!Fails(t, "asserted")
        /\ UNCHANGED <<transport, built, commands, osInfo, backends, backend, maker, paths>>
    BY <1>2 DEF G!Refused
  <2>2. HostOwn' /\ Settled(t)
    BY <1>1, <2>1, RequestFails
  <2> QED
    BY <1>1, <2>1, <2>2, SettledKeeps
<1>3. CASE G!Answered(t)
  <2>1. HostOwn' /\ Settled(t) /\ UNCHANGED <<transport, backends>>
    BY <1>1, <1>3, RequestAnswered
  <2> QED
    BY <1>1, <2>1, SettledKeeps
<1>4. CASE /\ G!Goes(t, "drop")
           /\ UNCHANGED <<holder, transport, built, commands, osInfo, helper, backends, backend,
                          maker, paths>>
  <2>1. "drop" \in CallPlaces /\ "drop" \notin OnWire
    BY DEF CallPlaces, Requesting, Shutting, OnWire
  <2>2. /\ th'[t].at = "drop" /\ th'[t].op = th[t].op /\ th'[t].then = th[t].then
        /\ th'[t].back = th[t].back /\ th'[t].tr = th[t].tr /\ th'[t].of = th[t].of
        /\ th'[t].be = th[t].be /\ th'[t].caps = th[t].caps /\ th'[t].conn = th[t].conn
    BY <1>0, <1>4, <2>1, GoesOn
  <2>3. Stands(t)' /\ (Holding(t) => Holding(t)')
    BY <1>0, <1>1, <2>2
       DEF Stands, Assembling, Discovers, Probing, Requesting, Asking, Shutting, Holding
  <2>4. Uses(t)'
    BY <1>0, <1>1, <1>4, <2>2
       DEF Uses, Assembling, Discovers, Probing, Requesting, Asking, Shutting, Overtaken
  <2>5. overlapped = {} => Finds(t)'
    BY <1>0, <1>1, <2>2 DEF Finds, Probing, Requesting, Asking, Shutting
  <2>6. /\ helper' \in {"unprobed", "none", "some"}
        /\ \/ holder' = t /\ Holding(t)'
           \/ holder' = holder /\ holder # t
    BY <1>0, <1>4, <2>3 DEF HostTyped
  <2> QED
    BY <1>1, <1>4, <2>1, <2>3, <2>4, <2>5, <2>6, GoesKeeps
<1> QED
  BY <1>2, <1>3, <1>4 DEF G!Call

-----------------------------------------------------------------------------
(* The steps of a request on the wire.                                     *)
LEMMA Requests ==
  ASSUME GuestInv, NEW t \in Callers, th[t].at \in Requesting
  PROVE  /\ HostTyped /\ GuestBounds /\ th \in [Callers -> Doing] /\ th[t] \in Doing
         /\ WireTyped /\ JoinOwn /\ Wired /\ OpenOwn
         /\ \A u \in Callers: th[u].conn \in 0 .. dialled /\ Joins(u) /\ Shuts(u) /\ Uses(u)
         /\ Stands(t) /\ th[t].tr \in G!AllTransports /\ th[t].conn \in Nat
<1>1. /\ HostTyped /\ GuestBounds /\ th \in [Callers -> Doing] /\ th[t] \in Doing /\ Stands(t)
      /\ th[t].tr \in 0 .. built
  BY Knows
<1>2. /\ WireTyped /\ JoinOwn /\ Wired /\ OpenOwn
      /\ \A u \in Callers: th[u].conn \in 0 .. dialled /\ Joins(u) /\ Shuts(u) /\ Uses(u)
  BY DEF GuestInv, WireOwn, HostOwn
<1>3. th[t].tr # 0
  BY <1>1 DEF Stands
<1>4. th[t].tr \in G!AllTransports
  BY <1>1, <1>3 DEF HostTyped, GuestBounds, G!AllTransports
<1>5. th[t].conn \in Nat
  BY <1>1 DEF Doing
<1> QED
  BY <1>1, <1>2, <1>4, <1>5

LEMMA StillOvertaken ==
  ASSUME UNCHANGED <<backends, overlapped, lost>>, NEW i
  PROVE  Overtaken(i)' <=> Overtaken(i)
BY DEF Overtaken

LEMMA RequestMoves ==
  ASSUME GuestInv, NEW t \in Callers, Rest(t), th' \in [Callers -> Doing],
         UNCHANGED <<kind, G!host, overlapped, lost>>,
         th[t].at \in Requesting, th'[t].at \in Requesting, th'[t].op = th[t].op,
         th'[t].then = th[t].then, th'[t].back = th[t].back, th'[t].tr = th[t].tr,
         th'[t].of = th[t].of, th'[t].be = th[t].be, th'[t].caps = th[t].caps,
         th'[t].conn # 0 => th'[t].at \in OnWire,
         th'[t].at \in {"bind", "bound"} => th'[t].conn # 0,
         th[t].op = "close" => th'[t].at \in Shutting
  PROVE  HostOwn'
<1>0. /\ HostOwn /\ HostTyped /\ Stands(t) /\ Uses(t) /\ G!DiscoveredWhole
      /\ th[t].tr \in 0 .. built /\ th[t].of \in 0 .. built /\ th[t].be \in 0 .. Len(backends)
      /\ overlapped = {} => Equipped /\ Finds(t)
      /\ ~Holding(t) => holder # t
  BY Knows DEF GuestInv
<1>1. /\ UNCHANGED <<kind, holder, transport, built, commands, osInfo, helper, backends, backend>>
      /\ UNCHANGED <<maker, paths, overlapped, lost>>
  BY DEF G!host
<1>2. Stands(t)'
  BY <1>0 DEF Stands, Assembling, Discovers, Probing, Requesting, Asking, Shutting, OnWire
<1>3. Uses(t)'
  BY <1>0, <1>1
     DEF Uses, Assembling, Discovers, Probing, Requesting, Asking, Shutting, Overtaken
<1>4. overlapped = {} => Finds(t)'
  BY <1>0, <1>1 DEF Finds, Probing, Requesting, Asking, Shutting
<1>5. Holding(t) => Holding(t)'
  BY DEF Holding, Discovers, Requesting, Asking, Shutting
<1>6. \/ holder' = t /\ Holding(t)'
      \/ holder' = holder /\ holder # t
  BY <1>0, <1>1, <1>5
<1>7. /\ osInfo' \in BOOLEAN /\ helper' \in {"unprobed", "none", "some"} /\ G!DiscoveredWhole'
      /\ th'[t].tr \in 0 .. built /\ th'[t].of \in 0 .. built /\ th'[t].be \in 0 .. Len(backends)
      /\ UNCHANGED <<kind, transport, built, backends, backend, maker, paths>>
      /\ UNCHANGED <<overlapped, lost>> /\ commands' = commands
  BY <1>0, <1>1 DEF HostTyped, G!DiscoveredWhole
<1> QED
  BY <1>0, <1>2, <1>3, <1>4, <1>6, <1>7, HostStill

LEMMA OpenMoves ==
  ASSUME OpenOwn, WireTyped, GuestBounds, NEW t \in Callers, Rest(t), NEW i \in G!AllTransports,
         UNCHANGED <<transport, backends, overlapped, lost>>,
         \/ th[t].op # "close"
         \/ th'[t].op = th[t].op /\ th'[t].tr = th[t].tr,
         \A j \in G!AllTransports \ {i}: conn'[j] = conn[j], torn' = {} => torn = {},
         \A c \in opened': torn' = {} =>
            \/ G!Owned(c)' \/ (conn'[i] = c /\ Overtaken(i))
            \/ /\ c \in opened /\ (conn[i] # c \/ conn'[i] = c)
               /\ th[t].conn # c \/ th'[t].conn = c
  PROVE  OpenOwn'
<1>0. \A u \in Callers \ {t}: th'[u] = th[u]
  BY DEF Rest
<1>1. \A j: Overtaken(j)' <=> Overtaken(j)
  BY StillOvertaken
<1> SUFFICES ASSUME NEW c \in opened', torn' = {}, c \in opened, conn[i] # c \/ conn'[i] = c,
                    th[t].conn # c \/ th'[t].conn = c
             PROVE  G!Owned(c)' \/ \E j \in G!AllTransports: conn'[j] = c /\ Overtaken(j)'
  BY <1>1 DEF OpenOwn
<1>2. G!Owned(c) \/ \E j \in G!AllTransports: conn[j] = c /\ Overtaken(j)
  BY DEF OpenOwn
<1>3. CASE G!Held(c)
  <2>1. PICK u \in Callers: th[u].conn = c
    BY <1>3 DEF G!Held
  <2>2. th'[u].conn = c
    BY <1>0, <2>1
  <2> QED
    BY <2>2 DEF G!Owned, G!Held
<1>4. ASSUME NEW j \in G!AllTransports, conn[j] = c PROVE conn'[j] = c
  BY <1>4
<1>5. ASSUME NEW j \in G!AllTransports, G!Closing(j) PROVE G!Closing(j)'
  <2>1. PICK u \in Callers: th[u].op = "close" /\ th[u].tr = j
    BY <1>5 DEF G!Closing
  <2>2. th'[u].op = "close" /\ th'[u].tr = j
    BY <1>0, <2>1
  <2> QED
    BY <2>2 DEF G!Closing
<1> QED
  BY <1>1, <1>2, <1>3, <1>4, <1>5 DEF G!Owned

(* A closing thread is not disturbed: what is dialled then is overtaken.   *)
LEMMA ConnectsOvertaken ==
  ASSUME HostTyped, NEW t \in Callers, NEW i \in G!AllTransports, i = th[t].tr, th[t].op # "close",
         th[t].at \in Requesting, th'[t].op # "close", th'[t].conn \in 0 .. dialled',
         \A u \in Callers: th[u].conn \in 0 .. dialled /\ Shuts(u), Uses(t),
         \A u \in Callers \ {t}: th'[u] = th[u], dialled' >= dialled, dialled \in Nat,
         dialled' \in Nat, UNCHANGED <<transport, backends, overlapped, lost>>,
         \A j \in G!AllTransports \ {i}: conn'[j] = conn[j], torn' = {} => torn = {}
  PROVE  \A u \in Callers: th'[u].conn \in 0 .. dialled' /\ Shuts(u)'
<1>1. i = transport \/ Overtaken(i)
  BY DEF Uses, Overtaken
<1>2. ASSUME NEW u \in Callers \ {t} PROVE th'[u].conn \in 0 .. dialled' /\ Shuts(u)'
  <2>1. th'[u] = th[u] /\ th[u].conn \in 0 .. dialled /\ Shuts(u)
    OBVIOUS
  <2>2. th'[u].conn \in 0 .. dialled'
    BY <2>1
  <2>3. ASSUME th[u].op = "close", th[u].at \in Shutting, torn' = {}, th[u].at # "drop"
        PROVE  conn'[th[u].tr] = 0 \/ Overtaken(th[u].tr)
    <3>1. CASE th[u].tr = i
      BY <1>1, <2>1, <2>3, <3>1 DEF Shuts
    <3>2. CASE th[u].tr # i
      BY <2>1, <2>3, <3>2 DEF Shuts
    <3> QED
      BY <3>1, <3>2
  <2> QED
    BY <2>1, <2>2, <2>3 DEF Shuts, Overtaken
<1>3. Shuts(t)'
  BY DEF Shuts
<1> QED
  BY <1>2, <1>3

LEMMA StillShut ==
  ASSUME NEW t \in Callers, th'[t].op # "close", th'[t].conn \in 0 .. dialled,
         \A u \in Callers: th[u].conn \in 0 .. dialled /\ Shuts(u),
         \A u \in Callers \ {t}: th'[u] = th[u],
         UNCHANGED <<dialled, conn, transport, backends, overlapped, lost>>,
         torn' = {} => torn = {}
  PROVE  \A u \in Callers: th'[u].conn \in 0 .. dialled' /\ Shuts(u)'
BY DEF Shuts, Overtaken

LEMMA LibvirtConnectStep ==
  ASSUME GuestInv, NEW t \in Callers, G!LibvirtConnect(t)
  PROVE  GuestInv'
<1>0. /\ th[t].at = "execute" /\ th[t].at \in Requesting /\ th[t].at \notin OnWire
      /\ kind = "libvirt" /\ UNCHANGED <<kind, transport, built, commands, osInfo, backends>>
      /\ UNCHANGED <<backend, maker, paths, conn, domain, overlapped, lost, torn>>
  BY DEF G!LibvirtConnect, G!At, Requesting, Asking, OnWire, G!history
<1>1. /\ HostTyped /\ GuestBounds /\ th \in [Callers -> Doing] /\ th[t] \in Doing
      /\ WireTyped /\ JoinOwn /\ Wired /\ OpenOwn
      /\ \A u \in Callers: th[u].conn \in 0 .. dialled /\ Joins(u) /\ Shuts(u) /\ Uses(u)
      /\ Stands(t) /\ th[t].tr \in G!AllTransports
  BY <1>0, Requests
<1>2. th[t].op # "close" /\ th[t].conn = 0
  BY <1>0, <1>1 DEF Stands, Shutting
<1>3. CASE G!Goes(t, "call") /\ UNCHANGED <<connLock, opened, dialled, helper, holder>>
  <2>1. "call" \in CallPlaces /\ "call" \notin OnWire
    BY DEF CallPlaces, Requesting, Asking, OnWire
  <2>2. /\ th' \in [Callers -> Doing] /\ Rest(t) /\ th'[t].at = "call"
        /\ th'[t].op = th[t].op /\ th'[t].then = th[t].then /\ th'[t].back = th[t].back
        /\ th'[t].tr = th[t].tr /\ th'[t].of = th[t].of
        /\ th'[t].be = th[t].be /\ th'[t].caps = th[t].caps /\ th'[t].conn = 0
    BY <1>1, <1>2, <1>3, <2>1, GoesOn
  <2>3. th'[t].at \in Requesting /\ UNCHANGED <<kind, G!host, overlapped, lost>>
    BY <1>0, <1>3, <2>2 DEF Requesting, Asking, G!host
  <2>4. HostOwn'
    BY <1>0, <1>2, <2>2, <2>3, RequestMoves
  <2>5. Settled(t)
    BY <1>2, <2>1, <2>2 DEF Settled, Shutting
  <2> QED
    BY <1>0, <1>2, <1>3, <2>4, <2>5, SettledKeeps DEF G!wire
<1>4. CASE G!Fails(t, "idle") /\ UNCHANGED <<connLock, opened, dialled>>
  <2>1. HostOwn' /\ Settled(t)
    BY <1>0, <1>2, <1>4, RequestFails
  <2> QED
    BY <1>0, <1>2, <1>4, <2>1, SettledKeeps DEF G!wire
<1>5. CASE /\ domain[th[t].tr] = 0 /\ connLock[th[t].tr] = 0
           /\ connLock' = [connLock EXCEPT ![th[t].tr] = t]
           /\ G!Dial(th[t].tr, dialled + 1)
           /\ th' = [th EXCEPT ![t].at = "bind", ![t].conn = dialled + 1]
           /\ UNCHANGED <<helper, holder>>
  <2>0. PICK i \in G!AllTransports: i = th[t].tr
    BY <1>1
  <2> DEFINE r == [th[t] EXCEPT !.at = "bind", !.conn = dialled + 1]
  <2>1. th' = [th EXCEPT ![t] = r] /\ dialled \in Nat
    BY <1>1, <1>5 DEF WireTyped
  <2>2. "bind" \in CallPlaces
    BY DEF CallPlaces, Requesting, Asking
  <2>3. /\ r \in Doing /\ r.at = "bind" /\ r.op = th[t].op /\ r.then = th[t].then
        /\ r.back = th[t].back /\ r.tr = i /\ r.of = th[t].of /\ r.be = th[t].be
        /\ r.caps = th[t].caps /\ r.conn = dialled + 1
    <3>1. dialled + 1 \in Nat
      BY <2>1
    <3> QED
      BY <1>1, <2>0, <2>2, <3>1 DEF Doing
  <2> HIDE DEF r
  <2>4. /\ th' \in [Callers -> Doing] /\ Rest(t) /\ th'[t] = r
        /\ \A u \in Callers \ {t}: th'[u] = th[u]
    BY <1>1, <2>1, <2>3 DEF Rest
  <2>5. /\ dialled' = dialled + 1 /\ opened' = opened \cup {dialled + 1} /\ torn' = torn
        /\ connLock' = [connLock EXCEPT ![i] = t] /\ connLock[i] = 0 /\ domain[i] = 0
        /\ connLock \in [G!AllTransports -> Callers \cup {0}] /\ 0 \notin Callers
    BY <1>0, <1>1, <1>5, <2>0 DEF G!Dial, WireTyped, GuestBounds
  <2>6. HostOwn'
    <3>1. UNCHANGED <<kind, G!host, overlapped, lost>>
      BY <1>0, <1>5 DEF G!host
    <3>2. /\ th'[t].at \in Requesting /\ th'[t].at \in OnWire /\ th'[t].conn # 0
          /\ th'[t].op = th[t].op /\ th'[t].then = th[t].then /\ th'[t].back = th[t].back
          /\ th'[t].tr = th[t].tr /\ th'[t].of = th[t].of /\ th'[t].be = th[t].be
          /\ th'[t].caps = th[t].caps
      <4>1. th'[t].at = "bind" /\ th'[t].conn = dialled + 1 /\ dialled + 1 # 0
        BY <2>1, <2>3, <2>4
      <4> QED
        BY <2>0, <2>3, <2>4, <4>1 DEF Requesting, Asking, OnWire
    <3> QED
      BY <1>0, <1>2, <2>4, <3>1, <3>2, RequestMoves
  <2>7. WireTyped'
    BY <1>0, <1>1, <2>1, <2>5 DEF WireTyped
  <2>8. JoinOwn'
    <3> SUFFICES ASSUME NEW j \in G!AllTransports, NEW u \in Callers, connLock'[j] = u
                 PROVE  th'[u].at \in {"bind", "bound"} /\ th'[u].tr = j
      BY DEF JoinOwn
    <3>1. CASE j = i
      BY <2>3, <2>4, <2>5, <3>1
    <3>2. CASE j # i
      <4>1. th[u].at \in {"bind", "bound"} /\ th[u].tr = j
        BY <1>1, <2>5, <3>2 DEF JoinOwn
      <4> QED
        BY <1>0, <2>4, <4>1
    <3> QED
      BY <3>1, <3>2
  <2>9. Wired'
    <3> SUFFICES ASSUME torn' = {}, kind' = "libvirt", NEW j \in G!AllTransports, connLock'[j] = 0,
                        domain'[j] = 0
                 PROVE  conn'[j] = 0
      BY DEF Wired
    <3>1. j # i /\ connLock[j] = 0
      BY <2>5
    <3> QED
      BY <1>0, <1>1, <3>1 DEF Wired
  <2>10. \A u \in Callers: Joins(u)'
    <3>1. Joins(t)'
      <4>1. torn = {} => conn[i] = 0
        BY <1>0, <1>1, <2>5 DEF Wired
      <4> QED
        BY <1>0, <2>3, <2>4, <2>5, <4>1 DEF Joins
    <3>2. ASSUME NEW u \in Callers \ {t} PROVE Joins(u)'
      <4>1. Joins(u) /\ th'[u] = th[u]
        BY <1>1, <2>4
      <4>2. th[u].at \in {"bind", "bound"} => connLock'[th[u].tr] = u
        BY <2>5, <4>1 DEF Joins
      <4> QED
        BY <1>0, <4>1, <4>2 DEF Joins
    <3> QED
      BY <3>1, <3>2
  <2>11. \A u \in Callers: th'[u].conn \in 0 .. dialled' /\ Shuts(u)'
    <3>1. th'[t].conn \in 0 .. dialled' /\ Shuts(t)'
      BY <1>2, <2>1, <2>3, <2>4, <2>5 DEF Shuts
    <3>2. ASSUME NEW u \in Callers \ {t} PROVE th'[u].conn \in 0 .. dialled' /\ Shuts(u)'
      <4>1. Shuts(u) /\ th'[u] = th[u] /\ th[u].conn \in 0 .. dialled
        BY <1>1, <2>4
      <4> QED
        BY <1>0, <2>1, <2>5, <4>1 DEF Shuts, Overtaken
    <3> QED
      BY <3>1, <3>2
  <2>12. OpenOwn'
    <3>1. ASSUME NEW c \in opened'
          PROVE  \/ G!Owned(c)'
                 \/ c \in opened /\ conn'[i] = conn[i] /\ (th[t].conn # c \/ th'[t].conn = c)
      <4>1. CASE c = dialled + 1
        <5>1. th'[t].conn = c
          BY <2>3, <2>4, <4>1
        <5> QED
          BY <5>1 DEF G!Owned, G!Held
      <4>2. CASE c # dialled + 1
        BY <1>0, <1>1, <1>2, <2>5, <4>2 DEF WireTyped
      <4> QED
        BY <4>1, <4>2
    <3> QED
      BY <1>0, <1>1, <1>2, <2>4, <3>1, OpenMoves
  <2> QED
    BY <2>6, <2>7, <2>8, <2>9, <2>10, <2>11, <2>12 DEF GuestInv, WireOwn
<1> QED
  BY <1>3, <1>4, <1>5 DEF G!LibvirtConnect

(* A step on the wire of one transport, without the host.                  *)
LEMMA BindStep ==
  ASSUME GuestInv, NEW t \in Callers, G!Bind(t)
  PROVE  GuestInv'
<1>0. /\ th[t].at = "bind" /\ th[t].at \in Requesting
      /\ UNCHANGED <<kind, transport, backends, connLock, domain, opened, dialled>>
      /\ UNCHANGED <<overlapped, lost>> /\ UNCHANGED G!host
  BY DEF G!Bind, G!At, Requesting, Asking, G!host
<1>1. /\ HostTyped /\ GuestBounds /\ th \in [Callers -> Doing] /\ th[t] \in Doing
      /\ WireTyped /\ JoinOwn /\ Wired /\ OpenOwn
      /\ \A u \in Callers: th[u].conn \in 0 .. dialled /\ Joins(u) /\ Shuts(u) /\ Uses(u)
      /\ Stands(t) /\ th[t].tr \in G!AllTransports
  BY <1>0, Requests
<1>2. th[t].op # "close" /\ th[t].back # "none"
  BY <1>0, <1>1 DEF Stands, Shutting
<1>3. PICK i \in G!AllTransports: i = th[t].tr
  BY <1>1
<1>4. PICK c \in 1 .. dialled: c = th[t].conn
  BY <1>0, <1>1 DEF Stands, WireTyped
<1>5. /\ th' \in [Callers -> Doing] /\ Rest(t) /\ th'[t].at = "bound"
      /\ th'[t].op = th[t].op /\ th'[t].then = th[t].then /\ th'[t].back = th[t].back
      /\ th'[t].tr = th[t].tr /\ th'[t].of = th[t].of
      /\ th'[t].be = th[t].be /\ th'[t].caps = th[t].caps /\ th'[t].conn = th[t].conn
  <2>1. "bound" \in CallPlaces /\ G!Goes(t, "bound")
    BY DEF CallPlaces, Requesting, Asking, G!Bind
  <2> QED
    BY <1>1, <2>1, GoesOn
<1>6. \A u \in Callers \ {t}: th'[u] = th[u]
  BY <1>5 DEF Rest
<1>7. conn' = [conn EXCEPT ![i] = c] /\ connLock[i] = t /\ c \in Nat /\ c # 0
  <2>1. connLock[i] = t
    BY <1>0, <1>1, <1>3 DEF Joins
  <2>2. c \in Nat /\ c # 0
    BY <1>1, <1>4 DEF WireTyped
  <2> QED
    BY <1>3, <1>4, <2>1, <2>2 DEF G!Bind
<1>8. torn' = {} => torn = {} /\ \A u \in Callers: ~(th[u].at = "drop domain" /\ th[u].tr = i)
  BY <1>3 DEF G!Bind, G!At
<1>9. HostOwn'
  <2>1. th'[t].at \in Requesting /\ th'[t].at \in OnWire /\ th'[t].conn # 0
    BY <1>4, <1>5 DEF Requesting, Asking, OnWire
  <2> QED
    BY <1>0, <1>2, <1>5, <2>1, RequestMoves
<1>10. WireTyped' /\ JoinOwn'
  <2>1. WireTyped'
    BY <1>0, <1>1, <1>4, <1>7 DEF WireTyped
  <2>2. JoinOwn'
    BY <1>0, <1>1, <1>5, <1>6 DEF JoinOwn
  <2> QED
    BY <2>1, <2>2
<1>11. Wired'
  <2> SUFFICES ASSUME torn' = {}, kind' = "libvirt", NEW j \in G!AllTransports, connLock'[j] = 0,
                      domain'[j] = 0
               PROVE  conn'[j] = 0
    BY DEF Wired
  <2>1. j # i
    BY <1>0, <1>1, <1>7 DEF GuestBounds
  <2> QED
    BY <1>0, <1>1, <1>7, <1>8, <2>1 DEF Wired, WireTyped
<1>12. \A u \in Callers: Joins(u)'
  <2>1. Joins(t)'
    BY <1>0, <1>1, <1>3, <1>4, <1>5, <1>7 DEF Joins, WireTyped
  <2>2. ASSUME NEW u \in Callers \ {t} PROVE Joins(u)'
    <3>1. Joins(u) /\ th'[u] = th[u]
      BY <1>1, <1>6
    <3>2. th[u].at \in {"bind", "bound"} => th[u].tr # i
      BY <1>7, <3>1 DEF Joins
    <3>3. torn' = {} /\ th[u].at = "drop domain" => th[u].tr # i
      BY <1>8
    <3>4. th[u].tr # i /\ th[u].tr \in G!AllTransports => conn'[th[u].tr] = conn[th[u].tr]
      BY <1>1, <1>7 DEF WireTyped
    <3> QED
      BY <1>0, <1>8, <3>1, <3>2, <3>3, <3>4 DEF Joins
  <2> QED
    BY <2>1, <2>2
<1>13. \A u \in Callers: th'[u].conn \in 0 .. dialled' /\ Shuts(u)'
  <2>1. \A j \in G!AllTransports \ {i}: conn'[j] = conn[j]
    BY <1>1, <1>7 DEF WireTyped
  <2>2. /\ dialled \in Nat /\ dialled' = dialled /\ th'[t].conn \in 0 .. dialled' /\ Uses(t)
        /\ th'[t].op # "close"
    BY <1>0, <1>1, <1>2, <1>5 DEF WireTyped
  <2>3. torn' = {} => torn = {}
    BY <1>8
  <2>4. dialled' >= dialled
    BY <2>2
  <2> QED
    BY <1>0, <1>1, <1>2, <1>3, <1>6, <2>1, <2>2, <2>3, <2>4, ConnectsOvertaken
<1>14. OpenOwn'
  <2>1. ASSUME torn' = {} PROVE conn[i] = 0
    BY <1>0, <1>1, <1>3, <1>8, <2>1 DEF Joins
  <2>2. ASSUME NEW d \in opened' PROVE d \in opened /\ d # 0
    BY <1>0, <1>1, <2>2 DEF WireTyped
  <2>3. \A j \in G!AllTransports \ {i}: conn'[j] = conn[j]
    BY <1>1, <1>7 DEF WireTyped
  <2>4. ASSUME NEW d \in opened', torn' = {}
        PROVE  /\ d \in opened /\ (conn[i] # d \/ conn'[i] = d)
               /\ th[t].conn # d \/ th'[t].conn = d
    BY <1>5, <2>1, <2>2, <2>4
  <2>5. torn' = {} => torn = {}
    BY <1>8
  <2>6. UNCHANGED <<transport, backends, overlapped, lost>>
    BY <1>0
  <2> QED
    BY <1>1, <1>2, <1>5, <2>3, <2>4, <2>5, <2>6, OpenMoves
<1> QED
  BY <1>9, <1>10, <1>11, <1>12, <1>13, <1>14 DEF GuestInv, WireOwn

LEMMA BoundStep ==
  ASSUME GuestInv, NEW t \in Callers, G!Bound(t)
  PROVE  GuestInv'
<1>0. /\ th[t].at = "bound" /\ th[t].at \in Requesting
      /\ UNCHANGED <<kind, transport, backends, conn, opened, dialled>>
      /\ UNCHANGED <<overlapped, lost>> /\ UNCHANGED G!host
  BY DEF G!Bound, G!At, Requesting, Asking, G!host
<1>1. /\ HostTyped /\ GuestBounds /\ th \in [Callers -> Doing] /\ th[t] \in Doing
      /\ WireTyped /\ JoinOwn /\ Wired /\ OpenOwn
      /\ \A u \in Callers: th[u].conn \in 0 .. dialled /\ Joins(u) /\ Shuts(u) /\ Uses(u)
      /\ Stands(t) /\ th[t].tr \in G!AllTransports
  BY <1>0, Requests
<1>2. th[t].op # "close" /\ th[t].back # "none"
  BY <1>0, <1>1 DEF Stands, Shutting
<1>3. PICK i \in G!AllTransports: i = th[t].tr
  BY <1>1
<1>4. PICK c \in 1 .. dialled: c = th[t].conn
  BY <1>0, <1>1 DEF Stands, WireTyped
<1>5. /\ th' \in [Callers -> Doing] /\ Rest(t) /\ th'[t].at = "call"
      /\ th'[t].op = th[t].op /\ th'[t].then = th[t].then /\ th'[t].back = th[t].back
      /\ th'[t].tr = th[t].tr /\ th'[t].of = th[t].of
      /\ th'[t].be = th[t].be /\ th'[t].caps = th[t].caps /\ th'[t].conn = 0
  <2> DEFINE r == [th[t] EXCEPT !.at = "call", !.conn = 0]
  <2>1. th' = [th EXCEPT ![t] = r]
    BY <1>1 DEF G!Bound
  <2>2. "call" \in CallPlaces
    BY DEF CallPlaces, Requesting, Asking
  <2>3. /\ r \in Doing /\ r.at = "call" /\ r.op = th[t].op /\ r.then = th[t].then
        /\ r.back = th[t].back /\ r.tr = th[t].tr /\ r.of = th[t].of /\ r.be = th[t].be
        /\ r.caps = th[t].caps /\ r.conn = 0
    BY <1>1, <2>2 DEF Doing
  <2> HIDE DEF r
  <2> QED
    BY <1>1, <2>1, <2>3 DEF Rest
<1>6. \A u \in Callers \ {t}: th'[u] = th[u]
  BY <1>5 DEF Rest
<1>7. /\ domain' = [domain EXCEPT ![i] = c] /\ connLock' = [connLock EXCEPT ![i] = 0]
      /\ connLock[i] = t /\ c \in Nat /\ c # 0
  <2>1. connLock[i] = t
    BY <1>0, <1>1, <1>3 DEF Joins
  <2>2. c \in Nat /\ c # 0
    BY <1>1, <1>4 DEF WireTyped
  <2> QED
    BY <1>3, <1>4, <2>1, <2>2 DEF G!Bound
<1>8. torn' = {} => torn = {}
  BY DEF G!Bound
<1>9. HostOwn'
  <2>1. th'[t].at \in Requesting
    BY <1>5 DEF Requesting, Asking
  <2> QED
    BY <1>0, <1>2, <1>5, <2>1, RequestMoves
<1>10. WireTyped'
  BY <1>0, <1>1, <1>4, <1>7 DEF WireTyped
<1>11. JoinOwn'
  <2> SUFFICES ASSUME NEW j \in G!AllTransports, NEW u \in Callers, connLock'[j] = u
               PROVE  th'[u].at \in {"bind", "bound"} /\ th'[u].tr = j
    BY DEF JoinOwn
  <2>1. j # i /\ connLock[j] = u
    BY <1>1, <1>7 DEF WireTyped, GuestBounds
  <2>2. th[u].at \in {"bind", "bound"} /\ th[u].tr = j
    BY <1>1, <2>1 DEF JoinOwn
  <2> QED
    BY <1>3, <1>6, <2>1, <2>2
<1>12. Wired'
  <2> SUFFICES ASSUME torn' = {}, kind' = "libvirt", NEW j \in G!AllTransports, connLock'[j] = 0,
                      domain'[j] = 0
               PROVE  conn'[j] = 0
    BY DEF Wired
  <2>1. j # i /\ connLock[j] = 0 /\ domain[j] = 0
    BY <1>1, <1>7 DEF WireTyped
  <2> QED
    BY <1>0, <1>1, <1>8, <2>1 DEF Wired
<1>13. \A u \in Callers: Joins(u)'
  <2>1. Joins(t)'
    BY <1>5 DEF Joins
  <2>2. ASSUME NEW u \in Callers \ {t} PROVE Joins(u)'
    <3>1. Joins(u) /\ th'[u] = th[u]
      BY <1>1, <1>6
    <3>2. th[u].at \in {"bind", "bound"} => connLock'[th[u].tr] = u
      BY <1>1, <1>7, <3>1 DEF Joins, WireTyped
    <3> QED
      BY <1>0, <1>8, <3>1, <3>2 DEF Joins
  <2> QED
    BY <2>1, <2>2
<1>14. \A u \in Callers: th'[u].conn \in 0 .. dialled' /\ Shuts(u)'
  <2>1. th'[t].conn \in 0 .. dialled /\ th'[t].op # "close"
    BY <1>1, <1>2, <1>5 DEF WireTyped
  <2> QED
    BY <1>0, <1>1, <1>2, <1>5, <1>6, <1>8, <2>1, StillShut
<1>15. OpenOwn'
  <2>1. ASSUME torn' = {} PROVE conn'[i] = c
    BY <1>0, <1>1, <1>3, <1>4, <1>8, <2>1 DEF Joins
  <2>2. i = transport \/ Overtaken(i)
    BY <1>0, <1>1, <1>2, <1>3 DEF Uses, Overtaken
  <2>3. ASSUME torn' = {}, NEW d \in opened'
        PROVE  \/ G!Owned(d)' \/ (conn'[i] = d /\ Overtaken(i))
               \/ d \in opened /\ conn'[i] = conn[i] /\ (th[t].conn # d \/ th'[t].conn = d)
    <3>1. CASE d = c
      BY <1>0, <1>3, <2>1, <2>2, <2>3, <3>1 DEF G!Owned
    <3>2. CASE d # c
      BY <1>0, <1>4, <3>2
    <3> QED
      BY <3>1, <3>2
  <2> QED
    BY <1>0, <1>1, <1>2, <1>5, <1>8, <2>3, OpenMoves
<1> QED
  BY <1>9, <1>10, <1>11, <1>12, <1>13, <1>14, <1>15 DEF GuestInv, WireOwn

LEMMA DropStep ==
  ASSUME GuestInv, NEW t \in Callers, G!Drop(t)
  PROVE  GuestInv'
<1>0. /\ th[t].at = "drop" /\ th[t].at \in Requesting /\ th[t].at \notin OnWire
      /\ UNCHANGED <<kind, transport, backends, connLock, domain, dialled>>
      /\ UNCHANGED <<overlapped, lost>> /\ UNCHANGED G!host
  BY DEF G!Drop, G!At, Requesting, Shutting, OnWire, G!host
<1>1. /\ HostTyped /\ GuestBounds /\ th \in [Callers -> Doing] /\ th[t] \in Doing
      /\ WireTyped /\ JoinOwn /\ Wired /\ OpenOwn
      /\ \A u \in Callers: th[u].conn \in 0 .. dialled /\ Joins(u) /\ Shuts(u) /\ Uses(u)
      /\ Stands(t) /\ th[t].tr \in G!AllTransports
  BY <1>0, Requests
<1>2. PICK i \in G!AllTransports: i = th[t].tr
  BY <1>1
<1>3. PICK c \in 0 .. dialled: c = conn[i] /\ 0 \in 0 .. dialled
  BY <1>1 DEF WireTyped
<1>4. (\A d \in 0 .. dialled: d \in Nat) /\ 0 \notin opened
  <2>1. dialled \in Nat /\ opened \subseteq 1 .. dialled
    BY <1>1 DEF WireTyped
  <2> QED
    BY <2>1
<1>5. /\ th[t].conn = 0 /\ conn' = [conn EXCEPT ![i] = 0]
      /\ \A j \in G!AllTransports \ {i}: conn'[j] = conn[j]
      /\ conn'[i] = 0
  BY <1>0, <1>1, <1>2 DEF G!Drop, Stands, OnWire, WireTyped
<1>6. PICK go \in {"dropped", "drop domain"}, d \in 0 .. dialled:
         /\ th' = [th EXCEPT ![t] = [th[t] EXCEPT !.at = go, !.conn = d]]
         /\ go = "dropped" => d = 0 /\ kind = "framed" /\ opened' = opened \ {c} /\ torn' = torn
         /\ go = "drop domain" => /\ d = c /\ opened' = opened /\ kind = "libvirt"
                                  /\ torn' = {} => torn = {} /\ connLock[i] = 0
  <2>1. CASE kind = "framed"
    <3>1. th' = [th EXCEPT ![t] = [th[t] EXCEPT !.at = "dropped", !.conn = 0]]
      BY <1>1, <1>5, <2>1 DEF G!Drop, G!Goes, Doing
    <3> QED
      BY <1>2, <1>3, <2>1, <3>1 DEF G!Drop
  <2>2. CASE kind = "libvirt"
    <3>1. th' = [th EXCEPT ![t] = [th[t] EXCEPT !.at = "drop domain", !.conn = c]]
      BY <1>1, <1>2, <1>3, <2>2 DEF G!Drop
    <3> QED
      BY <1>2, <1>3, <2>2, <3>1 DEF G!Drop
  <2> QED
    BY <2>1, <2>2 DEF G!Drop
<1>7. /\ th' \in [Callers -> Doing] /\ Rest(t) /\ th'[t].at = go /\ th'[t].conn = d
      /\ th'[t].op = th[t].op /\ th'[t].then = th[t].then /\ th'[t].back = th[t].back
      /\ th'[t].tr = i /\ th'[t].of = th[t].of /\ th'[t].be = th[t].be
      /\ th'[t].caps = th[t].caps
  <2> DEFINE r == [th[t] EXCEPT !.at = go, !.conn = d]
  <2>0. d \in Nat
    BY <1>4
  <2>1. go \in CallPlaces /\ d \in Nat
    BY <2>0 DEF CallPlaces, Requesting, Shutting
  <2>2. /\ r \in Doing /\ r.at = go /\ r.op = th[t].op /\ r.then = th[t].then
        /\ r.back = th[t].back /\ r.tr = i /\ r.of = th[t].of /\ r.be = th[t].be
        /\ r.caps = th[t].caps /\ r.conn = d
    BY <1>1, <1>2, <2>1 DEF Doing
  <2>3. th' = [th EXCEPT ![t] = r]
    BY <1>6
  <2> HIDE DEF r
  <2> QED
    BY <1>1, <2>2, <2>3 DEF Rest
<1>8. \A u \in Callers \ {t}: th'[u] = th[u]
  BY <1>7 DEF Rest
<1>9. torn' = {} => torn = {}
  BY <1>6
<1>10. HostOwn'
  <2>1. /\ th'[t].at \in Requesting /\ th'[t].at \in Shutting
        /\ th'[t].conn # 0 => th'[t].at \in OnWire
        /\ th'[t].at \notin {"bind", "bound"} /\ th'[t].tr = th[t].tr
    BY <1>2, <1>6, <1>7 DEF Requesting, Shutting, OnWire
  <2> QED
    BY <1>0, <1>7, <2>1, RequestMoves
<1>11. WireTyped' /\ JoinOwn'
  <2>1. opened' \subseteq opened
    BY <1>6
  <2>2. WireTyped'
    BY <1>0, <1>1, <1>3, <1>5, <2>1 DEF WireTyped
  <2>3. JoinOwn'
    <3> SUFFICES ASSUME NEW j \in G!AllTransports, NEW u \in Callers, connLock'[j] = u
                 PROVE  th'[u].at \in {"bind", "bound"} /\ th'[u].tr = j
      BY DEF JoinOwn
    <3>1. th[u].at \in {"bind", "bound"} /\ th[u].tr = j
      BY <1>0, <1>1 DEF JoinOwn
    <3>2. u # t
      BY <1>0, <3>1
    <3> QED
      BY <1>8, <3>1, <3>2
  <2> QED
    BY <2>2, <2>3
<1>12. Wired'
  BY <1>0, <1>1, <1>5, <1>9 DEF Wired
<1>13. \A u \in Callers: Joins(u)'
  <2>1. Joins(t)'
    BY <1>0, <1>5, <1>6, <1>7 DEF Joins
  <2>2. ASSUME NEW u \in Callers \ {t} PROVE Joins(u)'
    <3>1. Joins(u) /\ th'[u] = th[u]
      BY <1>1, <1>8
    <3>2. torn' = {} /\ th[u].at = "bound" => th[u].tr # i
      <4>1. CASE go = "dropped"
        BY <1>6, <3>1, <4>1 DEF Joins
      <4>2. CASE go = "drop domain"
        <5>1. 0 \notin Callers /\ (torn' = {} => connLock[i] = 0)
          BY <1>1, <1>6, <4>2 DEF GuestBounds
        <5> QED
          BY <3>1, <5>1 DEF Joins
      <4> QED
        BY <4>1, <4>2
    <3>3. th[u].tr \in G!AllTransports => conn'[th[u].tr] = 0 \/ conn'[th[u].tr] = conn[th[u].tr]
      BY <1>5
    <3>4. th[u].tr \in G!AllTransports \ {i} => conn'[th[u].tr] = conn[th[u].tr]
      BY <1>5
    <3> QED
      BY <1>0, <1>9, <3>1, <3>2, <3>3, <3>4 DEF Joins
  <2> QED
    BY <2>1, <2>2
<1>14. \A u \in Callers: th'[u].conn \in 0 .. dialled' /\ Shuts(u)'
  <2>1. th'[t].conn \in 0 .. dialled' /\ Shuts(t)'
    BY <1>0, <1>1, <1>2, <1>5, <1>7 DEF Shuts, Shutting
  <2>2. ASSUME NEW u \in Callers \ {t} PROVE th'[u].conn \in 0 .. dialled' /\ Shuts(u)'
    <3>1. th'[u] = th[u] /\ th[u].conn \in 0 .. dialled /\ Shuts(u)
      BY <1>1, <1>8
    <3>2. \A j \in G!AllTransports: conn[j] = 0 => conn'[j] = 0
      BY <1>5
    <3> QED
      BY <1>0, <1>9, <3>1, <3>2 DEF Shuts, Overtaken
  <2> QED
    BY <2>1, <2>2
<1>15. OpenOwn'
  <2>1. ASSUME NEW e \in opened'
        PROVE  \/ G!Owned(e)' \/ (conn'[i] = e /\ Overtaken(i))
               \/ /\ e \in opened /\ (conn[i] # e \/ conn'[i] = e)
                  /\ th[t].conn # e \/ th'[t].conn = e
    <3>1. e \in opened /\ e # 0
      <4>1. e \in opened
        BY <1>6, <2>1
      <4> QED
        BY <1>4, <4>1
    <3>2. CASE e = c
      <4>1. go = "drop domain"
        BY <1>6, <2>1, <3>2
      <4>2. th'[t].conn = e
        BY <1>6, <1>7, <3>2, <4>1
      <4> QED
        BY <4>2 DEF G!Owned, G!Held
    <3>3. CASE e # c
      BY <1>3, <1>5, <3>1, <3>3
    <3> QED
      BY <3>2, <3>3
  <2> QED
    <3>1. th'[t].op = th[t].op /\ th'[t].tr = th[t].tr
      BY <1>2, <1>7
    <3>2. OpenOwn /\ WireTyped /\ GuestBounds /\ Rest(t)
      BY <1>1, <1>7
    <3> QED
      BY <1>0, <1>5, <1>9, <2>1, <3>1, <3>2, OpenMoves
<1> QED
  BY <1>10, <1>11, <1>12, <1>13, <1>14, <1>15 DEF GuestInv, WireOwn

LEMMA DropDomainStep ==
  ASSUME GuestInv, NEW t \in Callers, G!DropDomain(t)
  PROVE  GuestInv'
<1>0. /\ th[t].at = "drop domain" /\ th[t].at \in Requesting
      /\ UNCHANGED <<kind, transport, backends, connLock, conn, opened, dialled>>
      /\ UNCHANGED <<overlapped, lost>> /\ UNCHANGED G!host
  BY DEF G!DropDomain, G!At, Requesting, Shutting, G!host
<1>1. /\ HostTyped /\ GuestBounds /\ th \in [Callers -> Doing] /\ th[t] \in Doing
      /\ WireTyped /\ JoinOwn /\ Wired /\ OpenOwn
      /\ \A u \in Callers: th[u].conn \in 0 .. dialled /\ Joins(u) /\ Shuts(u) /\ Uses(u)
      /\ Stands(t) /\ th[t].tr \in G!AllTransports
  BY <1>0, Requests
<1>2. PICK i \in G!AllTransports: i = th[t].tr
  BY <1>1
<1>3. /\ th' \in [Callers -> Doing] /\ Rest(t) /\ th'[t].at = "hang up"
      /\ th'[t].op = th[t].op /\ th'[t].then = th[t].then /\ th'[t].back = th[t].back
      /\ th'[t].tr = th[t].tr /\ th'[t].of = th[t].of
      /\ th'[t].be = th[t].be /\ th'[t].caps = th[t].caps /\ th'[t].conn = th[t].conn
  <2>1. "hang up" \in CallPlaces /\ G!Goes(t, "hang up")
    BY DEF CallPlaces, Requesting, Shutting, G!DropDomain
  <2> QED
    BY <1>1, <2>1, GoesOn
<1>4. \A u \in Callers \ {t}: th'[u] = th[u]
  BY <1>3 DEF Rest
<1>5. /\ domain' = [domain EXCEPT ![i] = 0]
      /\ torn' = {} => torn = {} /\ connLock[i] = 0
  BY <1>2 DEF G!DropDomain
<1>6. HostOwn'
  <2>1. /\ th'[t].at \in Requesting /\ th'[t].at \in OnWire /\ th'[t].at \in Shutting
        /\ th'[t].at \notin {"bind", "bound"}
    BY <1>3 DEF Requesting, Shutting, OnWire
  <2> QED
    BY <1>0, <1>3, <2>1, RequestMoves
<1>7. WireTyped'
  <2>1. 0 \in 0 .. dialled
    BY <1>1 DEF WireTyped
  <2> QED
    BY <1>0, <1>1, <1>5, <2>1 DEF WireTyped
<1>8. JoinOwn'
  <2> SUFFICES ASSUME NEW j \in G!AllTransports, NEW u \in Callers, connLock'[j] = u
               PROVE  th'[u].at \in {"bind", "bound"} /\ th'[u].tr = j
    BY DEF JoinOwn
  <2>1. th[u].at \in {"bind", "bound"} /\ th[u].tr = j
    BY <1>0, <1>1 DEF JoinOwn
  <2>2. u # t
    BY <1>0, <2>1
  <2> QED
    BY <1>4, <2>1, <2>2
<1>9. Wired'
  <2> SUFFICES ASSUME torn' = {}, kind' = "libvirt", NEW j \in G!AllTransports, connLock'[j] = 0,
                      domain'[j] = 0
               PROVE  conn'[j] = 0
    BY DEF Wired
  <2>1. CASE j = i
    BY <1>0, <1>1, <1>2, <1>5, <2>1 DEF Joins
  <2>2. CASE j # i
    <3>1. domain[j] = 0
      BY <1>1, <1>5, <2>2 DEF WireTyped
    <3> QED
      BY <1>0, <1>1, <1>5, <3>1 DEF Wired
  <2> QED
    BY <2>1, <2>2
<1>10. \A u \in Callers: Joins(u)'
  <2>1. Joins(t)'
    BY <1>0, <1>1, <1>3 DEF Joins
  <2>2. ASSUME NEW u \in Callers \ {t} PROVE Joins(u)'
    <3>1. Joins(u) /\ th'[u] = th[u]
      BY <1>1, <1>4
    <3> QED
      BY <1>0, <1>5, <3>1 DEF Joins
  <2> QED
    BY <2>1, <2>2
<1>11. \A u \in Callers: th'[u].conn \in 0 .. dialled' /\ Shuts(u)'
  <2>1. th'[t].conn \in 0 .. dialled' /\ Shuts(t)'
    <3>1. Shuts(t) /\ th[t].conn \in 0 .. dialled
      BY <1>1
    <3> QED
      BY <1>0, <1>3, <1>5, <3>1 DEF Shuts, Shutting, Overtaken
  <2>2. ASSUME NEW u \in Callers \ {t} PROVE th'[u].conn \in 0 .. dialled' /\ Shuts(u)'
    <3>1. th'[u] = th[u] /\ th[u].conn \in 0 .. dialled /\ Shuts(u)
      BY <1>1, <1>4
    <3> QED
      BY <1>0, <1>5, <3>1 DEF Shuts, Overtaken
  <2> QED
    BY <2>1, <2>2
<1>12. OpenOwn'
  <2>1. /\ OpenOwn /\ WireTyped /\ GuestBounds /\ Rest(t)
        /\ torn' = {} => torn = {}
    BY <1>1, <1>3, <1>5
  <2> QED
    BY <1>0, <1>3, <2>1, OpenMoves
<1> QED
  BY <1>6, <1>7, <1>8, <1>9, <1>10, <1>11, <1>12 DEF GuestInv, WireOwn

LEMMA HangUpStep ==
  ASSUME GuestInv, NEW t \in Callers, G!HangUp(t)
  PROVE  GuestInv'
<1>0. /\ th[t].at = "hang up" /\ th[t].at \in Requesting
      /\ UNCHANGED <<kind, transport, backends, connLock, conn, domain, dialled, torn>>
      /\ UNCHANGED <<overlapped, lost>> /\ UNCHANGED G!host
  BY DEF G!HangUp, G!At, Requesting, Shutting, G!host, G!history
<1>1. /\ HostTyped /\ GuestBounds /\ th \in [Callers -> Doing] /\ th[t] \in Doing
      /\ WireTyped /\ JoinOwn /\ Wired /\ OpenOwn
      /\ \A u \in Callers: th[u].conn \in 0 .. dialled /\ Joins(u) /\ Shuts(u) /\ Uses(u)
      /\ Stands(t) /\ th[t].tr \in G!AllTransports
  BY <1>0, Requests
<1>2. PICK i \in G!AllTransports: i = th[t].tr
  BY <1>1
<1>3. /\ th' \in [Callers -> Doing] /\ Rest(t) /\ th'[t].at = "dropped"
      /\ th'[t].op = th[t].op /\ th'[t].then = th[t].then /\ th'[t].back = th[t].back
      /\ th'[t].tr = th[t].tr /\ th'[t].of = th[t].of
      /\ th'[t].be = th[t].be /\ th'[t].caps = th[t].caps /\ th'[t].conn = 0
  <2> DEFINE r == [th[t] EXCEPT !.at = "dropped", !.conn = 0]
  <2>1. th' = [th EXCEPT ![t] = r]
    BY <1>1 DEF G!HangUp
  <2>2. "dropped" \in CallPlaces
    BY DEF CallPlaces, Requesting, Shutting
  <2>3. /\ r \in Doing /\ r.at = "dropped" /\ r.op = th[t].op /\ r.then = th[t].then
        /\ r.back = th[t].back /\ r.tr = th[t].tr /\ r.of = th[t].of /\ r.be = th[t].be
        /\ r.caps = th[t].caps /\ r.conn = 0
    BY <1>1, <2>2 DEF Doing
  <2> HIDE DEF r
  <2> QED
    BY <1>1, <2>1, <2>3 DEF Rest
<1>4. \A u \in Callers \ {t}: th'[u] = th[u]
  BY <1>3 DEF Rest
<1>5. opened' = opened \ {th[t].conn}
  BY DEF G!HangUp
<1>6. HostOwn'
  <2>1. /\ th'[t].at \in Requesting /\ th'[t].at \in Shutting
        /\ th'[t].at \notin {"bind", "bound"}
    BY <1>3 DEF Requesting, Shutting
  <2> QED
    BY <1>0, <1>3, <2>1, RequestMoves
<1>7. WireTyped' /\ Wired'
  BY <1>0, <1>1, <1>5 DEF WireTyped, Wired
<1>8. JoinOwn'
  <2> SUFFICES ASSUME NEW j \in G!AllTransports, NEW u \in Callers, connLock'[j] = u
               PROVE  th'[u].at \in {"bind", "bound"} /\ th'[u].tr = j
    BY DEF JoinOwn
  <2>1. th[u].at \in {"bind", "bound"} /\ th[u].tr = j
    BY <1>0, <1>1 DEF JoinOwn
  <2>2. u # t
    BY <1>0, <2>1
  <2> QED
    BY <1>4, <2>1, <2>2
<1>9. \A u \in Callers: Joins(u)'
  <2>1. Joins(t)'
    BY <1>3 DEF Joins
  <2>2. ASSUME NEW u \in Callers \ {t} PROVE Joins(u)'
    <3>1. Joins(u) /\ th'[u] = th[u]
      BY <1>1, <1>4
    <3> QED
      BY <1>0, <3>1 DEF Joins
  <2> QED
    BY <2>1, <2>2
<1>10. \A u \in Callers: th'[u].conn \in 0 .. dialled' /\ Shuts(u)'
  <2>1. th'[t].conn \in 0 .. dialled' /\ Shuts(t)'
    <3>1. Shuts(t) /\ 0 \in 0 .. dialled
      BY <1>1 DEF WireTyped
    <3> QED
      BY <1>0, <1>3, <3>1 DEF Shuts, Shutting, Overtaken
  <2>2. ASSUME NEW u \in Callers \ {t} PROVE th'[u].conn \in 0 .. dialled' /\ Shuts(u)'
    <3>1. th'[u] = th[u] /\ th[u].conn \in 0 .. dialled /\ Shuts(u)
      BY <1>1, <1>4
    <3> QED
      BY <1>0, <3>1 DEF Shuts, Overtaken
  <2> QED
    BY <2>1, <2>2
<1>11. OpenOwn'
  <2>1. \A c \in opened': c \in opened /\ th[t].conn # c /\ conn'[i] = conn[i]
    BY <1>0, <1>5
  <2>2. OpenOwn /\ WireTyped /\ GuestBounds /\ Rest(t)
    BY <1>1, <1>3
  <2> QED
    BY <1>0, <1>3, <2>1, <2>2, OpenMoves
<1> QED
  BY <1>6, <1>7, <1>8, <1>9, <1>10, <1>11 DEF GuestInv, WireOwn

LEMMA FramedStep ==
  ASSUME GuestInv, NEW t \in Callers, G!Framed(t)
  PROVE  GuestInv'
<1>0. /\ th[t].at = "execute" /\ th[t].at \in Requesting /\ th[t].at \notin OnWire
      /\ kind = "framed"
      /\ UNCHANGED <<kind, connLock, domain, overlapped, lost, torn>>
  BY DEF G!Framed, G!At, Requesting, Asking, OnWire, G!history
<1>1. /\ HostTyped /\ GuestBounds /\ th \in [Callers -> Doing] /\ th[t] \in Doing
      /\ WireTyped /\ JoinOwn /\ Wired /\ OpenOwn
      /\ \A u \in Callers: th[u].conn \in 0 .. dialled /\ Joins(u) /\ Shuts(u) /\ Uses(u)
      /\ Stands(t) /\ th[t].tr \in G!AllTransports
  BY <1>0, Requests
<1>2. th[t].op # "close" /\ th[t].conn = 0 /\ th[t].back # "none"
  BY <1>0, <1>1 DEF Stands, Shutting
<1>3. PICK i \in G!AllTransports: i = th[t].tr
  BY <1>1
<1>4. /\ HostOwn' /\ Settled(t) /\ UNCHANGED <<transport, backends>>
      /\ \/ conn[i] # 0 /\ UNCHANGED <<conn, opened, dialled>>
         \/ /\ conn[i] = 0 /\ dialled' = dialled + 1 /\ opened' = opened \cup {dialled + 1}
            /\ conn' = [conn EXCEPT ![i] = dialled + 1]
         \/ /\ opened' = opened \ {conn[i]} /\ conn' = [conn EXCEPT ![i] = 0] /\ dialled' = dialled
  <2>1. G!Answered(t) \/ G!Refused(t, "idle")
    BY DEF G!Framed
  <2>2. HostOwn' /\ Settled(t) /\ UNCHANGED <<transport, backends>>
    <3>1. CASE G!Refused(t, "idle")
      <4>1. /\ G!Fails(t, "idle")
            /\ UNCHANGED <<transport, built, commands, osInfo, backends, backend, maker, paths>>
        BY <3>1 DEF G!Refused
      <4> QED
        BY <1>0, <1>2, <4>1, RequestFails
    <3>2. CASE G!Answered(t)
      BY <1>0, <1>2, <3>2, RequestAnswered
    <3> QED
      BY <2>1, <3>1, <3>2
  <2>3. \/ conn[i] # 0 /\ UNCHANGED <<conn, opened, dialled>>
        \/ /\ conn[i] = 0 /\ dialled' = dialled + 1 /\ opened' = opened \cup {dialled + 1}
           /\ conn' = [conn EXCEPT ![i] = dialled + 1]
        \/ /\ opened' = opened \ {conn[i]} /\ conn' = [conn EXCEPT ![i] = 0] /\ dialled' = dialled
    BY <1>3 DEF G!Framed, G!Dial
  <2> QED
    BY <2>2, <2>3
<1>5. /\ th' \in [Callers -> Doing] /\ Rest(t) /\ th'[t].op # "close" /\ th'[t].conn = 0
      /\ th'[t].at \notin OnWire
      /\ \A u \in Callers \ {t}: th'[u] = th[u]
  BY <1>4 DEF Settled, Rest
<1>6. CASE UNCHANGED <<conn, opened, dialled>>
  <2>1. UNCHANGED G!wire
    BY <1>0, <1>6 DEF G!wire
  <2> QED
    BY <1>0, <1>2, <1>4, <2>1, SettledKeeps
<1>7. CASE \E c: /\ conn' = [conn EXCEPT ![i] = c] /\ c \in 0 .. dialled'
                 /\ c # 0 => conn[i] = 0 /\ c = dialled + 1 /\ dialled' = dialled + 1
                                         /\ opened' = opened \cup {c}
                 /\ c = 0 => dialled' = dialled /\ opened' = opened \ {conn[i]}
  <2>1. PICK c: /\ conn' = [conn EXCEPT ![i] = c] /\ c \in 0 .. dialled'
                /\ c # 0 => conn[i] = 0 /\ c = dialled + 1 /\ dialled' = dialled + 1
                                        /\ opened' = opened \cup {c}
                /\ c = 0 => dialled' = dialled /\ opened' = opened \ {conn[i]}
    BY <1>7
  <2>2. /\ dialled \in Nat /\ dialled' \in Nat /\ dialled' >= dialled
        /\ (\A d \in 0 .. dialled: d \in 0 .. dialled') /\ opened \subseteq 1 .. dialled
        /\ opened' \subseteq 1 .. dialled' /\ 0 \in 0 .. dialled'
    <3>1. dialled \in Nat /\ opened \subseteq 1 .. dialled
      BY <1>1 DEF WireTyped
    <3>2. CASE c = 0
      <4>1. dialled' = dialled /\ opened' \subseteq opened
        BY <2>1, <3>2
      <4> QED
        BY <3>1, <4>1
    <3>3. CASE c # 0
      <4>1. dialled' = dialled + 1 /\ opened' = opened \cup {dialled + 1}
        BY <2>1, <3>3
      <4> QED
        BY <3>1, <4>1
    <3> QED
      BY <3>2, <3>3
  <2>3. \A j \in G!AllTransports \ {i}: conn'[j] = conn[j]
    BY <1>1, <2>1 DEF WireTyped
  <2>4. conn'[i] = c
    BY <1>1, <2>1 DEF WireTyped
  <2>5. WireTyped'
    BY <1>0, <1>1, <2>1, <2>2 DEF WireTyped
  <2>6. JoinOwn'
    <3> SUFFICES ASSUME NEW j \in G!AllTransports, NEW u \in Callers, connLock'[j] = u
                 PROVE  th'[u].at \in {"bind", "bound"} /\ th'[u].tr = j
      BY DEF JoinOwn
    <3>1. th[u].at \in {"bind", "bound"} /\ th[u].tr = j
      BY <1>0, <1>1 DEF JoinOwn
    <3>2. u # t
      BY <1>0, <3>1
    <3> QED
      BY <1>5, <3>1, <3>2
  <2>7. Wired'
    BY <1>0 DEF Wired
  <2>8. \A u \in Callers: Joins(u)'
    <3>1. Joins(t)'
      BY <1>5 DEF Joins, OnWire
    <3>2. ASSUME NEW u \in Callers \ {t} PROVE Joins(u)'
      <4>1. Joins(u) /\ th'[u] = th[u]
        BY <1>1, <1>5
      <4> QED
        BY <1>0, <4>1 DEF Joins
    <3> QED
      BY <3>1, <3>2
  <2>9. \A u \in Callers: th'[u].conn \in 0 .. dialled' /\ Shuts(u)'
    <3>1. /\ th'[t].conn \in 0 .. dialled' /\ Uses(t)
          /\ \A u \in Callers: th[u].conn \in 0 .. dialled /\ Shuts(u)
      BY <1>1, <1>5, <2>2
    <3> QED
      BY <1>0, <1>1, <1>2, <1>3, <1>4, <1>5, <2>2, <2>3, <3>1, ConnectsOvertaken
  <2>10. OpenOwn'
    <3>1. i = transport \/ Overtaken(i)
      BY <1>0, <1>1, <1>2, <1>3 DEF Uses, Overtaken
    <3>2. ASSUME NEW e \in opened'
          PROVE  \/ G!Owned(e)' \/ (conn'[i] = e /\ Overtaken(i))
                 \/ /\ e \in opened /\ (conn[i] # e \/ conn'[i] = e)
                    /\ th[t].conn # e \/ th'[t].conn = e
      <4>1. CASE e = c /\ c # 0
        BY <1>4, <2>4, <3>1, <4>1 DEF G!Owned
      <4>2. CASE ~(e = c /\ c # 0)
        <5>1. e \in opened /\ e # 0
          <6>1. e \in opened
            BY <2>1, <4>2
          <6> QED
            BY <2>2, <6>1
        <5>2. conn[i] # e
          BY <2>1, <5>1
        <5> QED
          BY <1>2, <5>1, <5>2
      <4> QED
        BY <4>1, <4>2
    <3>3. OpenOwn /\ WireTyped /\ GuestBounds /\ Rest(t)
      BY <1>1, <1>5
    <3>4. /\ UNCHANGED <<transport, backends, overlapped, lost>> /\ th[t].op # "close"
          /\ torn' = {} => torn = {}
      BY <1>0, <1>2, <1>4
    <3> QED
      BY <2>3, <3>2, <3>3, <3>4, OpenMoves
  <2> QED
    BY <1>4, <2>5, <2>6, <2>7, <2>8, <2>9, <2>10 DEF GuestInv, WireOwn
<1> QED
  <2>1. dialled \in Nat /\ dialled + 1 \in 0 .. dialled + 1 /\ 0 \in 0 .. dialled
        /\ dialled + 1 # 0
    BY <1>1 DEF WireTyped
  <2> QED
    BY <1>4, <1>6, <1>7, <2>1

LEMMA ProviderStep ==
  ASSUME GuestInv, NEW t \in Callers, G!Provider(t)
  PROVE  GuestInv'
<1>0. /\ HostOwn /\ HostTyped /\ th \in [Callers -> Doing] /\ th[t] \in Doing /\ Stands(t)
      /\ th[t].tr \in 0 .. built /\ th[t].of \in 0 .. built /\ th[t].be \in 0 .. Len(backends)
      /\ G!DiscoveredWhole
      /\ overlapped = {} => Equipped /\ Finds(t)
      /\ ~Holding(t) => holder # t
  BY Knows DEF GuestInv
<1>1. th[t].at = "provider" /\ th[t].op # "close" /\ th[t].conn = 0
  BY <1>0 DEF G!Provider, G!At, Stands, Shutting
<1>2. th[t].at \notin OnWire /\ holder # t
  BY <1>0, <1>1 DEF OnWire, Holding, Discovers, Requesting, Asking, Shutting
<1>3. /\ UNCHANGED <<kind, holder, transport, built, commands, osInfo, helper, backends, backend>>
      /\ UNCHANGED <<paths, G!wire, overlapped, lost, torn>> /\ maker' = th[t].be
  BY DEF G!Provider, G!history
<1>4. overlapped = {} => th[t].be # 0
  BY <1>0, <1>1 DEF Finds
<1>5. /\ osInfo' \in BOOLEAN /\ helper' \in {"unprobed", "none", "some"} /\ G!DiscoveredWhole'
      /\ maker' \in 0 .. Len(backends) /\ paths' \subseteq 1 .. Len(backends)
      /\ overlapped = {} /\ maker # 0 => maker' # 0
      /\ 0 \in 0 .. built /\ 0 \in 0 .. Len(backends)
      /\ holder' = holder /\ commands' = commands
  BY <1>0, <1>3, <1>4 DEF HostTyped, G!DiscoveredWhole
<1>6. CASE th[t].be = 0
  <2>0. G!Ends(t, "refused") /\ "refused" \in Ended
    BY <1>6 DEF G!Provider, Ended
  <2>1. /\ th' \in [Callers -> Doing] /\ Rest(t) /\ th'[t].at = "refused" /\ th'[t].op = "none"
        /\ th'[t].tr = 0 /\ th'[t].of = 0 /\ th'[t].be = 0 /\ th'[t].conn = 0
    BY <1>0, <2>0, IsOver
  <2>2. /\ Stands(t)' /\ Uses(t)'
        /\ overlapped = {} => Finds(t)'
    BY <1>4, <1>6, <2>0, <2>1, OverOwn
  <2>3. /\ th'[t].tr \in 0 .. built /\ th'[t].of \in 0 .. built /\ th'[t].be \in 0 .. Len(backends)
    BY <1>5, <2>1
  <2>4. HostOwn'
    BY <1>0, <1>2, <1>3, <1>5, <2>1, <2>2, <2>3, HostMoves
  <2>5. Settled(t)
    BY <2>1 DEF Settled, OnWire, Shutting
  <2> QED
    BY <1>1, <1>2, <1>3, <2>4, <2>5, SettledKeeps
<1>7. CASE th[t].be # 0
  <2>0. G!Goes(t, "probe") /\ "probe" \in CallPlaces
    BY <1>7 DEF G!Provider, CallPlaces
  <2>1. /\ th' \in [Callers -> Doing] /\ Rest(t) /\ th'[t].at = "probe" /\ th'[t].op = th[t].op
        /\ th'[t].tr = th[t].tr /\ th'[t].of = th[t].of /\ th'[t].be = th[t].be
        /\ th'[t].conn = 0
    BY <1>0, <1>1, <2>0, GoesOn
  <2>2. Stands(t)' /\ Uses(t)'
    BY <1>1, <2>1 DEF Stands, Uses, Assembling, Discovers, Probing, Requesting, Asking, Shutting
  <2>3. overlapped = {} => Finds(t)'
    BY <1>0, <1>1, <1>3, <1>7, <2>1 DEF Finds, Probing, Requesting, Asking, Shutting
  <2>4. /\ th'[t].tr \in 0 .. built /\ th'[t].of \in 0 .. built /\ th'[t].be \in 0 .. Len(backends)
    BY <1>0, <2>1
  <2>5. HostOwn'
    BY <1>0, <1>2, <1>3, <1>5, <2>1, <2>2, <2>3, <2>4, HostMoves
  <2>6. Settled(t)
    BY <1>1, <2>1 DEF Settled, OnWire, Shutting
  <2> QED
    BY <1>1, <1>2, <1>3, <2>5, <2>6, SettledKeeps
<1> QED
  BY <1>6, <1>7

LEMMA MakeStep ==
  ASSUME GuestInv, NEW t \in Callers, G!Make(t)
  PROVE  GuestInv'
<1>0. /\ HostOwn /\ HostTyped /\ th \in [Callers -> Doing] /\ Stands(t)
      /\ G!DiscoveredWhole
      /\ overlapped = {} => Equipped /\ Finds(t)
      /\ ~Holding(t) => holder # t
  BY Knows DEF GuestInv
<1>1. th[t].at = "make" /\ th[t].op # "close" /\ th[t].conn = 0
  BY <1>0 DEF G!Make, G!At, Stands, Shutting
<1>2. th[t].at \notin OnWire /\ holder # t
  BY <1>0, <1>1 DEF OnWire, Holding, Discovers, Requesting, Asking, Shutting
<1>3. /\ UNCHANGED <<kind, holder, transport, built, commands, osInfo, helper, backends, backend>>
      /\ UNCHANGED <<maker, G!wire, overlapped, lost, torn>>
  BY DEF G!Make, G!history
<1>4. overlapped = {} => maker # 0 /\ backend # 0
  BY <1>0, <1>1 DEF Finds
<1>5. PICK how \in {"idle", "crashed"}: G!Ends(t, how) /\ (overlapped = {} => how = "idle")
  BY <1>4 DEF G!Make
<1>6. paths' \subseteq 1 .. Len(backends)
  <2>1. paths \subseteq 1 .. Len(backends) /\ backend \in 0 .. Len(backends)
    BY <1>0 DEF HostTyped
  <2>2. paths' = paths \/ (backend # 0 /\ paths' = paths \cup {backend})
    BY DEF G!Make
  <2>3. CASE backend # 0 /\ paths' = paths \cup {backend}
    <3>1. backend \in 1 .. Len(backends)
      BY <2>1, <2>3
    <3> QED
      BY <2>1, <2>3, <3>1
  <2> QED
    BY <2>1, <2>2, <2>3
<1>7. /\ osInfo' \in BOOLEAN /\ helper' \in {"unprobed", "none", "some"} /\ G!DiscoveredWhole'
      /\ maker' \in 0 .. Len(backends) /\ maker' = maker
      /\ 0 \in 0 .. built /\ 0 \in 0 .. Len(backends)
      /\ holder' = holder /\ commands' = commands
  BY <1>0, <1>3 DEF HostTyped, G!DiscoveredWhole
<1>8. /\ th' \in [Callers -> Doing] /\ Rest(t) /\ th'[t].at = how /\ th'[t].op = "none"
      /\ th'[t].tr = 0 /\ th'[t].of = 0 /\ th'[t].be = 0 /\ th'[t].conn = 0
  <2>1. how \in Ended
    BY DEF Ended
  <2> QED
    BY <1>0, <1>5, <2>1, IsOver
<1>9. /\ Stands(t)' /\ Uses(t)'
      /\ overlapped = {} => Finds(t)'
  BY <1>5, <1>8, OverOwn DEF Ended
<1>10. /\ th'[t].tr \in 0 .. built /\ th'[t].of \in 0 .. built /\ th'[t].be \in 0 .. Len(backends)
  BY <1>7, <1>8
<1>11. HostOwn'
  BY <1>0, <1>2, <1>3, <1>6, <1>7, <1>8, <1>9, <1>10, HostMoves
<1>12. Settled(t)
  BY <1>8 DEF Settled, OnWire, Shutting
<1> QED
  BY <1>1, <1>2, <1>3, <1>11, <1>12, SettledKeeps

(* What a call does with the transport that it obtains.                    *)
LEMMA ObtainsFor ==
  ASSUME GuestInv, NEW t \in Callers, NEW i \in Nat, i # 0, transport' = i,
         th[t].at \in {"obtain", "transport", "probing", "command"},
         transport = 0 \/ transport = i, UNCHANGED <<overlapped, backends, lost>>,
         CASE th[t].at = "obtain" -> G!Execute(t, i, "info")
           [] th[t].at = "command" -> G!Execute(t, i, "ran")
           [] th[t].at = "probing" -> G!Execute(t, i, "probed")
           [] OTHER -> th' = [th EXCEPT ![t].of = i, ![t].at = "connect", ![t].then = "commands"]
  PROVE  /\ Settled(t) /\ th'[t].tr \in {th[t].tr, i} /\ th'[t].of \in {th[t].of, i}
         /\ th'[t].be = th[t].be /\ Stands(t)' /\ Uses(t)'
         /\ (overlapped = {} => Finds(t)')
         /\ (Holding(t) => Holding(t)')
<1>0. /\ th \in [Callers -> Doing] /\ th[t] \in Doing /\ Stands(t) /\ Uses(t)
      /\ overlapped = {} => Finds(t)
  BY Knows
<1>1. th[t].op # "close" /\ th[t].conn = 0
  BY <1>0 DEF Stands, Shutting
<1>2. ASSUME NEW b \in {"info", "ran", "probed"}, G!Execute(t, i, b),
             \/ b = "info" /\ th[t].at = "obtain"
             \/ b = "ran" /\ th[t].at = "command"
             \/ b = "probed" /\ th[t].at = "probing"
      PROVE  /\ Settled(t) /\ th'[t].tr \in {th[t].tr, i} /\ th'[t].of \in {th[t].of, i}
             /\ th'[t].be = th[t].be /\ Stands(t)' /\ Uses(t)'
             /\ (overlapped = {} => Finds(t)')
             /\ (Holding(t) => Holding(t)')
  <2>1. /\ th' \in [Callers -> Doing] /\ Rest(t) /\ th'[t].at = "execute"
        /\ th'[t].op = th[t].op /\ th'[t].then = th[t].then /\ th'[t].back = b
        /\ th'[t].tr = i /\ th'[t].of = th[t].of /\ th'[t].be = th[t].be
        /\ th'[t].caps = th[t].caps /\ th'[t].conn = th[t].conn
    BY <1>0, <1>2, Executes
  <2>2. Settled(t)
    BY <1>1, <2>1 DEF Settled, OnWire, Shutting
  <2>3. Assembling(t)' => Assembling(t)
    BY <1>2, <2>1 DEF Assembling, Discovers, Probing, Discovering, Requesting, Asking, Shutting
  <2>4. th'[t].at \in Requesting /\ th'[t].at = "execute"
    BY <2>1 DEF Requesting, Asking
  <2>5. Discovers(t)' <=> th[t].at = "obtain"
    BY <1>2, <2>1, <2>4 DEF Discovers, Discovering
  <2>6. Stands(t)'
    BY <1>0, <1>1, <1>2, <2>1, <2>3, <2>4, <2>5 DEF Stands, Discovers
  <2>7. Uses(t)'
    <3>1. Assembling(t)' => (th'[t].of = transport' \/ th'[t].of \in overlapped')
      BY <1>0, <2>1, <2>3 DEF Uses, Stands
    <3> QED
      BY <2>1, <3>1 DEF Uses
  <2>8. overlapped = {} => Finds(t)'
    BY <1>0, <1>2, <2>1, <2>4 DEF Finds, Probing
  <2>9. Holding(t) => Holding(t)'
    BY <1>1, <1>2, <2>5 DEF Holding, Discovers, Requesting, Asking, Shutting
  <2> QED
    BY <2>1, <2>2, <2>6, <2>7, <2>8, <2>9
<1>3. CASE th[t].at = "transport"
  <2> DEFINE r == [th[t] EXCEPT !.of = i, !.at = "connect", !.then = "commands"]
  <2>1. th' = [th EXCEPT ![t] = r]
    BY <1>0, <1>3
  <2>2. "connect" \in CallPlaces
    BY DEF CallPlaces
  <2>3. /\ r \in Doing /\ r.at = "connect" /\ r.op = th[t].op /\ r.then = "commands"
        /\ r.back = th[t].back /\ r.tr = th[t].tr /\ r.of = i /\ r.be = th[t].be
        /\ r.conn = th[t].conn
    BY <1>0, <2>2 DEF Doing
  <2> HIDE DEF r
  <2>4. /\ th' \in [Callers -> Doing] /\ Rest(t) /\ th'[t] = r
    BY <1>0, <2>1, <2>3 DEF Rest
  <2>5. Settled(t)
    BY <1>1, <2>3, <2>4 DEF Settled, OnWire, Shutting
  <2>6. Stands(t)' /\ Uses(t)' /\ Finds(t)'
    BY <1>1, <2>3, <2>4
       DEF Stands, Uses, Finds, Assembling, Discovers, Probing, Requesting, Asking, Shutting
  <2>7. ~Holding(t)
    BY <1>1, <1>3 DEF Holding, Discovers, Requesting, Asking, Shutting
  <2> QED
    BY <2>3, <2>4, <2>5, <2>6, <2>7
<1> QED
  BY <1>2, <1>3

LEMMA ObtainStep ==
  ASSUME GuestInv, NEW t \in Callers, G!Obtain(t)
  PROVE  GuestInv'
<1>0. /\ HostOwn /\ HostTyped /\ ThreadsTyped /\ BackendsOwn /\ LockOwn
      /\ G!DiscoveredWhole /\ Found
      /\ \A u \in Callers: Stands(u) /\ Uses(u)
      /\ th \in [Callers -> Doing] /\ Stands(t) /\ GuestBounds
      /\ th[t].tr \in 0 .. built /\ th[t].of \in 0 .. built /\ th[t].be \in 0 .. Len(backends)
      /\ ~Holding(t) => holder # t
  BY Knows DEF GuestInv, HostOwn
<1>1. /\ th[t].at \in {"obtain", "transport", "probing", "command"}
      /\ UNCHANGED <<kind, holder, commands, osInfo, helper, backends, backend, maker, paths>>
      /\ UNCHANGED <<G!wire, overlapped, lost, torn>>
  BY DEF G!Obtain, G!history
<1>2. th[t].op # "close" /\ th[t].at \notin OnWire
  BY <1>0, <1>1 DEF Stands, Shutting, OnWire
<1>3. transport \in 0 .. built /\ built \in 0 .. MaxTransports /\ MaxTransports \in Nat
  BY <1>0 DEF HostTyped, GuestBounds
<1>4. /\ transport' \in Nat /\ transport' # 0 /\ built' \in 0 .. MaxTransports
      /\ transport' \in 0 .. built'
      /\ \/ transport # 0 /\ transport' = transport /\ built' = built
         \/ transport = 0 /\ transport' = built + 1 /\ built' = built + 1
  BY <1>3 DEF G!Obtain
<1>5. /\ Settled(t) /\ th'[t].tr \in {th[t].tr, transport'} /\ th'[t].of \in {th[t].of, transport'}
      /\ th'[t].be = th[t].be /\ Stands(t)' /\ Uses(t)'
      /\ (overlapped = {} => Finds(t)')
      /\ (Holding(t) => Holding(t)')
  <2>1. PICK i \in Nat: i = transport'
    BY <1>4
  <2>2. (CASE th[t].at = "obtain" -> G!Execute(t, i, "info")
            [] th[t].at = "command" -> G!Execute(t, i, "ran")
            [] th[t].at = "probing" -> G!Execute(t, i, "probed")
            [] OTHER -> th' = [th EXCEPT ![t].of = i, ![t].at = "connect", ![t].then = "commands"])
    BY <2>1 DEF G!Obtain
  <2>3. i # 0 /\ (transport = 0 \/ transport = i)
    BY <1>4, <2>1
  <2> QED
    BY <1>1, <2>1, <2>2, <2>3, ObtainsFor
<1>6. /\ th' \in [Callers -> Doing] /\ Rest(t) /\ \A u \in Callers \ {t}: th'[u] = th[u]
  BY <1>5 DEF Settled, Rest
<1>7. \/ holder' = t /\ Holding(t)'
      \/ holder' = holder /\ holder # t
  BY <1>0, <1>1, <1>5
<1>8. /\ th'[t].tr \in 0 .. built' /\ th'[t].of \in 0 .. built' /\ th'[t].be \in 0 .. Len(backends)
  <2>1. th[t].tr \in 0 .. built' /\ th[t].of \in 0 .. built'
    BY <1>0, <1>3, <1>4
  <2> QED
    BY <1>0, <1>4, <1>5, <2>1
<1>9. CASE transport # 0
  <2>1. HostOwn'
    <3>1. osInfo' \in BOOLEAN /\ helper' \in {"unprobed", "none", "some"} /\ G!DiscoveredWhole'
      BY <1>0, <1>1 DEF HostTyped, G!DiscoveredWhole
    <3>2. /\ UNCHANGED <<kind, transport, built, backends, backend, maker, paths>>
          /\ UNCHANGED <<overlapped, lost>> /\ commands' = commands
      BY <1>1, <1>4, <1>9
    <3>3. /\ th'[t].tr \in 0 .. built /\ th'[t].of \in 0 .. built
          /\ th'[t].be \in 0 .. Len(backends)
      BY <1>8, <3>2
    <3> QED
      BY <1>0, <1>5, <1>6, <1>7, <3>1, <3>2, <3>3, HostStill
  <2>2. transport' = transport
    BY <1>4, <1>9
  <2> QED
    BY <1>1, <1>2, <1>5, <2>1, <2>2, SettledKeeps
<1>10. CASE transport = 0
  <2>0. transport' = built + 1 /\ built' = built + 1 /\ built \in Nat
    BY <1>3, <1>4, <1>10
  <2>1. HostTyped'
    BY <1>0, <1>1, <1>4 DEF HostTyped, GuestBounds
  <2>2. ThreadsTyped'
    <3> SUFFICES ASSUME NEW u \in Callers
                 PROVE  /\ th'[u].tr \in 0 .. built' /\ th'[u].of \in 0 .. built'
                        /\ th'[u].be \in 0 .. Len(backends')
      BY <1>6 DEF ThreadsTyped
    <3>1. CASE u = t
      BY <1>1, <1>8, <3>1
    <3>2. CASE u # t
      <4>1. /\ th'[u] = th[u] /\ th[u].tr \in 0 .. built /\ th[u].of \in 0 .. built
            /\ th[u].be \in 0 .. Len(backends)
        BY <1>0, <1>6, <3>2 DEF ThreadsTyped
      <4> QED
        BY <1>1, <2>0, <4>1
    <3> QED
      BY <3>1, <3>2
  <2>3. BackendsOwn'
    <3>1. ASSUME NEW b \in 1 .. Len(backends')
          PROVE  /\ backends'[b].tr \in 1 .. built'
                 /\ ~backends'[b].closed => (b = backend' \/ b \in lost')
      <4>1. /\ b \in 1 .. Len(backends) /\ backends[b].tr \in 1 .. built
            /\ ~backends[b].closed => (b = backend \/ b \in lost)
        BY <1>0, <1>1 DEF BackendsOwn
      <4>2. backends[b].tr \in 1 .. built + 1
        BY <2>0, <4>1
      <4> QED
        BY <1>1, <2>0, <4>1, <4>2
    <3>2. ASSUME backend' # 0 PROVE backends'[backend'].tr \in overlapped'
      <4>1. backend \in 1 .. Len(backends)
        BY <1>0, <1>1, <3>2 DEF HostTyped
      <4>2. backends[backend].tr # 0
        BY <1>0, <2>0, <4>1 DEF BackendsOwn
      <4> QED
        BY <1>0, <1>1, <1>10, <3>2, <4>2 DEF BackendsOwn
    <3> QED
      BY <3>1, <3>2 DEF BackendsOwn
  <2>4. LockOwn'
    <3> SUFFICES ASSUME NEW u \in Callers, holder' = u PROVE Holding(u)'
      BY DEF LockOwn
    <3>1. CASE u = t
      BY <1>7, <3>1
    <3>2. CASE u # t
      <4>1. Holding(u) /\ th'[u] = th[u]
        BY <1>0, <1>1, <1>6, <3>2 DEF LockOwn
      <4> QED
        BY <4>1 DEF Holding, Discovers
    <3> QED
      BY <3>1, <3>2
  <2>5. G!DiscoveredWhole'
    BY <1>0, <1>1 DEF G!DiscoveredWhole
  <2>6. Found'
    <3> SUFFICES ASSUME overlapped' = {} PROVE Equipped' /\ \A u \in Callers: Finds(u)'
      BY DEF Found
    <3>1. Equipped /\ \A u \in Callers: Finds(u)
      BY <1>0, <1>1 DEF Found
    <3>2. Equipped'
      BY <1>1, <1>4, <3>1 DEF Equipped
    <3>3. ASSUME NEW u \in Callers \ {t} PROVE Finds(u)'
      <4>1. th'[u] = th[u] /\ Finds(u)
        BY <1>6, <3>1
      <4> QED
        BY <1>1, <4>1 DEF Finds, Probing
    <3> QED
      BY <1>1, <1>5, <3>2, <3>3
  <2>7. \A u \in Callers: Stands(u)' /\ Uses(u)'
    <3> SUFFICES ASSUME NEW u \in Callers \ {t} PROVE Stands(u)' /\ Uses(u)'
      BY <1>5
    <3>1. th'[u] = th[u] /\ Stands(u) /\ Uses(u)
      BY <1>0, <1>6
    <3>2. Stands(u)'
      BY <3>1 DEF Stands, Assembling, Discovers, Probing
    <3>3. /\ th[u].at \in Requesting => th[u].tr # transport
          /\ Assembling(u) => th[u].of # transport
      BY <1>10, <3>1 DEF Stands
    <3>4. Uses(u)'
      BY <1>1, <3>1, <3>3 DEF Uses, Assembling, Discovers, Probing, Overtaken
    <3> QED
      BY <3>2, <3>4
  <2>8. HostOwn'
    BY <2>1, <2>2, <2>3, <2>4, <2>5, <2>6, <2>7 DEF HostOwn
  <2>9. \A i \in Nat: Overtaken(i) => Overtaken(i)'
    BY <1>1 DEF Overtaken
  <2>10. ASSUME NEW u \in Callers \ {t} PROVE th[u].tr # transport'
    <3>1. th[u].tr \in 0 .. built
      BY <1>0 DEF ThreadsTyped
    <3> QED
      BY <2>0, <3>1
  <2> QED
    BY <1>1, <1>2, <1>5, <1>10, <2>8, <2>9, <2>10, HostSettles
<1> QED
  BY <1>9, <1>10

LEMMA StoreStep ==
  ASSUME GuestInv, NEW t \in Callers, G!Store(t)
  PROVE  GuestInv'
<1>0. /\ HostOwn /\ HostTyped /\ ThreadsTyped /\ BackendsOwn /\ LockOwn
      /\ G!DiscoveredWhole /\ Found
      /\ \A u \in Callers: Stands(u) /\ Uses(u)
      /\ th \in [Callers -> Doing] /\ th[t] \in Doing /\ Stands(t) /\ Uses(t) /\ GuestBounds
      /\ th[t].tr \in 0 .. built /\ th[t].of \in 0 .. built /\ th[t].be \in 0 .. Len(backends)
      /\ overlapped = {} => Equipped /\ Finds(t)
      /\ ~Holding(t) => holder # t
  BY Knows DEF GuestInv, HostOwn
<1>1. /\ th[t].at = "store"
      /\ UNCHANGED <<kind, holder, transport, built, commands, osInfo, helper, maker, paths>>
      /\ UNCHANGED <<G!wire, overlapped, torn>>
  BY DEF G!Store, G!At
<1>2. th[t].op # "close" /\ th[t].conn = 0 /\ th[t].at \notin OnWire /\ Assembling(t)
  BY <1>0, <1>1 DEF Stands, Shutting, OnWire, Assembling
<1>3. ~Holding(t) /\ holder # t
  BY <1>0, <1>1, <1>2 DEF Holding, Discovers, Requesting, Asking, Shutting
<1>4. th[t].of # 0 /\ (th[t].of = transport \/ th[t].of \in overlapped)
  BY <1>0, <1>2 DEF Stands, Uses
<1>5. PICK n \in Nat: n = Len(backends)
  BY <1>0 DEF HostTyped
<1>6. PICK m \in Made: /\ m.tr = th[t].of /\ m.caps = th[t].caps /\ backends' = Append(backends, m)
  <2>1. [tr |-> th[t].of, helps |-> th[t].helps, caps |-> th[t].caps, closed |-> FALSE] \in Made
    BY <1>0 DEF Doing, Made
  <2> QED
    BY <2>1 DEF G!Store
<1>7. /\ backends \in Seq(Made) /\ backends' \in Seq(Made) /\ Len(backends') = n + 1
      /\ \A b \in 1 .. n: backends'[b] = backends[b]
      /\ backends'[n + 1] = m
  BY <1>0, <1>5, <1>6, AppendProperties DEF HostTyped
<1>8. /\ backend' = n + 1 /\ backend \in 0 .. n
      /\ lost' = IF backend = 0 THEN lost ELSE lost \cup {backend}
      /\ lost \subseteq 1 .. n
  BY <1>0, <1>5, <1>7 DEF G!Store, HostTyped
<1>9. /\ lost \subseteq lost' /\ lost' \subseteq 1 .. n
      /\ backend # 0 => backend \in lost'
  <2>1. CASE backend = 0
    BY <1>8, <2>1
  <2>2. CASE backend # 0
    <3>1. backend \in 1 .. n
      BY <1>8, <2>2
    <3> QED
      BY <1>8, <2>2, <3>1
  <2> QED
    BY <2>1, <2>2
<1>10. /\ th' \in [Callers -> Doing] /\ Rest(t) /\ th'[t].at = "take" /\ th'[t].back = "none"
       /\ th'[t].op = th[t].op /\ th'[t].then = th[t].then /\ th'[t].tr = th[t].tr
       /\ th'[t].of = th[t].of /\ th'[t].be = th[t].be /\ th'[t].conn = 0
  <2>1. th' = [th EXCEPT ![t] = [th[t] EXCEPT !.at = "take", !.back = "none"]]
    BY <1>0 DEF G!Store
  <2>2. "take" \in CallPlaces
    BY DEF CallPlaces
  <2>3. [th[t] EXCEPT !.at = "take", !.back = "none"] \in Doing
    BY <1>0, <2>2 DEF Doing
  <2> QED
    BY <1>0, <1>2, <2>1, <2>3 DEF Rest, Doing
<1>11. \A u \in Callers \ {t}: th'[u] = th[u]
  BY <1>10 DEF Rest
<1>12. Settled(t)
  BY <1>2, <1>10 DEF Settled, OnWire, Shutting
<1>13. \A i: Overtaken(i) => Overtaken(i)'
  <2> SUFFICES ASSUME NEW i, NEW b \in lost, backends[b].tr = i
               PROVE  \E c \in lost': backends'[c].tr = i
    BY <1>1 DEF Overtaken
  <2>1. b \in lost' /\ b \in 1 .. n
    BY <1>9
  <2> QED
    BY <1>7, <2>1
<1>14. HostTyped'
  <2>1. /\ n + 1 \in 0 .. n + 1 /\ 0 .. n \subseteq 0 .. n + 1 /\ 1 .. n \subseteq 1 .. n + 1
    OBVIOUS
  <2>2. /\ maker \in 0 .. n /\ paths \subseteq 1 .. n
    BY <1>0, <1>5 DEF HostTyped
  <2>3. /\ maker' \in 0 .. Len(backends') /\ paths' \subseteq 1 .. Len(backends')
        /\ backend' \in 0 .. Len(backends') /\ lost' \subseteq 1 .. Len(backends')
    BY <1>1, <1>7, <1>8, <1>9, <2>1, <2>2
  <2> QED
    BY <1>0, <1>1, <1>7, <2>3 DEF HostTyped, GuestBounds
<1>15. ThreadsTyped'
  <2> SUFFICES ASSUME NEW u \in Callers
               PROVE  /\ th'[u].tr \in 0 .. built' /\ th'[u].of \in 0 .. built'
                      /\ th'[u].be \in 0 .. n + 1
    BY <1>7, <1>10 DEF ThreadsTyped
  <2>1. /\ th'[u].tr = th[u].tr /\ th'[u].of = th[u].of /\ th'[u].be = th[u].be
    BY <1>10, <1>11
  <2>2. /\ th[u].tr \in 0 .. built /\ th[u].of \in 0 .. built /\ th[u].be \in 0 .. n
    BY <1>0, <1>5 DEF ThreadsTyped
  <2> QED
    BY <1>1, <2>1, <2>2
<1>16. BackendsOwn'
  <2>1. ASSUME NEW b \in 1 .. n
        PROVE  /\ backends'[b].tr \in 1 .. built'
               /\ ~backends'[b].closed => (b = backend' \/ b \in lost')
    <3>1. /\ backends[b].tr \in 1 .. built /\ (~backends[b].closed => (b = backend \/ b \in lost))
      BY <1>0, <1>5 DEF BackendsOwn
    <3>2. b = backend => b \in lost'
      BY <1>9
    <3> QED
      BY <1>1, <1>7, <1>9, <3>1, <3>2
  <2>2. backends'[n + 1].tr \in 1 .. built'
    BY <1>0, <1>1, <1>4, <1>6, <1>7 DEF HostTyped
  <2>3. backends'[backend'].tr = transport' \/ backends'[backend'].tr \in overlapped'
    BY <1>1, <1>4, <1>6, <1>7, <1>8
  <2>4. \A b \in 1 .. Len(backends'): b \in 1 .. n \/ b = n + 1
    BY <1>7
  <2> QED
    BY <1>8, <2>1, <2>2, <2>3, <2>4 DEF BackendsOwn
<1>17. LockOwn'
  <2> SUFFICES ASSUME NEW u \in Callers, holder' = u PROVE Holding(u)'
    BY DEF LockOwn
  <2>1. u # t /\ Holding(u) /\ th'[u] = th[u]
    BY <1>0, <1>1, <1>3, <1>11 DEF LockOwn
  <2> QED
    BY <2>1 DEF Holding, Discovers
<1>18. G!DiscoveredWhole'
  BY <1>0, <1>1 DEF G!DiscoveredWhole
<1>19. Found'
  <2> SUFFICES ASSUME overlapped' = {} PROVE Equipped' /\ \A u \in Callers: Finds(u)'
    BY DEF Found
  <2>1. Equipped /\ \A u \in Callers: Finds(u)
    BY <1>0, <1>1 DEF Found
  <2>2. transport' # 0
    BY <1>1, <1>4
  <2>3. m.caps
    BY <1>1, <1>6, <2>1 DEF Finds
  <2>4. \A b \in 1 .. Len(backends'): b \in 1 .. n \/ b = n + 1
    BY <1>7
  <2>5. Equipped'
    BY <1>5, <1>7, <2>1, <2>2, <2>3, <2>4 DEF Equipped
  <2>6. backend' # 0
    BY <1>8
  <2>7. Finds(t)'
    BY <1>10, <2>6 DEF Finds, Probing, Requesting, Asking, Shutting
  <2>8. ASSUME NEW u \in Callers \ {t} PROVE Finds(u)'
    <3>1. th'[u] = th[u] /\ Finds(u)
      BY <1>11, <2>1
    <3> QED
      BY <1>1, <2>6, <3>1 DEF Finds, Probing
  <2> QED
    BY <2>5, <2>7, <2>8
<1>20. ASSUME NEW u \in Callers PROVE Stands(u)' /\ Uses(u)'
  <2>1. CASE u = t
    BY <1>2, <1>10, <2>1
       DEF Stands, Uses, Assembling, Discovers, Probing, Requesting, Asking, Shutting
  <2>2. CASE u # t
    <3>1. th'[u] = th[u] /\ Stands(u) /\ Uses(u)
      BY <1>0, <1>11, <2>2
    <3>2. Stands(u)'
      BY <3>1 DEF Stands, Assembling, Discovers, Probing
    <3>3. Overtaken(th[u].tr) => \A i: i = th[u].tr => Overtaken(i)'
      BY <1>13
    <3>4. Assembling(u)' => Assembling(u)
      BY <3>1 DEF Assembling, Discovers, Probing
    <3>5. \A i: i = th[u].tr /\ Overtaken(i)' => Overtaken(th[u].tr)'
      BY <3>1 DEF Overtaken
    <3>6. Uses(u)'
      BY <1>1, <3>1, <3>3, <3>4, <3>5 DEF Uses
    <3> QED
      BY <3>2, <3>6
  <2> QED
    BY <2>1, <2>2
<1>21. HostOwn'
  BY <1>14, <1>15, <1>16, <1>17, <1>18, <1>19, <1>20 DEF HostOwn
<1> QED
  BY <1>1, <1>2, <1>12, <1>13, <1>21, HostSettles

(* `close` invalidates the backend that the host has.                      *)
LEMMA InvalidatesOne ==
  ASSUME backends \in Seq(Made)
  PROVE  /\ G!Invalidated \in Seq(Made) /\ Len(G!Invalidated) = Len(backends)
         /\ \A b \in 1 .. Len(backends):
               /\ G!Invalidated[b].tr = backends[b].tr /\ G!Invalidated[b].caps = backends[b].caps
               /\ G!Invalidated[b].closed = (backends[b].closed \/ b = backend)
<1>1. PICK n \in Nat: n = Len(backends) /\ DOMAIN backends = 1 .. n
  OBVIOUS
<1>2. \A b \in 1 .. n: backends[b] \in Made
  BY <1>1, ElementOfSeq
<1>3. ASSUME NEW b \in 1 .. n
      PROVE  /\ [backends[b] EXCEPT !.closed = @ \/ b = backend] \in Made
             /\ [backends[b] EXCEPT !.closed = @ \/ b = backend].tr = backends[b].tr
             /\ [backends[b] EXCEPT !.closed = @ \/ b = backend].caps = backends[b].caps
             /\ [backends[b] EXCEPT !.closed = @ \/ b = backend].closed
                   = (backends[b].closed \/ b = backend)
  BY <1>2 DEF Made
<1>4. G!Invalidated = [b \in 1 .. n |-> [backends[b] EXCEPT !.closed = @ \/ b = backend]]
  BY <1>1 DEF G!Invalidated
<1>5. G!Invalidated \in [1 .. n -> Made]
  BY <1>3, <1>4
<1>6. G!Invalidated \in Seq(Made) /\ Len(G!Invalidated) = n
  BY <1>5
<1> QED
  BY <1>1, <1>3, <1>4, <1>6

LEMMA CloseStep ==
  ASSUME GuestInv, NEW t \in Callers, G!Close(t)
  PROVE  GuestInv'
<1>0. /\ HostOwn /\ HostTyped /\ ThreadsTyped /\ BackendsOwn /\ LockOwn /\ Found /\ WireOwn
      /\ \A u \in Callers: Stands(u) /\ Uses(u)
      /\ th \in [Callers -> Doing] /\ th[t] \in Doing /\ Stands(t) /\ GuestBounds
      /\ th[t].of \in 0 .. built /\ th[t].be \in 0 .. Len(backends)
      /\ ~Holding(t) => holder # t
  BY Knows DEF GuestInv, HostOwn
<1>1. /\ th[t].at = "close" /\ commands' = FALSE /\ osInfo' = FALSE /\ helper' = "unprobed"
      /\ backends' = G!Invalidated /\ backend' = 0 /\ maker' = 0 /\ transport' = 0
      /\ UNCHANGED <<kind, built, paths, G!wire, lost, torn>>
      /\ overlapped \subseteq overlapped'
      /\ transport # 0 /\ (\E u \in Callers \ {t}: G!Busy(u)) => transport \in overlapped'
      /\ holder = 0 \/ holder = t
  BY DEF G!Close, G!At, G!CanLock
<1>2. th[t].op = "close" /\ th[t].tr = 0 /\ th[t].back = "none" /\ th[t].conn = 0
  BY <1>0, <1>1 DEF Stands
<1>3. th[t].at \notin OnWire /\ th[t].at \notin Requesting
  BY <1>1 DEF OnWire, Requesting, Asking, Shutting
<1>4. holder = 0
  BY <1>0, <1>1, <1>3 DEF Holding, Discovers, Requesting, Asking, Shutting
<1>5. transport \in 0 .. built /\ built \in 0 .. MaxTransports /\ MaxTransports \in Nat
  BY <1>0 DEF HostTyped, GuestBounds
<1>6. /\ backends' \in Seq(Made) /\ Len(backends') = Len(backends) /\ Len(backends) \in Nat
      /\ \A b \in 1 .. Len(backends):
            /\ backends'[b].tr = backends[b].tr /\ backends'[b].caps = backends[b].caps
            /\ ~backends'[b].closed => ~backends[b].closed /\ b # backend
  <2>1. backends \in Seq(Made) /\ Len(backends) \in Nat
    BY <1>0 DEF HostTyped
  <2>2. /\ G!Invalidated \in Seq(Made) /\ Len(G!Invalidated) = Len(backends)
        /\ \A b \in 1 .. Len(backends):
              /\ G!Invalidated[b].tr = backends[b].tr /\ G!Invalidated[b].caps = backends[b].caps
              /\ G!Invalidated[b].closed = (backends[b].closed \/ b = backend)
    BY <2>1, InvalidatesOne
  <2> HIDE DEF G!Invalidated
  <2> QED
    BY <1>1, <2>1, <2>2
<1>7. \/ transport = 0 /\ G!Ends(t, "idle") /\ holder' = 0
      \/ /\ transport # 0 /\ holder' = t
         /\ th' = [th EXCEPT ![t].tr = transport, ![t].at = "drop"]
  BY <1>4 DEF G!Close
<1>8. /\ th' \in [Callers -> Doing] /\ Rest(t) /\ th'[t].conn = 0 /\ th'[t].back = "none"
      /\ th'[t].tr = transport /\ th'[t].of \in {0, th[t].of} /\ th'[t].be \in {0, th[t].be}
      /\ \/ transport = 0 /\ th'[t].at = "idle" /\ th'[t].op = "none" /\ holder' = 0
         \/ transport # 0 /\ th'[t].at = "drop" /\ th'[t].op = "close" /\ holder' = t
  <2>1. CASE transport = 0 /\ G!Ends(t, "idle") /\ holder' = 0
    <3>1. "idle" \in Ended
      BY DEF Ended
    <3> QED
      BY <1>0, <2>1, <3>1, IsOver
  <2>2. CASE /\ transport # 0 /\ holder' = t
             /\ th' = [th EXCEPT ![t].tr = transport, ![t].at = "drop"]
    <3>1. th' = [th EXCEPT ![t] = [th[t] EXCEPT !.tr = transport, !.at = "drop"]]
      BY <1>0, <2>2
    <3>2. "drop" \in CallPlaces /\ transport \in Nat
      BY <1>5 DEF CallPlaces, Requesting, Shutting
    <3>3. [th[t] EXCEPT !.tr = transport, !.at = "drop"] \in Doing
      BY <1>0, <3>2 DEF Doing
    <3> QED
      BY <1>0, <1>2, <2>2, <3>1, <3>3, SMTT(30) DEF Rest, Doing
  <2> QED
    BY <1>7, <2>1, <2>2
<1>9. \A u \in Callers \ {t}: th'[u] = th[u]
  BY <1>8 DEF Rest
<1>10. \A i: Overtaken(i) => Overtaken(i)'
  <2>1. ASSUME NEW i, NEW b \in lost, backends[b].tr = i
        PROVE  \E c \in lost': backends'[c].tr = i
    <3>1. b \in lost' /\ b \in 1 .. Len(backends)
      BY <1>0, <1>1 DEF HostTyped
    <3> QED
      BY <1>6, <2>1, <3>1
  <2> QED
    BY <1>1, <2>1 DEF Overtaken
<1>11. HostTyped'
  <2>1. /\ holder' \in Callers \cup {0} /\ transport' \in 0 .. built'
        /\ built' \in 0 .. MaxTransports
        /\ backend' \in 0 .. Len(backends') /\ maker' \in 0 .. Len(backends')
    BY <1>1, <1>5, <1>6, <1>8
  <2>2. paths' \subseteq 1 .. Len(backends') /\ lost' \subseteq 1 .. Len(backends')
    BY <1>0, <1>1, <1>6 DEF HostTyped
  <2> QED
    BY <1>0, <1>1, <1>6, <2>1, <2>2 DEF HostTyped, GuestBounds
<1>12. ThreadsTyped'
  <2> SUFFICES ASSUME NEW u \in Callers
               PROVE  /\ th'[u].tr \in 0 .. built /\ th'[u].of \in 0 .. built
                      /\ th'[u].be \in 0 .. Len(backends)
    BY <1>1, <1>6, <1>8 DEF ThreadsTyped
  <2>1. CASE u = t
    BY <1>0, <1>5, <1>6, <1>8, <2>1
  <2>2. CASE u # t
    BY <1>0, <1>9, <2>2 DEF ThreadsTyped
  <2> QED
    BY <2>1, <2>2
<1>13. BackendsOwn'
  <2> SUFFICES ASSUME NEW b \in 1 .. Len(backends)
               PROVE  /\ backends'[b].tr \in 1 .. built
                      /\ ~backends'[b].closed => b \in lost
    BY <1>1, <1>6 DEF BackendsOwn
  <2>1. /\ backends[b].tr \in 1 .. built
        /\ ~backends[b].closed => (b = backend \/ b \in lost)
    BY <1>0 DEF BackendsOwn
  <2> QED
    BY <1>6, <2>1
<1>14. LockOwn'
  <2> SUFFICES ASSUME NEW u \in Callers, holder' = u PROVE Holding(u)'
    BY DEF LockOwn
  <2>1. u = t /\ th'[t].at = "drop" /\ th'[t].op = "close"
    BY <1>0, <1>8 DEF GuestBounds
  <2> QED
    BY <2>1 DEF Holding, Shutting
<1>15. G!DiscoveredWhole'
  BY <1>1 DEF G!DiscoveredWhole
<1>16. Found'
  <2> SUFFICES ASSUME overlapped' = {} PROVE Equipped' /\ \A u \in Callers: Finds(u)'
    BY DEF Found
  <2>1. Equipped /\ \A u \in Callers: Finds(u)
    BY <1>0, <1>1 DEF Found
  <2>2. Equipped'
    BY <1>1, <1>6, <2>1 DEF Equipped
  <2>3. Finds(t)'
    BY <1>8 DEF Finds, Probing
  <2>4. ASSUME NEW u \in Callers \ {t} PROVE Finds(u)'
    <3>1. th'[u] = th[u] /\ Finds(u)
      BY <1>9, <2>1
    <3>2. CASE transport = 0
      <4>1. ~commands /\ backend = 0
        BY <2>1, <3>2 DEF Equipped
      <4> QED
        BY <3>1, <4>1 DEF Finds, Probing
    <3>3. CASE transport # 0
      <4>1. ~G!Busy(u)
        BY <1>1, <3>3
      <4> QED
        BY <3>1, <4>1 DEF Finds, Probing, G!Busy, Requesting, Asking, Shutting
    <3> QED
      BY <3>2, <3>3
  <2> QED
    BY <2>2, <2>3, <2>4
<1>17. Stands(t)' /\ Uses(t)'
  BY <1>8 DEF Stands, Uses, Assembling, Discovers, Probing, Requesting, Asking, Shutting,
              Discovering
<1>18. ASSUME NEW u \in Callers PROVE Stands(u)' /\ Uses(u)'
  <2>1. CASE u = t
    BY <1>17, <2>1
  <2>2. CASE u # t
    <3>1. th'[u] = th[u] /\ Stands(u) /\ Uses(u)
      BY <1>0, <1>9, <2>2
    <3>2. Stands(u)'
      BY <3>1 DEF Stands, Assembling, Discovers, Probing
    <3>3. \A i: i = th[u].tr /\ Overtaken(i) => Overtaken(th[u].tr)'
      BY <1>10, <3>1 DEF Overtaken
    <3>4. Assembling(u)' => Assembling(u)
      BY <3>1 DEF Assembling, Discovers, Probing
    <3>5. (th[u].at \in Requesting \/ Assembling(u)) => G!Busy(u)
      BY DEF G!Busy, Assembling, Discovers, Probing, Requesting, Asking, Shutting
    <3>6. th[u].at \in Requesting => th[u].tr # 0
      BY <3>1 DEF Stands
    <3>7. Assembling(u) => th[u].of # 0
      BY <3>1 DEF Stands
    <3>8. th[u].at \in Requesting /\ th[u].tr = transport => th[u].tr \in overlapped'
      BY <1>1, <2>2, <3>5, <3>6
    <3>9. Assembling(u) => th[u].of \in overlapped'
      BY <1>1, <2>2, <3>1, <3>5, <3>7 DEF Uses
    <3>10. th[u].tr \in overlapped' => Overtaken(th[u].tr)'
      BY <3>1 DEF Overtaken
    <3>11. Uses(u)'
      BY <1>1, <3>1, <3>3, <3>4, <3>8, <3>9, <3>10 DEF Uses
    <3> QED
      BY <3>2, <3>11
  <2> QED
    BY <2>1, <2>2
<1>19. HostOwn'
  BY <1>11, <1>12, <1>13, <1>14, <1>15, <1>16, <1>18 DEF HostOwn
<1>20. CASE transport = 0
  <2>1. Settled(t)
    BY <1>8, <1>20 DEF Settled, OnWire, Shutting
  <2> QED
    BY <1>1, <1>3, <1>10, <1>19, <1>20, <2>1, HostSettles
<1>21. CASE transport # 0
  <2>1. th'[t].at = "drop" /\ th'[t].op = "close" /\ transport \in G!AllTransports
    BY <1>5, <1>8, <1>21 DEF G!AllTransports
  <2>2. Shuts(t)'
    BY <1>1, <1>8, <1>21, <2>1 DEF Shuts
  <2>3. ASSUME NEW i \in G!AllTransports, i = transport PROVE G!Closing(i)'
    BY <1>8, <2>1, <2>3 DEF G!Closing
  <2>4. \A u \in Callers \ {t}:
           th[u].tr \in G!AllTransports /\ th[u].tr # transport => th[u].tr # transport'
    BY <1>0, <1>1, ATransport
  <2>5. /\ th[t].at \notin {"bind", "bound", "drop domain", "hang up"}
        /\ th'[t].at \notin {"bind", "bound", "drop domain", "hang up"}
    BY <1>1, <2>1
  <2>6. WireOwn'
    BY <1>0, <1>1, <1>2, <1>8, <1>10, <2>2, <2>3, <2>4, <2>5, WireStill
  <2> QED
    BY <1>19, <2>6 DEF GuestInv
<1> QED
  BY <1>20, <1>21

LEMMA GuestInit ==
  ASSUME GuestBounds, G!Init
  PROVE  GuestInv
<1>1. /\ th = [t \in Callers |-> G!Idle] /\ G!Idle \in Doing
      /\ \A t \in Callers: /\ th[t].op = "none" /\ th[t].at = "idle" /\ th[t].then = "none"
                           /\ th[t].back = "none" /\ th[t].tr = 0 /\ th[t].of = 0
                           /\ th[t].be = 0 /\ th[t].conn = 0
  BY IdleTyped DEF G!Init, G!Idle
<1>2. /\ holder = 0 /\ transport = 0 /\ built = 0 /\ backends = <<>> /\ backend = 0 /\ opened = {}
      /\ maker = 0 /\ paths = {} /\ lost = {} /\ dialled = 0 /\ commands = FALSE
  BY DEF G!Init
<1>3. backends \in Seq(Made) /\ Len(backends) = 0
  BY <1>2, EmptySeq
<1>4. HostTyped
  <2>1. kind \in Kinds /\ osInfo = FALSE /\ helper = "unprobed"
    BY DEF G!Init
  <2>2. 0 \in 0 .. built /\ built \in 0 .. MaxTransports
    BY <1>2 DEF GuestBounds
  <2> QED
    BY <1>2, <1>3, <2>1, <2>2 DEF HostTyped
<1>5. ThreadsTyped
  BY <1>1, <1>2, <1>3 DEF ThreadsTyped
<1>6. BackendsOwn /\ LockOwn /\ G!DiscoveredWhole
  BY <1>2, <1>3 DEF BackendsOwn, LockOwn, G!DiscoveredWhole, GuestBounds
<1>7. ASSUME NEW t \in Callers PROVE Stands(t) /\ Uses(t) /\ Finds(t)
  <2>1. /\ th[t].op = "none" /\ th[t].at = "idle" /\ th[t].then = "none"
        /\ th[t].back = "none" /\ th[t].conn = 0
    BY <1>1
  <2>2. ~Assembling(t) /\ ~Discovers(t) /\ ~Probing(t) /\ th[t].at \notin Requesting
    BY <2>1 DEF Assembling, Discovers, Probing, Requesting, Asking, Shutting
  <2>3. Stands(t)
    BY <2>1, <2>2 DEF Stands
  <2>4. Uses(t)
    BY <2>2 DEF Uses
  <2>5. Finds(t)
    BY <2>1, <2>2 DEF Finds
  <2> QED
    BY <2>3, <2>4, <2>5
<1>8. Found
  BY <1>2, <1>3, <1>7 DEF Found, Equipped
<1>9. HostOwn
  BY <1>4, <1>5, <1>6, <1>7, <1>8 DEF HostOwn
<1>10. WireTyped /\ JoinOwn /\ Wired
  BY <1>2 DEF G!Init, WireTyped, JoinOwn, Wired, GuestBounds
<1>11. OpenOwn
  BY <1>2 DEF OpenOwn
<1>12. \A t \in Callers: th[t].conn \in 0 .. dialled /\ Joins(t) /\ Shuts(t)
  <2> SUFFICES ASSUME NEW t \in Callers
               PROVE  th[t].conn \in 0 .. dialled /\ Joins(t) /\ Shuts(t)
    OBVIOUS
  <2>1. th[t].at = "idle" /\ th[t].op = "none" /\ th[t].conn = 0
    BY <1>1
  <2>2. Joins(t) /\ Shuts(t)
    BY <2>1 DEF Joins, Shuts
  <2> QED
    BY <1>2, <2>1, <2>2
<1> QED
  BY <1>9, <1>10, <1>11, <1>12 DEF GuestInv, WireOwn

LEMMA GuestStutters == GuestInv /\ UNCHANGED G!vars => GuestInv'
<1> SUFFICES ASSUME GuestInv, UNCHANGED G!vars PROVE GuestInv'
  OBVIOUS
<1>0. /\ UNCHANGED <<kind, holder, transport, built, commands, osInfo, helper, backends, backend>>
      /\ UNCHANGED <<maker, paths, connLock, conn, domain, opened, dialled, th>>
      /\ UNCHANGED <<overlapped, lost, torn>>
  BY DEF G!vars, G!host, G!wire, G!history
<1>1. HostTyped' /\ ThreadsTyped' /\ BackendsOwn' /\ LockOwn' /\ G!DiscoveredWhole' /\ Found'
  BY <1>0 DEF GuestInv, HostOwn, HostTyped, ThreadsTyped, BackendsOwn, LockOwn, Holding, Discovers,
              G!DiscoveredWhole, Found, Equipped, Finds, Probing, GuestBounds
<1>2. \A t \in Callers: Stands(t)' /\ Uses(t)'
  <2> SUFFICES ASSUME NEW t \in Callers PROVE Stands(t)' /\ Uses(t)'
    OBVIOUS
  <2>1. Stands(t) /\ Uses(t)
    BY DEF GuestInv, HostOwn
  <2>2. Stands(t)'
    BY <1>0, <2>1 DEF Stands, Assembling, Discovers, Probing
  <2>3. Uses(t)'
    BY <1>0, <2>1 DEF Uses, Assembling, Discovers, Probing, Overtaken
  <2> QED
    BY <2>2, <2>3
<1>3. WireTyped' /\ JoinOwn' /\ Wired' /\ OpenOwn'
  BY <1>0 DEF GuestInv, WireOwn, WireTyped, JoinOwn, Wired, OpenOwn, G!Owned, G!Held, G!Closing,
              Overtaken
<1>4. \A t \in Callers: th'[t].conn \in 0 .. dialled' /\ Joins(t)' /\ Shuts(t)'
  BY <1>0 DEF GuestInv, WireOwn, Joins, Shuts, Overtaken
<1> QED
  BY <1>1, <1>2, <1>3, <1>4 DEF GuestInv, HostOwn, WireOwn

LEMMA GuestNext == GuestInv /\ [G!Next]_G!vars => GuestInv'
<1> SUFFICES ASSUME GuestInv, [G!Next]_G!vars PROVE GuestInv'
  OBVIOUS
<1>1. ASSUME NEW t \in Callers, G!Step(t) PROVE GuestInv'
  BY <1>1, ConnectStep, ObtainStep, CannotBuildStep, FramedStep, LibvirtConnectStep, BindStep,
     BoundStep, CallStep, DropStep, DropDomainStep, HangUpStep, DroppedStep, CapableStep,
     BackendStep, CommandsStep, HelperStep, StoreStep, TakeStep, ProviderStep, ProbeStep,
     MakeStep, UsePathStep, CloseStep DEF G!Step
<1>2. ASSUME NEW t \in Callers, NEW op \in G!Calls, G!Begin(t, op) PROVE GuestInv'
  BY <1>2, BeginStep
<1>3. CASE UNCHANGED G!vars
  BY <1>3, GuestStutters
<1> QED
  BY <1>1, <1>2, <1>3 DEF G!Next

(* What is kept says that no open connection is lost, and that what a call *)
(* finds is whole.                                                         *)
LEMMA GuestKeeps == GuestInv => G!StrayByOverlap /\ G!FindsWhole
<1> SUFFICES ASSUME GuestInv PROVE G!StrayByOverlap /\ G!FindsWhole
  OBVIOUS
<1>0. /\ HostTyped /\ ThreadsTyped /\ LockOwn /\ G!DiscoveredWhole /\ Found /\ WireTyped /\ OpenOwn
  BY DEF GuestInv, HostOwn, WireOwn
<1>1. G!TypeOK
  <2>1. ASSUME holder # 0 PROVE G!Busy(holder)
    <3>1. PICK t \in Callers: t = holder
      BY <1>0, <2>1 DEF HostTyped
    <3>2. Holding(t)
      BY <1>0, <3>1 DEF LockOwn
    <3>3. G!Busy(t)
      BY <3>2 DEF G!Busy, Holding, Discovers, Requesting, Asking, Shutting
    <3> QED
      BY <3>1, <3>3
  <2>2. \A i \in G!AllTransports:
            /\ conn[i] \in 0 .. dialled /\ domain[i] \in 0 .. dialled
            /\ connLock[i] \in Callers \cup {0}
    BY <1>0 DEF WireTyped
  <2>3. /\ {backend, maker} \subseteq 0 .. Len(backends) /\ paths \subseteq 1 .. Len(backends)
    BY <1>0 DEF HostTyped
  <2>4. \A t \in Callers: th[t].tr \in 0 .. built /\ th[t].be \in 0 .. Len(backends)
    BY <1>0 DEF ThreadsTyped
  <2>5. opened \subseteq 1 .. dialled
    BY <1>0 DEF WireTyped
  <2> QED
    BY <1>0, <2>1, <2>2, <2>3, <2>4, <2>5 DEF G!TypeOK, HostTyped
<1>2. ASSUME NEW c \in opened PROVE G!Owned(c) \/ G!Excused(c)
  BY <1>0 DEF OpenOwn, G!Excused, Overtaken
<1>3. G!RefusedForCause
  BY <1>0 DEF Found, Finds, G!RefusedForCause
<1> QED
  BY <1>0, <1>1, <1>2, <1>3 DEF G!StrayByOverlap, G!FindsWhole

LEMMA GuestAlways == Run => [](part = "guest" => GuestInv)
<1>1. GuestBounds
  BY HostsAssumption DEF GuestBounds, G!GuestHostAssumption
<1>2. RunInit => (part = "guest" => GuestInv)
  BY <1>1, GuestInit DEF RunInit
<1>3. (part = "guest" => GuestInv) /\ [RunNext]_all => (part = "guest" => GuestInv)'
  <2> SUFFICES ASSUME part = "guest", GuestInv, [RunNext]_all PROVE GuestInv'
    BY DEF RunNext, all
  <2>1. [G!Next]_G!vars
    BY DEF RunNext, all, guest, G!vars, G!host, G!wire, G!history
  <2> QED
    BY <2>1, GuestNext
<1> QED
  BY <1>2, <1>3, PTL DEF Run

(* Whatever the callers do at once, an open connection is the host's, in   *)
(* the hands of a thread, or that of a transport whose close met a call.   *)
THEOREM StrayOnlyByOverlap == Run => []StrayByOverlap
<1>1. (part = "guest" => GuestInv) => StrayByOverlap
  BY GuestKeeps DEF StrayByOverlap
<1> QED
  BY <1>1, GuestAlways, PTL

(* The facts of the guest are found whole: no call is refused or crashes   *)
(* for want of them, unless the host was closed under it.                  *)
THEOREM GuestFoundWhole == Run => []FindsWhole
<1>1. (part = "guest" => GuestInv) => FindsWhole
  BY GuestKeeps DEF FindsWhole
<1> QED
  BY <1>1, GuestAlways, PTL

-----------------------------------------------------------------------------
(***************************************************************************)
(* A call of this machine's executor (LocalCall), for any number of        *)
(* processes in its tree.                                                  *)
(***************************************************************************)
(* Where a call may be: before it has a child, and after the kill. *)
Before == {"asked", "refused", "not started"}
After == {"child", "drain", "reap"} \cup L!Cut
Spots == {"communicate", "tree"} \cup Before \cup After \cup L!Ended

States == {"unborn", "live", "exited", "killed"}
Node == [is: States, above: SUBSET L!Procs, group: {L!Caller} \cup L!Procs, holds: BOOLEAN]

CallTyped ==
    /\ ask \in Asks /\ at \in Spots /\ why \in {"nothing", "expiry", "interrupt"}
    /\ proc \in [L!Procs -> Node]
    /\ kept \in BOOLEAN /\ whole \in BOOLEAN /\ signalled \subseteq L!Procs

Owned == ask.timed /\ ask.system = "own"

(* The tree grows from the child, who leads its group if it was made to;   *)
(* nobody is killed before the kill.                                       *)
TreeGrown ==
    /\ at \in Before => \A p \in L!Procs: proc[p] = L!Unborn
    /\ at \notin Before => /\ proc[L!Child].is # "unborn" /\ proc[L!Child].above = {}
                           /\ Owned => proc[L!Child].group = L!Child
    /\ at \in {"communicate", "tree"} => \A p \in L!Procs: proc[p].is # "killed"
    /\ \A p \in L!Procs: \A a \in proc[p].above: proc[a].is # "unborn"

(* Once a tree was killed, whoever lives had escaped.                      *)
TreeKilled ==
    /\ at \notin After => ~whole
    /\ at \in After /\ Owned => whole
    /\ whole /\ ask.system # "windows" => proc[L!Child].group = L!Child
    /\ whole => \A p \in L!Alive: L!Escaped(p)

(* The drain that ended by itself leaves nobody who could print.           *)
CallEnded ==
    /\ at \in L!Cut => L!Child \notin L!Alive
    /\ at \in {"returned", "failed"} \/ (at = "expired" /\ kept) => L!Over
    /\ at = "reap" /\ why = "expiry" /\ kept => L!Over
    /\ at = "returned" /\ ask.check => status = 0

CallInv == CallTyped /\ TreeGrown /\ TreeKilled /\ CallEnded

LEMMA CallFacts ==
  ASSUME L!LocalAssumption, CallTyped
  PROVE  /\ L!Child \in L!Procs /\ L!Caller \notin L!Procs /\ L!Child # L!Caller
         /\ ask.timed \in BOOLEAN /\ ask.captured \in BOOLEAN /\ ask.check \in BOOLEAN
BY DEF L!LocalAssumption, CallTyped, L!Child, L!Caller, L!Procs

(* The world moves only while the call is under way, so that there is a    *)
(* child.                                                                  *)
LEMMA UnderWay ==
  ASSUME CallInv, at \notin L!Ended, NEW p \in L!Alive
  PROVE  /\ at \notin Before /\ at \in Spots /\ p \in L!Procs
         /\ at \in {"communicate", "tree", "child", "drain", "reap"}
<1>1. p \in L!Procs /\ proc[p].is = "live"
  BY DEF L!Alive
<1>2. at \notin Before
  BY <1>1 DEF CallInv, TreeGrown, L!Unborn
<1>3. at \in Spots
  BY DEF CallInv, CallTyped
<1> QED
  BY <1>1, <1>2, <1>3 DEF Spots, Before, After, L!Cut, L!Ended

(* Of a call whose drain ended by itself, nobody alive holds the output.   *)
LEMMA WorldOver ==
  ASSUME CallInv, L!Over, got' = got, printed' = printed, L!Child \in L!Procs,
         proc'[L!Child].is # "live",
         \A p \in L!Procs: proc'[p].is = "live" /\ proc'[p].holds => \E q \in L!Alive: proc[q].holds
  PROVE  L!Over'
BY DEF L!Over, L!Holding, L!Alive

LEMMA ForkStep ==
  ASSUME L!LocalAssumption, CallInv, at \notin L!Ended, NEW p \in L!Alive, L!Fork(p)
  PROVE  CallInv'
<1>1. PICK q \in L!Procs: /\ proc[q].is = "unborn"
                          /\ proc' = [proc EXCEPT ![q] = [proc[p] EXCEPT !.above = @ \cup {p}]]
  BY DEF L!Fork
<1>2. UNCHANGED <<ask, at, why, status, printed, got, kept, signalled, whole>>
  BY DEF L!Fork, L!history
<1>3. /\ p \in L!Procs /\ proc[p].is = "live" /\ p # q /\ proc \in [L!Procs -> Node]
      /\ proc[p] \in Node
  BY <1>1 DEF L!Alive, CallInv, CallTyped
<1>4. /\ proc'[q].is = "live" /\ proc'[q].above = proc[p].above \cup {p}
      /\ proc'[q].group = proc[p].group /\ proc'[q].holds = proc[p].holds
      /\ \A r \in L!Procs: r # q => proc'[r] = proc[r]
  BY <1>1, <1>3 DEF Node
<1>5. /\ L!Child \in L!Procs /\ at \notin Before /\ at \in Spots /\ at \notin L!Cut
      /\ at \notin {"returned", "failed", "expired"}
  BY CallFacts, UnderWay DEF CallInv, L!Ended, L!Cut
<1>6. /\ q # L!Child /\ proc'[L!Child] = proc[L!Child] /\ proc[L!Child].is # "unborn"
  BY <1>1, <1>4, <1>5 DEF CallInv, TreeGrown
<1>7. CallTyped'
  <2>1. [proc[p] EXCEPT !.above = @ \cup {p}] \in Node
    BY <1>3 DEF Node
  <2> QED
    BY <1>1, <1>2, <1>3, <2>1 DEF CallInv, CallTyped
<1>8. TreeGrown'
  <2>1. ASSUME at \in {"communicate", "tree"}, NEW r \in L!Procs PROVE proc'[r].is # "killed"
    BY <1>4, <2>1 DEF CallInv, TreeGrown
  <2>2. ASSUME NEW r \in L!Procs, NEW a \in proc'[r].above PROVE proc'[a].is # "unborn"
    <3>1. a \in proc[r].above \/ a \in proc[p].above \/ a = p
      BY <1>4, <2>2
    <3>2. a \in L!Procs /\ proc[a].is # "unborn"
      BY <1>3, <3>1 DEF CallInv, CallTyped, TreeGrown, Node
    <3> QED
      BY <1>1, <1>4, <3>2
  <2> QED
    BY <1>2, <1>5, <1>6, <2>1, <2>2 DEF CallInv, TreeGrown, Owned
<1>9. TreeKilled'
  <2>1. ASSUME whole, NEW r \in L!Procs, proc'[r].is = "live" PROVE L!Escaped(r)'
    <3>1. PICK o \in L!Alive: /\ o # q /\ proc'[r].group = proc[o].group
                              /\ proc[o].above \subseteq proc'[r].above
      <4>1. CASE r = q
        BY <4>1, <1>3, <1>4
      <4>2. CASE r # q
        BY <4>2, <1>1, <1>4, <2>1 DEF L!Alive
      <4> QED
        BY <4>1, <4>2
    <3>2. L!Escaped(o) /\ o \in L!Procs
      BY <2>1, <3>1 DEF CallInv, TreeKilled, L!Alive
    <3>3. CASE ask.system = "windows"
      <4>1. PICK a \in proc[o].above: proc[a].is = "exited"
        BY <3>2, <3>3 DEF L!Escaped, L!Above
      <4>2. a \in L!Procs /\ a # q
        BY <1>1, <3>2, <4>1 DEF CallInv, CallTyped, Node
      <4> QED
        BY <1>2, <1>4, <3>1, <3>3, <4>1, <4>2 DEF L!Escaped, L!Above
    <3>4. CASE ask.system # "windows"
      BY <1>2, <3>1, <3>2, <3>4 DEF L!Escaped
    <3> QED
      BY <3>3, <3>4
  <2> QED
    BY <1>2, <1>6, <2>1 DEF CallInv, TreeKilled, Owned, L!Alive
<1>10. CallEnded'
  <2>1. ASSUME L!Over PROVE L!Over'
    <3>1. proc[L!Child].is # "live"
      BY <1>5, <2>1 DEF L!Over, L!Alive
    <3>2. ASSUME NEW r \in L!Procs, proc'[r].is = "live", proc'[r].holds
          PROVE  \E o \in L!Alive: proc[o].holds
      BY <1>1, <1>3, <1>4, <3>2 DEF L!Alive
    <3> QED
      BY <1>2, <1>5, <1>6, <2>1, <3>1, <3>2, WorldOver
  <2> QED
    BY <1>2, <1>5, <2>1 DEF CallInv, CallEnded
<1> QED
  BY <1>7, <1>8, <1>9, <1>10 DEF CallInv

(* A process that stays where it is in the tree, and where it was stays    *)
(* as it is: its group may be its own, its output closed, its life over.   *)
LEMMA ChangeStep ==
  ASSUME L!LocalAssumption, CallInv, at \notin L!Ended, NEW p \in L!Alive, NEW r \in Node,
         proc' = [proc EXCEPT ![p] = r],
         UNCHANGED <<ask, at, why, got, printed, kept, L!history>>,
         r.above = proc[p].above, r.is \in {"live", "exited"},
         r.holds => proc[p].holds,
         r.group = proc[p].group \/ (r.group = p /\ ask.system # "windows")
  PROVE  CallInv'
<1>1. /\ p \in L!Procs /\ proc[p].is = "live" /\ proc \in [L!Procs -> Node]
      /\ proc'[p] = r /\ \A o \in L!Procs: o # p => proc'[o] = proc[o]
  BY DEF L!Alive, CallInv, CallTyped
<1>2. UNCHANGED <<ask, at, why, got, printed, kept, signalled, whole>>
  BY DEF L!history
<1>3. /\ L!Child \in L!Procs /\ at \notin Before /\ at \in Spots /\ at \notin L!Cut
      /\ at \notin {"returned", "failed", "expired"}
  BY CallFacts, UnderWay DEF CallInv, L!Ended, L!Cut
<1>4. CallTyped'
  BY <1>1, <1>2 DEF CallInv, CallTyped
<1>5. ASSUME NEW o \in L!Procs
      PROVE  /\ proc'[o].above = proc[o].above
             /\ proc[o].is # "unborn" => proc'[o].is # "unborn"
             /\ proc[o].is = "exited" => proc'[o].is = "exited"
             /\ proc[o].is # "killed" => proc'[o].is # "killed"
             /\ proc'[o].is = "live" => proc[o].is = "live" /\ (proc'[o].holds => proc[o].holds)
             /\ proc[o].group = L!Child /\ o = L!Child => proc'[o].group = L!Child
  BY <1>1
<1>6. TreeGrown'
  <2>1. ASSUME NEW o \in L!Procs, NEW a \in proc'[o].above PROVE proc'[a].is # "unborn"
    <3>1. a \in proc[o].above /\ a \in L!Procs
      BY <1>1, <1>5, <2>1 DEF Node
    <3> QED
      BY <1>5, <3>1 DEF CallInv, TreeGrown
  <2> QED
    BY <1>2, <1>3, <1>5, <2>1 DEF CallInv, TreeGrown, Owned
<1>7. TreeKilled'
  <2>1. ASSUME whole, NEW o \in L!Procs, proc'[o].is = "live" PROVE L!Escaped(o)'
    <3>1. L!Escaped(o) /\ (whole /\ ask.system # "windows" => proc[L!Child].group = L!Child)
      BY <1>5, <2>1 DEF CallInv, TreeKilled, L!Alive
    <3>2. CASE ask.system = "windows"
      <4>1. PICK a \in proc[o].above: proc[a].is = "exited"
        BY <3>1, <3>2 DEF L!Escaped, L!Above
      <4>2. a \in L!Procs
        BY <1>1, <4>1 DEF Node
      <4> QED
        BY <1>2, <1>5, <3>2, <4>1, <4>2 DEF L!Escaped, L!Above
    <3>3. CASE ask.system # "windows"
      BY <1>1, <1>2, <2>1, <3>1, <3>3 DEF L!Escaped
    <3> QED
      BY <3>2, <3>3
  <2> QED
    BY <1>2, <1>3, <1>5, <2>1 DEF CallInv, TreeKilled, Owned, L!Alive
<1>8. CallEnded'
  <2>1. ASSUME L!Over PROVE L!Over'
    <3>1. proc[L!Child].is # "live"
      BY <1>3, <2>1 DEF L!Over, L!Alive
    <3>2. \A o \in L!Procs:
              proc'[o].is = "live" /\ proc'[o].holds => \E q \in L!Alive: proc[q].holds
      BY <1>5 DEF L!Alive
    <3> QED
      BY <1>2, <1>3, <1>5, <2>1, <3>1, <3>2, WorldOver
  <2> QED
    BY <1>2, <1>3, <2>1 DEF CallInv, CallEnded
<1> QED
  BY <1>4, <1>6, <1>7, <1>8 DEF CallInv

LEMMA WorldStep ==
  ASSUME L!LocalAssumption, CallInv, L!World
  PROVE  CallInv'
<1>1. at \notin L!Ended
  BY DEF L!World
<1>2. PICK p \in L!Alive:
          L!Fork(p) \/ L!LeaveGroup(p) \/ L!CloseOutput(p) \/ L!Exit(p) \/ L!Prints(p)
  BY DEF L!World
<1>3. p \in L!Procs /\ proc[p] \in Node /\ proc[p].is = "live"
  BY DEF L!Alive, CallInv, CallTyped
<1>4. CASE L!Fork(p)
  BY <1>1, <1>4, ForkStep
<1>5. CASE L!LeaveGroup(p)
  <2> DEFINE r == [proc[p] EXCEPT !.group = p]
  <2>1. /\ r \in Node /\ r.above = proc[p].above /\ r.is = "live" /\ r.holds = proc[p].holds
        /\ r.group = p
    BY <1>3 DEF Node
  <2>2. /\ proc' = [proc EXCEPT ![p] = r] /\ ask.system # "windows"
        /\ UNCHANGED <<ask, at, why, got, printed, kept, L!history>>
    BY <1>5 DEF L!LeaveGroup
  <2> HIDE DEF r
  <2> QED
    BY <1>1, <2>1, <2>2, ChangeStep
<1>6. CASE L!CloseOutput(p)
  <2> DEFINE r == [proc[p] EXCEPT !.holds = FALSE]
  <2>1. /\ r \in Node /\ r.above = proc[p].above /\ r.is = "live" /\ ~r.holds
        /\ r.group = proc[p].group
    BY <1>3 DEF Node
  <2>2. /\ proc' = [proc EXCEPT ![p] = r]
        /\ UNCHANGED <<ask, at, why, got, printed, kept, L!history>>
    BY <1>6 DEF L!CloseOutput
  <2> HIDE DEF r
  <2> QED
    BY <1>1, <2>1, <2>2, ChangeStep
<1>7. CASE L!Exit(p)
  <2> DEFINE r == [proc[p] EXCEPT !.is = "exited"]
  <2>1. /\ r \in Node /\ r.above = proc[p].above /\ r.is = "exited" /\ r.holds = proc[p].holds
        /\ r.group = proc[p].group
    BY <1>3 DEF Node, States
  <2>2. /\ proc' = [proc EXCEPT ![p] = r]
        /\ UNCHANGED <<ask, at, why, got, printed, kept, L!history>>
    BY <1>7 DEF L!Exit
  <2> HIDE DEF r
  <2> QED
    BY <1>1, <2>1, <2>2, ChangeStep
<1>8. CASE L!Prints(p)
  <2>1. UNCHANGED <<ask, at, why, proc, status, got, kept, signalled, whole>> /\ proc[p].holds
    BY <1>8 DEF L!Prints, L!history
  <2>2. /\ ~L!Over /\ at \notin Before /\ at \notin L!Cut
        /\ at \notin {"returned", "failed", "expired"}
    BY <1>1, <2>1, UnderWay DEF L!Over, L!Holding, L!Ended, L!Cut
  <2>3. CallTyped' /\ TreeGrown' /\ TreeKilled'
    BY <2>1 DEF CallInv, CallTyped, TreeGrown, TreeKilled, Owned, L!Escaped, L!Above, L!Alive
  <2>4. CallEnded'
    BY <2>1, <2>2 DEF CallInv, CallEnded
  <2> QED
    BY <2>3, <2>4 DEF CallInv
<1> QED
  BY <1>2, <1>4, <1>5, <1>6, <1>7, <1>8

(* What the call does while the tree stays as it is. *)
LEMMA TreeStays ==
  ASSUME CallInv, UNCHANGED <<ask, proc, signalled, whole>>, at' \in Spots,
         at' \in After <=> at \in After, at' \in Before <=> at \in Before,
         at' \in {"communicate", "tree"} => at \in {"communicate", "tree"}
  PROVE  TreeGrown' /\ TreeKilled'
<1>1. TreeGrown'
  BY DEF CallInv, TreeGrown, Owned
<1>2. TreeKilled'
  BY DEF CallInv, TreeKilled, Owned, L!Escaped, L!Above, L!Alive
<1> QED
  BY <1>1, <1>2

LEMMA CallMoves ==
  ASSUME L!LocalAssumption, CallInv,
         \/ L!Refuse \/ L!StartFails \/ L!Read \/ L!Finish
         \/ L!Expire \/ L!Drained \/ L!DrainExpires \/ L!Reap
  PROVE  CallInv'
<1>1. UNCHANGED <<ask, proc, status, printed, signalled, whole>>
  BY DEF L!Refuse, L!StartFails, L!Read, L!Finish, L!Expire, L!Drained, L!DrainExpires, L!Reap,
         L!history
<1>2. /\ at' \in Spots /\ why' \in {"nothing", "expiry", "interrupt"} /\ kept' \in BOOLEAN
      /\ at' \in After <=> at \in After
      /\ at' \in Before <=> at \in Before
      /\ at' \in {"communicate", "tree"} => at \in {"communicate", "tree"}
  BY DEF L!Refuse, L!StartFails, L!Read, L!Finish, L!Expire, L!Drained, L!DrainExpires, L!Reap,
         CallInv, CallTyped, Spots, Before, After, L!Cut, L!Ended
<1>3. TreeGrown' /\ TreeKilled'
  BY <1>1, <1>2, TreeStays
<1>4. CallTyped'
  BY <1>1, <1>2 DEF CallInv, CallTyped
<1>5. CASE L!Refuse \/ L!StartFails \/ L!Expire
  <2>1. at' \in {"refused", "not started", "tree"}
    BY <1>5 DEF L!Refuse, L!StartFails, L!Expire
  <2> QED
    BY <1>3, <1>4, <2>1 DEF CallInv, CallEnded, L!Cut
<1>6. CASE L!Read
  <2>1. at \in {"communicate", "drain"} /\ at' = at
    BY <1>6 DEF L!Read
  <2> QED
    BY <1>3, <1>4, <2>1 DEF CallInv, CallEnded, L!Cut
<1>7. CASE L!Finish
  <2>1. /\ L!Over /\ L!Over' /\ at' \in {"failed", "returned"}
        /\ ask.check /\ status # 0 => at' = "failed"
    BY <1>1, <1>7 DEF L!Finish, L!Over, L!Holding, L!Alive
  <2> QED
    BY <1>1, <1>3, <1>4, <2>1 DEF CallInv, CallEnded, L!Cut
<1>8. CASE L!Drained
  <2>1. L!Over' /\ at' = "reap"
    BY <1>1, <1>8 DEF L!Drained, L!Over, L!Holding, L!Alive
  <2> QED
    BY <1>3, <1>4, <2>1 DEF CallInv, CallEnded, L!Cut
<1>9. CASE L!DrainExpires
  <2>1. ~kept' /\ at' = "reap"
    BY <1>9 DEF L!DrainExpires
  <2> QED
    BY <1>3, <1>4, <2>1 DEF CallInv, CallEnded, L!Cut
<1>10. CASE L!Reap
  <2>1. /\ at = "reap" /\ L!Child \notin L!Alive /\ L!Child \notin L!Alive'
        /\ at' = IF why = "expiry" THEN "expired" ELSE "interrupted"
        /\ why' = why /\ kept' = kept /\ (L!Over => L!Over')
    BY <1>1, <1>10 DEF L!Reap, L!Over, L!Holding, L!Alive
  <2> QED
    BY <1>3, <1>4, <2>1 DEF CallInv, CallEnded, L!Cut
<1> QED
  BY <1>5, <1>6, <1>7, <1>8, <1>9, <1>10

LEMMA StartStep ==
  ASSUME L!LocalAssumption, CallInv, L!Start
  PROVE  CallInv'
<1> DEFINE r == [is |-> "live", above |-> {}, holds |-> ask.captured,
                 group |-> IF ask.timed /\ ask.system = "own" THEN L!Child ELSE L!Caller]
<1>1. /\ at = "asked" /\ at' = "communicate" /\ proc' = [proc EXCEPT ![L!Child] = r]
      /\ UNCHANGED <<ask, why, status, printed, got, kept, signalled, whole>>
  BY DEF L!Start, L!history
<1>2. /\ r \in Node /\ r.is = "live" /\ r.above = {}
      /\ r.group = (IF ask.timed /\ ask.system = "own" THEN L!Child ELSE L!Caller)
  BY CallFacts DEF CallInv, Node, States
<1> HIDE DEF r
<1>3. /\ L!Child \in L!Procs /\ proc \in [L!Procs -> Node] /\ proc'[L!Child] = r
      /\ \A p \in L!Procs: p # L!Child => proc'[p] = L!Unborn
  BY <1>1, CallFacts DEF CallInv, CallTyped, TreeGrown, Before
<1>4. CallTyped'
  BY <1>1, <1>2, <1>3 DEF CallInv, CallTyped, Spots
<1>5. \A p \in L!Procs: proc'[p].is # "killed" /\ proc'[p].above = {}
  BY <1>2, <1>3 DEF L!Unborn
<1>6. TreeGrown'
  BY <1>1, <1>2, <1>3, <1>5 DEF TreeGrown, Owned, Before
<1>7. ~whole
  BY <1>1 DEF CallInv, TreeKilled, After, L!Cut
<1>8. TreeKilled' /\ CallEnded'
  BY <1>1, <1>7 DEF TreeKilled, CallEnded, After, L!Cut
<1> QED
  BY <1>4, <1>6, <1>8 DEF CallInv

LEMMA InterruptStep ==
  ASSUME L!LocalAssumption, CallInv, L!Interrupt
  PROVE  CallInv'
<1>1. /\ UNCHANGED <<ask, proc, status, printed, got, kept, signalled, whole>> /\ why' = "interrupt"
      /\ at \in {"communicate", "drain"}
      /\ at' = IF at = "drain" THEN "reap" ELSE IF ask.timed THEN "tree" ELSE "child"
  BY DEF L!Interrupt, L!history
<1>2. CallTyped'
  BY <1>1 DEF CallInv, CallTyped, Spots, After
<1>3. TreeGrown'
  BY <1>1 DEF CallInv, TreeGrown, Owned, Before
<1>4. TreeKilled'
  BY <1>1 DEF CallInv, TreeKilled, Owned, L!Escaped, L!Above, L!Alive, After, L!Cut
<1>5. CallEnded'
  BY <1>1 DEF CallEnded, L!Cut
<1> QED
  BY <1>2, <1>3, <1>4, <1>5 DEF CallInv

(* What was alive and was hit is killed, and nothing else changes. *)
LEMMA KillHits ==
  ASSUME CallTyped, NEW hit, proc' = L!Kill(hit), NEW p \in L!Procs
  PROVE  /\ proc'[p] \in Node /\ proc' \in [L!Procs -> Node]
         /\ proc'[p].above = proc[p].above /\ proc'[p].group = proc[p].group
         /\ proc'[p].holds = proc[p].holds
         /\ proc'[p].is = IF p \in hit THEN "killed" ELSE proc[p].is
<1>1. \A o \in L!Procs: [proc[o] EXCEPT !.is = "killed"] \in Node /\ proc[o] \in Node
  BY DEF CallTyped, Node, States
<1>2. proc' = [o \in L!Procs |-> IF o \in hit THEN [proc[o] EXCEPT !.is = "killed"] ELSE proc[o]]
  BY DEF L!Kill
<1>3. proc'[p] = IF p \in hit THEN [proc[p] EXCEPT !.is = "killed"] ELSE proc[p]
  BY <1>2
<1>4. proc' \in [L!Procs -> Node] /\ proc'[p] \in Node
  BY <1>1, <1>2, <1>3
<1>5. proc[p] \in Node
  BY <1>1
<1> QED
  BY <1>3, <1>4, <1>5 DEF Node

LEMMA KillChildStep ==
  ASSUME L!LocalAssumption, CallInv, L!KillChild
  PROVE  CallInv'
<1> DEFINE hit == L!Alive \cap {L!Child}
<1>1. /\ at = "child" /\ proc' = L!Kill(hit) /\ at' \in {"drain", "reap"}
      /\ (at' = "reap" => why # "expiry")
      /\ UNCHANGED <<ask, why, status, printed, got, kept, signalled, whole>>
  BY DEF L!KillChild, L!history
<1>2. hit \subseteq L!Alive
  OBVIOUS
<1> HIDE DEF hit
<1>3. \A p \in L!Procs:
          /\ proc'[p].above = proc[p].above /\ proc'[p].group = proc[p].group
          /\ proc'[p].is = IF p \in hit THEN "killed" ELSE proc[p].is
  BY <1>1, KillHits DEF CallInv
<1>4. proc' \in [L!Procs -> Node] /\ L!Child \in L!Procs
  BY <1>1, CallFacts, KillHits DEF CallInv
<1>5. CallTyped'
  BY <1>1, <1>4 DEF CallInv, CallTyped, Spots, After
<1>6. TreeGrown'
  <2>1. ASSUME NEW p \in L!Procs, NEW a \in proc'[p].above PROVE proc'[a].is # "unborn"
    <3>1. a \in proc[p].above /\ a \in L!Procs
      BY <1>3, <1>4, <2>1 DEF Node
    <3> QED
      BY <1>3, <3>1 DEF CallInv, TreeGrown
  <2> QED
    BY <1>1, <1>3, <1>4, <2>1 DEF CallInv, TreeGrown, Owned, Before
<1>7. TreeKilled'
  <2>1. ASSUME whole, NEW p \in L!Procs, proc'[p].is = "live" PROVE L!Escaped(p)'
    <3>1. L!Escaped(p) /\ (ask.system # "windows" => proc[L!Child].group = L!Child)
      BY <1>3, <2>1 DEF CallInv, TreeKilled, L!Alive
    <3>2. CASE ask.system = "windows"
      <4>1. PICK a \in proc[p].above: proc[a].is = "exited"
        BY <3>1, <3>2 DEF L!Escaped, L!Above
      <4>2. a \in L!Procs /\ a \notin hit
        BY <1>3, <1>4, <1>2, <4>1 DEF Node, L!Alive
      <4> QED
        BY <1>1, <1>3, <3>2, <4>1, <4>2 DEF L!Escaped, L!Above
    <3>3. CASE ask.system # "windows"
      BY <1>1, <1>3, <3>1, <3>3 DEF L!Escaped
    <3> QED
      BY <3>2, <3>3
  <2> QED
    BY <1>1, <1>3, <1>4, <2>1 DEF CallInv, TreeKilled, Owned, L!Alive, After
<1>8. CallEnded'
  BY <1>1 DEF CallEnded, L!Cut
<1> QED
  BY <1>5, <1>6, <1>7, <1>8 DEF CallInv

(* The kill reaches the whole tree, the child's group, or nobody. *)
LEMMA ReachedWhat ==
  ASSUME L!LocalAssumption, CallInv, at \notin Before, NEW hit \in L!Reached
  PROVE  /\ hit \subseteq L!Alive
         /\ ask.system = "windows" => hit = L!Linked \/ hit = {}
         /\ ask.system # "windows" /\ proc[L!Child].group = L!Child =>
                \A p \in L!Alive: proc[p].group = L!Child => p \in hit
         /\ proc[L!Child].group # L!Child /\ ask.system # "windows" => hit = {}
<1>1. L!Child # L!Caller
  BY CallFacts DEF CallInv
<1> QED
  BY <1>1 DEF L!Reached, L!Linked, L!InGroup

LEMMA KillTreeStep ==
  ASSUME L!LocalAssumption, CallInv, L!KillTree
  PROVE  CallInv'
<1>1. PICK hit \in L!Reached:
          /\ proc' = L!Kill(hit) /\ signalled' = hit
          /\ whole' = IF ask.system = "windows" THEN hit = L!Linked
                      ELSE proc[L!Child].group = L!Child
  BY DEF L!KillTree
<1>2. at = "tree" /\ at' = "child" /\ UNCHANGED <<ask, why, status, printed, got, kept>>
  BY DEF L!KillTree
<1>3. \A p \in L!Procs:
          /\ proc'[p].above = proc[p].above /\ proc'[p].group = proc[p].group
          /\ proc'[p].is = IF p \in hit THEN "killed" ELSE proc[p].is
  BY <1>1, KillHits DEF CallInv
<1>4. proc' \in [L!Procs -> Node] /\ L!Child \in L!Procs
  BY <1>1, CallFacts, KillHits DEF CallInv
<1>5. /\ hit \subseteq L!Alive /\ hit \subseteq L!Procs
      /\ ask.system # "windows" /\ proc[L!Child].group = L!Child =>
                \A p \in L!Alive: proc[p].group = L!Child => p \in hit
  BY <1>2, ReachedWhat DEF Before, L!Alive
<1>6. CallTyped'
  BY <1>1, <1>2, <1>4, <1>5 DEF CallInv, CallTyped, Spots, After
<1>7. TreeGrown'
  <2>1. ASSUME NEW p \in L!Procs, NEW a \in proc'[p].above PROVE proc'[a].is # "unborn"
    <3>1. a \in proc[p].above /\ a \in L!Procs
      BY <1>3, <1>4, <2>1 DEF Node
    <3> QED
      BY <1>3, <3>1 DEF CallInv, TreeGrown
  <2> QED
    BY <1>2, <1>3, <1>4, <2>1 DEF CallInv, TreeGrown, Owned, Before
<1>8. TreeKilled'
  <2>1. ASSUME whole', NEW p \in L!Procs, proc'[p].is = "live" PROVE L!Escaped(p)'
    <3>1. p \in L!Alive /\ p \notin hit
      BY <1>3, <2>1 DEF L!Alive
    <3>2. CASE ask.system = "windows"
      <4>1. p \notin L!Linked
        BY <1>1, <2>1, <3>1, <3>2
      <4>2. PICK a \in proc[p].above: a \notin L!Alive
        BY <3>1, <4>1 DEF L!Linked, L!Above
      <4>3. a \in L!Procs /\ proc[a].is \in States
        BY <4>2, <2>1 DEF CallInv, CallTyped, Node
      <4>4. proc[a].is = "exited"
        BY <1>2, <2>1, <4>2, <4>3 DEF CallInv, TreeGrown, L!Alive, States
      <4>5. proc'[a].is = "exited" /\ a \in proc'[p].above
        BY <1>3, <1>5, <2>1, <4>2, <4>3, <4>4
      <4> QED
        BY <1>2, <3>2, <4>5 DEF L!Escaped, L!Above
    <3>3. CASE ask.system # "windows"
      BY <1>1, <1>2, <1>3, <1>5, <2>1, <3>1, <3>3 DEF L!Escaped
    <3> QED
      BY <3>2, <3>3
  <2>2. Owned => whole'
    BY <1>1, <1>2 DEF CallInv, TreeGrown, Owned, Before
  <2> QED
    BY <1>1, <1>2, <1>3, <1>4, <2>1, <2>2 DEF TreeKilled, Owned, L!Alive, After
<1>9. CallEnded'
  BY <1>2 DEF CallEnded, L!Cut
<1> QED
  BY <1>6, <1>7, <1>8, <1>9 DEF CallInv

LEMMA CallBegins ==
  ASSUME L!LocalAssumption, L!Init
  PROVE  CallInv
<1>1. /\ ask \in Asks /\ at = "asked" /\ why = "nothing" /\ proc = [p \in L!Procs |-> L!Unborn]
      /\ kept = TRUE /\ signalled = {} /\ whole = FALSE
  BY DEF L!Init
<1>2. L!Unborn \in Node /\ L!Unborn.above = {} /\ L!Unborn.is = "unborn"
  BY DEF L!Unborn, Node, States
<1>3. \A p \in L!Procs: proc[p] = L!Unborn
  BY <1>1
<1>4. CallTyped
  BY <1>1, <1>2 DEF CallTyped, Spots, Before
<1>5. TreeGrown
  BY <1>1, <1>2, <1>3 DEF TreeGrown, Before
<1>6. TreeKilled /\ CallEnded
  BY <1>1 DEF TreeKilled, CallEnded, After, L!Cut
<1> QED
  BY <1>4, <1>5, <1>6 DEF CallInv

LEMMA CallNext ==
  ASSUME L!LocalAssumption, CallInv, [L!Next]_L!vars
  PROVE  CallInv'
<1>1. CASE L!World
  BY <1>1, WorldStep
<1>2. CASE L!Interrupt
  BY <1>2, InterruptStep
<1>3. CASE L!Step
  BY <1>3, CallMoves, StartStep, KillTreeStep, KillChildStep DEF L!Step
<1>4. CASE UNCHANGED L!vars
  BY <1>4 DEF CallInv, CallTyped, TreeGrown, TreeKilled, CallEnded, L!vars, L!history, Owned,
              L!Escaped, L!Above, L!Alive, L!Over, L!Holding
<1> QED
  BY <1>1, <1>2, <1>3, <1>4 DEF L!Next

LEMMA LocalKeeps ==
  ASSUME L!LocalAssumption, CallInv
  PROVE  L!LocalSound
<1>1. L!NothingSurvives
  BY DEF CallInv, TreeKilled, CallEnded, L!NothingSurvives, Owned, After
<1>2. L!CallerSpared
  BY CallFacts DEF CallInv, CallTyped, L!CallerSpared
<1>3. L!AllOrNothing
  BY DEF CallInv, TreeGrown, CallEnded, L!AllOrNothing, Before
<1> QED
  BY <1>1, <1>2, <1>3 DEF L!LocalSound

(* Wherever a call of this machine is cut short, and however its tree      *)
(* grows, the child is over, whoever else survives had escaped, the caller *)
(* is not hit, and output that is told is all there was.                   *)
THEOREM LocalIsSound == Run => []LocalSound
<1>1. L!LocalAssumption
  BY HostsAssumption
<1>2. RunInit => (part = "local" => CallInv)
  BY <1>1, CallBegins DEF RunInit
<1>3. (part = "local" => CallInv) /\ [RunNext]_all => (part = "local" => CallInv)'
  <2> SUFFICES ASSUME part = "local", CallInv, [RunNext]_all PROVE CallInv'
    BY DEF RunNext, all
  <2>1. [L!Next]_L!vars
    BY DEF RunNext, all, call, L!vars, L!history
  <2> QED
    BY <1>1, <2>1, CallNext
<1>4. (part = "local" => CallInv) => LocalSound
  BY <1>1, LocalKeeps DEF LocalSound
<1> QED
  BY <1>2, <1>3, <1>4, PTL DEF Run
=============================================================================
