----------------------------- MODULE SystemHost -----------------------------
(***************************************************************************)
(* `SystemHost` (system/_host.py): which providers it counts as connected, *)
(* which transports it has closed, and its session initializer.            *)
(*                                                                         *)
(* `connect`, `close`, `replace_providers`, the first use of a provider    *)
(* and the initializer run under the lifecycle lock; dispatching to a      *)
(* provider and everything a path does after it was obtained do not.  A    *)
(* transport connects on `connect()` and again, by itself, whenever it is  *)
(* used after a close.  Which provider a selector offers (ProviderSelector *)
(* says how it chooses) and what a provider answers are chosen freely.     *)
(***************************************************************************)
EXTENDS Integers

CONSTANTS Threads,        \* the threads sharing the host
          Nobody,         \* the holder of a free lock
          NoProvider,     \* the provider of a thread that has none
          Transports,     \* connections a provider works over
          TransportOf,    \* TransportOf[p]: the one provider p works over
          ExecutorSets,   \* the executor providers the host may be given
          Paths,          \* its path providers
          MaxCalls        \* MaxCalls[t], a bound: operations thread t starts

Providers == Paths \cup UNION ExecutorSets

ASSUME HostAssumption == /\ Nobody \notin Threads
                         /\ NoProvider \notin Providers
                         /\ TransportOf \in [Providers -> Transports]
                         /\ MaxCalls \in [Threads -> Nat]

VARIABLES executors,    \* `_executor_selector.providers`
          connected,    \* `_connected_providers`: how often each is in that list
          isConnected,  \* `_connected`
          closed,       \* the transports in `_closed_targets`
          initialized,  \* `_initializer_generation`
          lock,         \* the thread inside the lifecycle lock
          mine,         \* what the `connect` inside it has connected
          offered,      \* that `connect` was offered some provider
          todo,         \* the transports it has yet to close
          closing,      \* closed, and about to be marked so
          open,         \* the transports that hold an open connection
          pc,           \* where each thread is in its operation
          provider,     \* the provider it is working with
          excluded,     \* the providers its failover loop excludes
          path,         \* the providers a path it holds routes to
          calls         \* operations it has started

(* History, which no action's guard reads. *)
VARIABLES unnoticed,    \* transports reopened, marked closed, by a use nobody
                        \* told the host of
          unclosed,     \* transports whose `close` raised, marked closed
          strays,       \* transports the host connected for a run that chose
                        \* its provider before the provider was replaced
          inits,        \* initializers completed in this generation
          moved         \* the generation changed since the thread's provider
                        \* was made ready

host == <<executors, connected, isConnected, closed, initialized>>
held == <<lock, mine, offered, todo, closing>>
local == <<pc, provider, excluded, path>>
history == <<unnoticed, unclosed, strays, inits, moved>>
vars == <<host, held, open, local, calls, history>>

Targets(S) == {TransportOf[p]: p \in S}

(* A list of providers, of which only how often each is in it matters. *)
Nothing == [p \in Providers |-> 0]
Members(list) == {p \in Providers: list[p] > 0}
With(list, p) == [list EXCEPT ![p] = @ + 1]

Init ==
    /\ executors \in ExecutorSets
    /\ connected = Nothing
    /\ isConnected = FALSE
    /\ closed = {}
    /\ initialized = FALSE
    /\ lock = Nobody
    /\ mine = Nothing
    /\ offered = FALSE
    /\ todo = {}
    /\ closing = {}
    /\ open = {}
    /\ pc = [t \in Threads |-> "idle"]
    /\ provider = [t \in Threads |-> NoProvider]
    /\ excluded = [t \in Threads |-> {}]
    /\ path = [t \in Threads |-> {}]
    /\ calls = [t \in Threads |-> 0]
    /\ unnoticed = {}
    /\ unclosed = {}
    /\ strays = {}
    /\ inits = 0
    /\ moved = [t \in Threads |-> FALSE]

Goto(t, where) == pc' = [pc EXCEPT ![t] = where]

Start(t, where) ==
    /\ pc[t] = "idle"
    /\ calls[t] < MaxCalls[t]
    /\ calls' = [calls EXCEPT ![t] = @ + 1]
    /\ Goto(t, where)

(* p's transport is reopened by its provider; the host is not told. *)
Reopen(p) ==
    /\ open' = open \cup {TransportOf[p]}
    /\ unnoticed' = unnoticed \cup ({TransportOf[p]} \cap (closed \cup closing))

(* Mutant: the host keeps p's transport marked closed. *)
NoticeForgotten(p) ==
    /\ unnoticed' = unnoticed \ {TransportOf[p]}
    /\ UNCHANGED <<closed, unclosed>>

(* The host is told that p's transport is in use, and will close it again. *)
Notice(p) ==
    /\ closed' = closed \ {TransportOf[p]}
    /\ unnoticed' = unnoticed \ {TransportOf[p]}
    /\ unclosed' = unclosed \ {TransportOf[p]}

ConnectProvider(p) ==
    /\ open' = open \cup {TransportOf[p]}
    /\ Notice(p)
    /\ strays' = IF p \in executors \cup Paths THEN strays
                                                ELSE strays \cup {TransportOf[p]}

-----------------------------------------------------------------------------
(* run: select a provider, make it ready, dispatch to it; on to the next   *)
(* one after a refusal.  (spawn and info make a provider ready likewise.)  *)
RunBegin(t) ==
    /\ Start(t, "select")
    /\ UNCHANGED <<host, held, open, provider, excluded, path, history>>

RunSelect(t, p) ==
    /\ pc[t] = "select"
    /\ p \in executors \ excluded[t]
    /\ provider' = [provider EXCEPT ![t] = p]
    /\ Goto(t, "ready")
    /\ UNCHANGED <<host, held, open, excluded, path, calls, history>>

(* Back to the caller, with a result or an error. *)
Leave(t) ==
    /\ Goto(t, "idle")
    /\ provider' = [provider EXCEPT ![t] = NoProvider]
    /\ excluded' = [excluded EXCEPT ![t] = {}]

RunNone(t) ==
    /\ pc[t] \in {"select", "pick"}
    /\ Leave(t)
    /\ UNCHANGED <<host, held, open, path, calls, history>>

(* Mutant: the provider is let go before it is excluded. *)
FailOverSwapped(t, where) ==
    /\ Goto(t, where)
    /\ provider' = [provider EXCEPT ![t] = NoProvider]
    /\ excluded' = [excluded EXCEPT ![t] = @ \cup {provider'[t]}]

FailOver(t, where) ==
    /\ Goto(t, where)
    /\ excluded' = [excluded EXCEPT ![t] = @ \cup {provider[t]}]
    /\ provider' = [provider EXCEPT ![t] = NoProvider]

ListedNever(p) == FALSE    \* Mutant: every use adds its provider.

Listed(p) == p \in Members(connected)

DueAlways(p) == TRUE       \* Mutant: a completed initializer runs again.

(* Mutant: a provider kept by `replace_providers` counts as initialized. *)
DueFirstUse(p) == ~initialized /\ ~Listed(p)

Due(p) == ~initialized

(* `_ensure_provider_connected`, in the lock, which it keeps for as long   *)
(* as the initializer that is due runs.                                    *)
Ready(t) ==
    LET p == provider[t] IN
    /\ pc[t] = "ready" /\ lock = Nobody
    /\ IF Listed(p)
       THEN UNCHANGED <<connected, closed, open, unnoticed, unclosed, strays>>
       ELSE /\ connected' = With(connected, p)
            /\ ConnectProvider(p)
    /\ IF Due(p) THEN Goto(t, "initialize") /\ lock' = t
                 ELSE Goto(t, "dispatch") /\ UNCHANGED lock
    /\ moved' = [moved EXCEPT ![t] = FALSE]
    /\ UNCHANGED <<executors, isConnected, initialized, mine, offered, todo, closing,
                   provider, excluded, path, calls, inits>>

(* The provider's `connect` refuses, or fails. *)
NotReady(t, refuses) ==
    /\ pc[t] = "ready" /\ lock = Nobody
    /\ ~Listed(provider[t])
    /\ IF refuses THEN FailOver(t, "select") ELSE Leave(t)
    /\ UNCHANGED <<host, held, open, path, calls, history>>

(* Outside the lock; a transport closed meanwhile connects again. *)
Dispatch(t, refuses) ==
    /\ pc[t] = "dispatch"
    /\ Reopen(provider[t])
    /\ IF refuses THEN FailOver(t, "select") ELSE Leave(t)
    /\ UNCHANGED <<host, held, path, calls, unclosed, strays, inits, moved>>

-----------------------------------------------------------------------------
(* connect: one provider of each kind, the first that connects, then the   *)
(* initializer; the lock is held throughout.                               *)
ConnectBegin(t) ==
    /\ Start(t, "connectRun")
    /\ lock = Nobody /\ ~isConnected
    /\ lock' = t
    /\ UNCHANGED <<host, mine, offered, todo, closing, open, provider, excluded,
                   path, history>>

Leg(t) == IF pc[t] = "connectRun" THEN executors ELSE Paths

NextLeg(t) ==
    /\ Goto(t, IF pc[t] = "connectRun" THEN "connectPath" ELSE "connectEnd")
    /\ excluded' = [excluded EXCEPT ![t] = {}]

Connecting(t, p) ==
    /\ pc[t] \in {"connectRun", "connectPath"}
    /\ p \in Leg(t) \ excluded[t]

Connects(t, p) ==
    /\ Connecting(t, p)
    /\ ConnectProvider(p)
    /\ mine' = With(mine, p)
    /\ offered' = TRUE
    /\ NextLeg(t)
    /\ UNCHANGED <<executors, connected, isConnected, initialized, lock, todo, closing,
                   provider, path, calls, inits, moved>>

ConnectRefused(t, p) ==
    /\ Connecting(t, p)
    /\ excluded' = [excluded EXCEPT ![t] = @ \cup {p}]
    /\ offered' = TRUE
    /\ UNCHANGED <<host, lock, mine, todo, closing, open, pc, provider, path, calls,
                   history>>

(* No provider of this kind is left, or none is usable. *)
ConnectSkips(t) ==
    /\ pc[t] \in {"connectRun", "connectPath"}
    /\ NextLeg(t)
    /\ UNCHANGED <<host, held, open, provider, path, calls, history>>

(* Mutant: the lifecycle lock stays taken. *)
LeaveConnectHeld(t) ==
    /\ Leave(t)
    /\ mine' = Nothing
    /\ offered' = FALSE
    /\ UNCHANGED <<lock, todo, closing, path>>

LeaveConnect(t) ==
    /\ Leave(t)
    /\ lock' = Nobody
    /\ mine' = Nothing
    /\ offered' = FALSE
    /\ UNCHANGED <<todo, closing, path>>

(* Closed again after an error, or not when a `close` raises in its turn.   *)
ClosedAgain(S) == \E shut \in SUBSET Targets(S): open' = open \ shut

(* Any other error: what this call connected is closed again. *)
ConnectFails(t, p) ==
    /\ Connecting(t, p)
    /\ ClosedAgain(Members(mine))
    /\ LeaveConnect(t)
    /\ UNCHANGED <<host, calls, history>>

ConnectNothing(t) ==
    /\ pc[t] = "connectEnd"
    /\ offered /\ mine = Nothing
    /\ LeaveConnect(t)
    /\ UNCHANGED <<host, open, calls, history>>

ConnectEnd(t) ==
    /\ pc[t] = "connectEnd"
    /\ offered => mine # Nothing
    /\ connected' = mine
    /\ IF initialized
       THEN isConnected' = TRUE /\ LeaveConnect(t)
       ELSE /\ Goto(t, "initialize")
            /\ UNCHANGED <<isConnected, held, provider, excluded, path>>
    /\ UNCHANGED <<executors, closed, initialized, open, calls, history>>

-----------------------------------------------------------------------------
(* The initializer is given the host and may run commands on it, which     *)
(* makes their provider ready; `_initializing` keeps it from starting      *)
(* again.  `run` waits for it with a provider, `connect` with none.        *)
InitializerRuns(t, p) ==
    /\ pc[t] = "initialize"
    /\ p \in executors
    /\ IF Listed(p)
       THEN Reopen(p) /\ UNCHANGED <<connected, closed, unclosed, strays>>
       ELSE connected' = With(connected, p) /\ ConnectProvider(p)
    /\ UNCHANGED <<executors, isConnected, initialized, held, local, calls, inits, moved>>

InitializerDone(t) ==
    /\ pc[t] = "initialize"
    /\ initialized' = TRUE
    /\ inits' = inits + 1
    /\ IF provider[t] # NoProvider
       THEN /\ Goto(t, "dispatch")
            /\ lock' = Nobody
            /\ UNCHANGED <<isConnected, mine, offered, todo, closing, provider, excluded,
                           path>>
       ELSE isConnected' = TRUE /\ LeaveConnect(t)
    /\ UNCHANGED <<executors, connected, closed, open, calls, unnoticed, unclosed, strays, moved>>

InitializerFails(t, refuses) ==
    /\ pc[t] = "initialize"
    /\ connected' = Nothing
    /\ IF provider[t] # NoProvider
       THEN /\ ClosedAgain({provider[t]})
            /\ lock' = Nobody
            /\ IF refuses THEN FailOver(t, "select") ELSE Leave(t)
            /\ UNCHANGED <<mine, offered, todo, closing, path>>
       ELSE /\ ClosedAgain(Members(mine))
            /\ LeaveConnect(t)
    /\ UNCHANGED <<executors, isConnected, closed, initialized, calls, history>>

-----------------------------------------------------------------------------
(* A generation ends: whoever was ready to dispatch is no longer. *)
EndGeneration ==
    /\ isConnected' = FALSE
    /\ initialized' = FALSE
    /\ inits' = 0
    /\ moved' = [t \in Threads |-> moved[t] \/ pc[t] = "dispatch"]

KnownConnected == Targets(Members(connected))    \* Mutant: only those in use.

Known == Targets(Members(connected) \cup executors \cup Paths)

(* close: every transport the host knows, once each, skipping those        *)
(* already closed.  An error from one does not keep the others open; that  *)
(* one counts as closed all the same, whether or not it is.                *)
CloseBegin(t) ==
    /\ Start(t, "close")
    /\ lock = Nobody
    /\ lock' = t
    /\ todo' = Known \ closed
    /\ UNCHANGED <<host, mine, offered, closing, open, provider, excluded, path, history>>

CloseTarget(t, target) ==
    /\ pc[t] \in {"close", "retire"}
    /\ closing = {} /\ target \in todo
    /\ \/ open' = open \ {target} /\ UNCHANGED unclosed
       \/ target \in open /\ UNCHANGED open /\ unclosed' = unclosed \cup {target}
    /\ todo' = todo \ {target}
    /\ closing' = {target}
    /\ strays' = strays \ {target}
    /\ UNCHANGED <<host, lock, mine, offered, local, calls, unnoticed, inits, moved>>

(* A use that reopened it since the call is lost on the host. *)
MarkClosed(t) ==
    /\ pc[t] \in {"close", "retire"}
    /\ closing # {}
    /\ closed' = closed \cup closing
    /\ closing' = {}
    /\ UNCHANGED <<executors, connected, isConnected, initialized, lock, mine, offered,
                   todo, open, local, calls, history>>

CloseEnd(t) ==
    /\ pc[t] = "close"
    /\ todo = {} /\ closing = {}
    /\ connected' = Nothing
    /\ EndGeneration
    /\ lock' = Nobody
    /\ Goto(t, "idle")
    /\ UNCHANGED <<executors, closed, mine, offered, todo, closing, open, provider,
                   excluded, path, calls, unnoticed, unclosed, strays>>

(* replace_providers(executor=...): a replaced provider's transport is     *)
(* closed unless one that stays shares it.                                 *)
Replace(t, new) ==
    LET gone == executors \ (new \cup Paths) IN
    /\ Start(t, "retire")
    /\ lock = Nobody
    /\ lock' = t
    /\ new # executors
    /\ executors' = new
    /\ connected' = [p \in Providers |-> IF p \in gone THEN 0 ELSE connected[p]]
    /\ todo' = (Targets(gone) \ Targets(new \cup Paths)) \ closed
    /\ EndGeneration
    /\ UNCHANGED <<closed, mine, offered, closing, open, provider, excluded, path,
                   unnoticed, unclosed, strays>>

ReplaceEnd(t) ==
    /\ pc[t] = "retire"
    /\ todo = {} /\ closing = {}
    /\ lock' = Nobody
    /\ Goto(t, "idle")
    /\ UNCHANGED <<host, mine, offered, todo, closing, open, provider, excluded, path,
                   calls, history>>

-----------------------------------------------------------------------------
(* path(): the provider is noted as in use, in the lock, and then builds   *)
(* the path, which may take a connection, or declines.                     *)
PathBegin(t) ==
    /\ Start(t, "pick")
    /\ UNCHANGED <<host, held, open, provider, excluded, path, history>>

PathPick(t, p) ==
    /\ pc[t] = "pick" /\ lock = Nobody
    /\ p \in Paths \ excluded[t]
    /\ Notice(p)
    /\ provider' = [provider EXCEPT ![t] = p]
    /\ Goto(t, "build")
    /\ UNCHANGED <<executors, connected, isConnected, initialized, held, open, excluded,
                   path, calls, strays, inits, moved>>

PathBuilt(t, connects) ==
    /\ pc[t] = "build"
    /\ IF connects THEN Reopen(provider[t]) ELSE UNCHANGED <<open, unnoticed>>
    /\ path' = [path EXCEPT ![t] = Paths]
    /\ Leave(t)
    /\ UNCHANGED <<host, held, calls, unclosed, strays, inits, moved>>

PathDeclined(t) ==
    /\ pc[t] = "build"
    /\ FailOver(t, "pick")
    /\ UNCHANGED <<host, held, open, path, calls, history>>

(* An operation of that path, now or long after, connects whichever of its *)
(* providers takes it; the host is not told.                               *)
PathUse(t, p) ==
    /\ Start(t, "idle")
    /\ p \in path[t]
    /\ Reopen(p)
    /\ UNCHANGED <<host, held, provider, excluded, path, unclosed, strays, inits, moved>>

Step(t) ==
    \/ \E p \in Providers:
          \/ RunSelect(t, p) \/ Connects(t, p) \/ ConnectRefused(t, p)
          \/ ConnectFails(t, p) \/ PathPick(t, p)
    \/ \E refuses \in BOOLEAN:
          NotReady(t, refuses) \/ Dispatch(t, refuses) \/ InitializerFails(t, refuses)
    \/ RunNone(t) \/ Ready(t) \/ ConnectSkips(t) \/ ConnectNothing(t) \/ ConnectEnd(t)
    \/ InitializerDone(t)
    \/ \E target \in Transports: CloseTarget(t, target)
    \/ MarkClosed(t) \/ CloseEnd(t) \/ ReplaceEnd(t)
    \/ \E connects \in BOOLEAN: PathBuilt(t, connects)
    \/ PathDeclined(t)

Next == \E t \in Threads:
    \/ Step(t)
    \/ RunBegin(t) \/ ConnectBegin(t) \/ CloseBegin(t) \/ PathBegin(t)
    \/ \E p \in Providers: InitializerRuns(t, p) \/ PathUse(t, p)
    \/ \E new \in ExecutorSets: Replace(t, new)

(* A thread inside an operation is scheduled again, and the calls it makes *)
(* on providers and on the initializer return.                             *)
Fairness == \A t \in Threads: WF_vars(Step(t))

Spec == Init /\ [][Next]_vars
FairSpec == Spec /\ Fairness

-----------------------------------------------------------------------------
TypeOK ==
    /\ executors \in ExecutorSets
    /\ connected \in [Providers -> Nat]
    /\ isConnected \in BOOLEAN
    /\ closed \subseteq Transports
    /\ initialized \in BOOLEAN
    /\ lock \in Threads \cup {Nobody}
    /\ mine \in [Providers -> Nat]
    /\ offered \in BOOLEAN
    /\ todo \subseteq Transports
    /\ closing \subseteq Transports
    /\ open \subseteq Transports
    /\ pc \in [Threads -> {"idle", "select", "ready", "dispatch", "initialize",
                           "connectRun", "connectPath", "connectEnd", "close",
                           "retire", "pick", "build"}]
    /\ provider \in [Threads -> Providers \cup {NoProvider}]
    /\ excluded \in [Threads -> SUBSET Providers]
    /\ path \in [Threads -> SUBSET Paths]
    /\ calls \in [Threads -> Nat] /\ \A t \in Threads: calls[t] <= MaxCalls[t]
    /\ unnoticed \subseteq Transports
    /\ unclosed \subseteq Transports
    /\ strays \subseteq Transports
    /\ inits \in Nat
    /\ moved \in [Threads -> BOOLEAN]

(* Concurrent first uses of a provider add it to the connected list once   *)
(* (`_ensure_provider_connected`).  `connect` adds one of each kind, which *)
(* for a provider that is of both is twice.                                *)
BothKinds == Paths \cap UNION ExecutorSets
ConnectedOnce == \A p \in Providers \ BothKinds: connected[p] <= 1

(* An open transport that the next `close()` would skip was reopened       *)
(* behind the host's back, by a path or by a dispatch a close overtook, or *)
(* its own `close` raised.                                                 *)
SkippedOnlyUnnoticed == open \cap closed \subseteq unnoticed \cup unclosed

(* `close()` leaves open only what was so reopened, what raised, then or   *)
(* in an earlier close, or what a run had connected for a provider that    *)
(* was replaced under it.                                                  *)
CloseClosesAll ==
    \A t \in Threads: pc[t] = "close" /\ todo \cup closing = {} =>
        open \subseteq unnoticed \cup unclosed \cup strays

(* The host knows its transports: none is listed twice, skipped without    *)
(* reason, or left open by a close that it was told of.                    *)
TransportsAccounted == TypeOK /\ ConnectedOnce /\ SkippedOnlyUnnoticed /\ CloseClosesAll

(* The initializer completes at most once per generation, although the     *)
(* commands it runs make providers ready themselves.                       *)
InitializedOnce == inits <= 1 /\ (initialized <=> inits = 1)

(* Nothing is dispatched to a provider before the initializer of its       *)
(* generation is done, unless the generation ended after it was made ready.*)
DispatchInitialized ==
    \A t \in Threads: pc[t] = "dispatch" /\ ~moved[t] => initialized

(* The initializer comes first, and once (`session_initializer`).          *)
InitializedFirst == InitializedOnce /\ DispatchInitialized

(* Every operation ends: nobody waits for the lifecycle lock for ever.     *)
OperationEnds == \A t \in Threads: pc[t] # "idle" ~> pc[t] = "idle"
=============================================================================
