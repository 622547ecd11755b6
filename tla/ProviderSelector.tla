-------------------------- MODULE ProviderSelector --------------------------
(***************************************************************************)
(* `ProviderSelector` (provider/_selector.py) and the failover loop        *)
(* `SystemHost.run` drives it with (system/_host.py), under several        *)
(* threads.  The dictionaries are guarded by a lock, but a probe is made   *)
(* outside it and `select` reads the declines without it, so an operation  *)
(* is split here at exactly those points.                                  *)
(*                                                                         *)
(* A provider is its rank: 1 is preferred.  What a provider answers (its   *)
(* probe, and whether it refuses or starts an operation) is chosen freely. *)
(***************************************************************************)
EXTENDS Integers, FiniteSets

CONSTANTS Threads,         \* the threads sharing the host
          NumProviders,    \* how many executor providers the host has
          Spawns,          \* the providers that declare the `spawn` capability
          Does,            \* Does[t]: the operations thread t makes
          MaxCalls,        \* bound: how many of them it makes
          MaxGeneration    \* bound: how often the selector is invalidated

Providers == 1 .. NumProviders

ASSUME SelectorAssumption == /\ NumProviders \in Nat
                             /\ Spawns \subseteq Providers
                             /\ Does \in [Threads -> SUBSET {"run", "spawn", "inspect"}]
                             /\ MaxCalls \in [Threads -> Nat]
                             /\ MaxGeneration \in Nat

VARIABLES declined,    \* the names in `_declined`
          cache,       \* `_probe_cache`: a probe's answer, or "none"
          generation,  \* `_generation`
          pc,          \* where each thread is in its operation
          kind,        \* what the thread's operation is
          cursor,      \* the provider its `select` loop is at
          excluded,    \* the names its failover loop excludes
          trace,       \* `_attempt_trace`, the thread's own
          calls        \* operations each thread has started

(* History, which no action's guard reads. *)
VARIABLES tried,       \* the providers the thread's operation was offered to
          unusable,    \* the providers its own probes found unusable
          disturbed    \* another thread dropped declines while it ran

shared == <<declined, cache, generation>>
local == <<pc, kind, cursor, excluded, trace, calls>>
history == <<tried, unusable, disturbed>>
vars == <<shared, local, history>>

-----------------------------------------------------------------------------
(* `run` takes any provider and fails over; `spawn` asks for a capability  *)
(* and does not; `inspect` (provider_details, capabilities) only probes.   *)
Kinds == {"run", "spawn", "inspect"}

(* A probe that leaves the provider usable may still state a capability    *)
(* set without `spawn`: it is "narrowed".                                  *)
Probes == {"available", "narrowed", "unavailable"}

(* A trace entry: a decline and an unavailable probe are both recorded as  *)
(* unavailable; the reason tells them apart.                               *)
Steps == {"none", "chosen", "declined"} \cup Probes

NoTrace == [p \in Providers |-> "none"]

Offers(k, p) == k = "spawn" => p \in Spawns

Allowed(k, p, probe) ==
    /\ probe # "unavailable"
    /\ k = "spawn" => p \in Spawns /\ probe = "available"

Init ==
    /\ declined = {}
    /\ cache = [p \in Providers |-> "none"]
    /\ generation = 0
    /\ pc = [t \in Threads |-> "idle"]
    /\ kind = [t \in Threads |-> "run"]
    /\ cursor = [t \in Threads |-> 1]
    /\ excluded = [t \in Threads |-> {}]
    /\ trace = [t \in Threads |-> NoTrace]
    /\ calls = [t \in Threads |-> 0]
    /\ tried = [t \in Threads |-> {}]
    /\ unusable = [t \in Threads |-> {}]
    /\ disturbed = [t \in Threads |-> FALSE]

(* The thread is inside `run` or `spawn`. *)
Running(t) == pc[t] # "idle" /\ kind[t] # "inspect"

(* The declines another thread's operation may have counted on are gone. *)
Disturb(t) ==
    disturbed' = [u \in Threads |-> disturbed[u] \/ (u # t /\ Running(u))]

-----------------------------------------------------------------------------
(* A thread starts an operation; an empty `exclude` starts its trace. *)
Begin(t, k) ==
    /\ pc[t] = "idle"
    /\ k \in Does[t] /\ calls[t] < MaxCalls[t]
    /\ calls' = [calls EXCEPT ![t] = @ + 1]
    /\ pc' = [pc EXCEPT ![t] = "look"]
    /\ kind' = [kind EXCEPT ![t] = k]
    /\ UNCHANGED <<shared, cursor, excluded, trace, tried, unusable, disturbed>>

(* Mutant: what this operation excluded is passed before the decline is    *)
(* looked up, so its refusal is never recorded.                            *)
PassDeclinedUnlessExcluded(t) ==
    LET p == cursor[t] IN
    /\ pc[t] = "look" /\ p \in Providers
    /\ p \in declined
    /\ trace' = [trace EXCEPT ![t][p] =
                    IF kind[t] = "inspect" \/ p \in excluded[t] THEN @ ELSE "declined"]
    /\ cursor' = [cursor EXCEPT ![t] = @ + 1]
    /\ UNCHANGED <<shared, pc, kind, excluded, calls, history>>

(* The loop passes a declined provider, recording the refusal even when    *)
(* this operation made it itself.  `probe` looks a decline up once more,   *)
(* and one that came since the loop did is passed and recorded alike.      *)
PassDeclined(t) ==
    LET p == cursor[t] IN
    /\ pc[t] = "look" /\ p \in Providers
    /\ p \in declined
    /\ trace' = [trace EXCEPT ![t][p] = IF kind[t] = "inspect" THEN @ ELSE "declined"]
    /\ cursor' = [cursor EXCEPT ![t] = @ + 1]
    /\ UNCHANGED <<shared, pc, kind, excluded, calls, history>>

(* A provider this operation excluded, no longer declined: no record. *)
PassExcluded(t) ==
    LET p == cursor[t] IN
    /\ pc[t] = "look" /\ p \in Providers
    /\ p \in excluded[t] \ declined
    /\ cursor' = [cursor EXCEPT ![t] = @ + 1]
    /\ UNCHANGED <<shared, pc, kind, excluded, trace, calls, history>>

(* The tail of the loop's body, once `probe` has answered for p. *)
Judge(t, p, probe) ==
    /\ IF kind[t] # "inspect" /\ Allowed(kind[t], p, probe)
       THEN /\ trace' = [trace EXCEPT ![t][p] = "chosen"]
            /\ pc' = [pc EXCEPT ![t] = "chosen"]
            /\ UNCHANGED <<cursor, unusable>>
       ELSE /\ pc' = [pc EXCEPT ![t] = "look"]
            /\ cursor' = [cursor EXCEPT ![t] = @ + 1]
            /\ IF kind[t] = "inspect"
               THEN UNCHANGED <<trace, unusable>>
               ELSE /\ trace' = [trace EXCEPT ![t][p] = probe]
                    /\ unusable' = [unusable EXCEPT ![t] = @ \cup {p}]
    /\ UNCHANGED <<declined, generation, kind, excluded, calls, tried,
                   disturbed>>

ProbeCached(t) ==
    LET p == cursor[t] IN
    /\ pc[t] = "look" /\ p \in Providers
    /\ p \notin declined \cup excluded[t]
    /\ cache[p] # "none"
    /\ Judge(t, p, cache[p])
    /\ UNCHANGED cache

(* Nothing cached: the provider's own probe runs, with no lock held. *)
ProbeStart(t) ==
    LET p == cursor[t] IN
    /\ pc[t] = "look" /\ p \in Providers
    /\ p \notin declined \cup excluded[t]
    /\ cache[p] = "none"
    /\ pc' = [pc EXCEPT ![t] = "probing"]
    /\ UNCHANGED <<shared, kind, cursor, excluded, trace, calls, history>>

(* It answers, or raises and counts as unavailable; the answer is cached. *)
ProbeReturn(t, probe) ==
    LET p == cursor[t] IN
    /\ pc[t] = "probing"
    /\ probe = "narrowed" => p \in Spawns
    /\ cache' = [cache EXCEPT ![p] = probe]
    /\ Judge(t, p, probe)

(* The operation returns to its caller.  Its loop's variables are gone; so *)
(* is the trace here, which nothing reads before `select` starts a new one.*)
Return(t) ==
    /\ pc' = [pc EXCEPT ![t] = "idle"]
    /\ kind' = [kind EXCEPT ![t] = "run"]
    /\ cursor' = [cursor EXCEPT ![t] = 1]
    /\ excluded' = [excluded EXCEPT ![t] = {}]
    /\ trace' = [trace EXCEPT ![t] = NoTrace]
    /\ tried' = [tried EXCEPT ![t] = {}]
    /\ unusable' = [unusable EXCEPT ![t] = {}]

Finish(t) == Return(t) /\ disturbed' = [disturbed EXCEPT ![t] = FALSE]

-----------------------------------------------------------------------------
(* The end of the loop: declines this operation did not make are dropped   *)
(* and it looks again, or there is nothing left.  Selecting again with     *)
(* nothing excluded starts the trace over.                                 *)
StaleNone(t) == {}    \* Mutant: no earlier decline is forgotten.

Stale(t) == {p \in declined \ excluded[t]: Offers(kind[t], p)}

AtEnd(t) == pc[t] = "look" /\ cursor[t] \notin Providers

Readmit(t) ==
    /\ AtEnd(t) /\ kind[t] # "inspect"
    /\ Stale(t) # {}
    /\ declined' = declined \ Stale(t)
    /\ cursor' = [cursor EXCEPT ![t] = 1]
    /\ trace' = [trace EXCEPT ![t] = IF excluded[t] = {} THEN NoTrace ELSE @]
    /\ Disturb(t)
    /\ UNCHANGED <<cache, generation, pc, kind, excluded, calls, tried,
                   unusable>>

NoneAvailable(t) ==
    /\ AtEnd(t) /\ kind[t] # "inspect"
    /\ Stale(t) = {}
    /\ Finish(t)
    /\ UNCHANGED <<shared, calls>>

Inspected(t) ==
    /\ AtEnd(t) /\ kind[t] = "inspect"
    /\ Finish(t)
    /\ UNCHANGED <<shared, calls>>

-----------------------------------------------------------------------------
(* The chosen provider proves that nothing started.  `run` declines it and *)
(* selects again without it; from `spawn` the refusal reaches the caller.  *)
FailOverUnexcluded(t, p) ==    \* Mutant: the name is not excluded.
    /\ cursor' = [cursor EXCEPT ![t] = 1]
    /\ pc' = [pc EXCEPT ![t] = "look"]
    /\ tried' = [tried EXCEPT ![t] = @ \cup {p}]
    /\ UNCHANGED <<kind, excluded, unusable>>

FailOverFromZero(t, p) ==      \* Mutant: the next look starts one too early.
    /\ excluded' = [excluded EXCEPT ![t] = @ \cup {p}]
    /\ cursor' = [cursor EXCEPT ![t] = 0]
    /\ pc' = [pc EXCEPT ![t] = "look"]
    /\ tried' = [tried EXCEPT ![t] = @ \cup {p}]
    /\ UNCHANGED <<kind, unusable>>

FailOver(t, p) ==
    /\ excluded' = [excluded EXCEPT ![t] = @ \cup {p}]
    /\ cursor' = [cursor EXCEPT ![t] = 1]
    /\ pc' = [pc EXCEPT ![t] = "look"]
    /\ tried' = [tried EXCEPT ![t] = @ \cup {p}]
    /\ UNCHANGED <<kind, unusable>>

Refuse(t) ==
    LET p == cursor[t] IN
    /\ pc[t] = "chosen"
    /\ IF kind[t] = "run"
       THEN /\ declined' = declined \cup {p}
            /\ FailOver(t, p)
            /\ UNCHANGED <<trace, disturbed>>
       ELSE /\ Finish(t)
            /\ UNCHANGED declined
    /\ UNCHANGED <<cache, generation, calls>>

(* The chosen provider starts the operation.  What it returns or raises is *)
(* the caller's; nothing is tried again.                                   *)
Serve(t) ==
    /\ pc[t] = "chosen"
    /\ Finish(t)
    /\ UNCHANGED <<shared, calls>>

(* What `_served` then reports `run` fell back from: the providers ranked  *)
(* above the chosen one that the trace has as unavailable.                 *)
SkippedByProbe(t) ==    \* Mutant: a decline does not count as skipped.
    {p \in 1 .. cursor[t] - 1: trace[t][p] = "unavailable"}

Skipped(t) ==
    {p \in 1 .. cursor[t] - 1: trace[t][p] \in {"declined", "unavailable"}}

(* A new generation: the maps are emptied in one step under the lock, and  *)
(* only the calling thread's trace is reset.                               *)
NewGeneration ==
    /\ generation < MaxGeneration
    /\ generation' = generation + 1
    /\ cache' = [p \in Providers |-> "none"]

(* `close()` or `replace_providers` by a thread that runs no operation. *)
Invalidate(t) ==
    /\ pc[t] = "idle"
    /\ NewGeneration
    /\ declined' = {}
    /\ Disturb(t)
    /\ UNCHANGED <<local, tried, unusable>>

(* The session initializer fails inside the chosen provider's connection:  *)
(* the selector is invalidated under this very operation.  A failure that  *)
(* proves nothing started is then a refusal like any other; another one is *)
(* raised to the caller.                                                   *)
InitializerFails(t, refuses) ==
    LET p == cursor[t] IN
    /\ pc[t] = "chosen" /\ kind[t] = "run"
    /\ NewGeneration
    /\ IF refuses
       THEN /\ declined' = {p}
            /\ trace' = [trace EXCEPT ![t] = NoTrace]
            /\ FailOver(t, p)
       ELSE declined' = {} /\ Return(t)
    /\ disturbed' = [u \in Threads |-> Running(u)']
    /\ UNCHANGED calls

(* `retry_declined()`. *)
RetryDeclined(t) ==
    /\ pc[t] = "idle"
    /\ declined # {}
    /\ declined' = {}
    /\ Disturb(t)
    /\ UNCHANGED <<cache, generation, local, tried, unusable>>

Step(t) ==
    \/ PassDeclined(t) \/ PassExcluded(t)
    \/ ProbeCached(t) \/ ProbeStart(t)
    \/ \E probe \in Probes: ProbeReturn(t, probe)
    \/ Readmit(t) \/ NoneAvailable(t) \/ Inspected(t)
    \/ Refuse(t) \/ Serve(t)

Next == \E t \in Threads:
    \/ \E k \in Kinds: Begin(t, k)
    \/ Step(t)
    \/ \E refuses \in BOOLEAN: InitializerFails(t, refuses)
    \/ Invalidate(t)
    \/ RetryDeclined(t)

(* A thread inside an operation is scheduled again, and a provider's probe *)
(* and its answer return.  Nobody has to start an operation.               *)
Fairness == \A t \in Threads: WF_vars(Step(t))

Spec == Init /\ [][Next]_vars
FairSpec == Spec /\ Fairness

-----------------------------------------------------------------------------
TypeOK ==
    /\ declined \subseteq Providers
    /\ cache \in [Providers -> Probes \cup {"none"}]
    /\ generation \in 0 .. MaxGeneration
    /\ pc \in [Threads -> {"idle", "look", "probing", "chosen"}]
    /\ kind \in [Threads -> Kinds]
    /\ cursor \in [Threads -> 1 .. NumProviders + 1]
    /\ excluded \in [Threads -> SUBSET Providers]
    /\ trace \in [Threads -> [Providers -> Steps]]
    /\ calls \in [Threads -> Nat] /\ \A t \in Threads: calls[t] <= MaxCalls[t]
    /\ tried \in [Threads -> SUBSET Providers]
    /\ unusable \in [Threads -> SUBSET Providers]
    /\ disturbed \in [Threads -> BOOLEAN]

(* `run` is about to say "no provider is available". *)
Exhausted(t) == AtEnd(t) /\ kind[t] = "run" /\ Stale(t) = {}

(* It says so only of an operation that was refused by every provider or   *)
(* found it unusable by a probe, never because of what an earlier one was  *)
(* refused -- unless another thread drops declines meanwhile (`select`,    *)
(* `_readmit_earlier_declines`).                                           *)
HonestRefusal ==
    /\ TypeOK
    /\ \A t \in Threads:
           Exhausted(t) /\ ~disturbed[t] => tried[t] \cup unusable[t] = Providers

(* The trace it raises with has every provider it tried as declined, not   *)
(* as chosen, and every other one as unavailable, however often it looked  *)
(* again (`select`, `_record`).                                            *)
RefusalTrace ==
    \A t \in Threads:
        Exhausted(t) /\ ~disturbed[t]
            => \A p \in Providers:
                  trace[t][p] = IF p \in tried[t] THEN "declined" ELSE "unavailable"

(* A provider that refused an operation before a lower ranked one is       *)
(* chosen for it is among those `_served` reports as fallen back from.     *)
FallbackReported ==
    \A t \in Threads:
        pc[t] = "chosen" /\ ~disturbed[t]
            => {p \in tried[t]: p < cursor[t]} \subseteq Skipped(t)

(* What the host reports of its choices is so, in an error or in a note.   *)
HonestReport == RefusalTrace /\ FallbackReported

(* Every operation is offered to each provider at most once and stops at   *)
(* the first that starts it: the loop implements Failover.                 *)
F == INSTANCE Failover WITH
        running <- {t \in Threads: Running(t)},
        offered <- [t \in Threads |-> IF pc[t] = "chosen" THEN {cursor[t]} ELSE {}]
OfferedOnce == F!Spec

(* An operation that has begun ends: looking again cannot go on for ever   *)
(* (`select` calling itself, the loop of `run`).                           *)
OperationEnds == \A t \in Threads: pc[t] # "idle" ~> pc[t] = "idle"
=============================================================================
