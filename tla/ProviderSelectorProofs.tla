----------------------- MODULE ProviderSelectorProofs -----------------------
(***************************************************************************)
(* What ProviderSelector promises whatever the number of threads and of    *)
(* providers: its type, what a refusal proves, and that the failover loop  *)
(* implements Failover.                                                    *)
(***************************************************************************)
EXTENDS ProviderSelector, TLAPS

(* A thread that probes a provider, or has chosen it, stands at one of the *)
(* host's that it has not excluded; only `run` and `spawn` choose.         *)
Placed(t) ==
    /\ pc[t] \in {"probing", "chosen"} => cursor[t] \in Providers \ excluded[t]
    /\ pc[t] = "chosen" => kind[t] # "inspect"

(* What a thread's loop remembers goes with the operation, and what it     *)
(* excludes is what refused the operation.                                 *)
Remembers(t) ==
    /\ pc[t] = "idle" => cursor[t] = 1
    /\ excluded[t] = tried[t]
    /\ pc[t] = "idle" \/ kind[t] = "inspect" => tried[t] = {}

Local(t) == Placed(t) /\ Remembers(t)

(* Behind its cursor a `run` has left only providers it has a reason to    *)
(* pass, unless another thread has dropped declines meanwhile.             *)
Passed(t) ==
    pc[t] # "idle" /\ kind[t] = "run" /\ ~disturbed[t]
        => \A p \in Providers:
              p < cursor[t] => p \in declined \cup excluded[t] \cup unusable[t]

IInv == TypeOK /\ \A t \in Threads: Local(t) /\ Passed(t)

LEMMA TypeInit == Init => TypeOK
  BY SelectorAssumption DEF Init, TypeOK, Providers, Kinds, Steps, Probes, NoTrace

(* Returning to the caller leaves a thread's own variables typed. *)
LEMMA TypeReturn ==
  ASSUME NEW t \in Threads, TypeOK, Return(t)
  PROVE  /\ pc' \in [Threads -> {"idle", "look", "probing", "chosen"}]
         /\ kind' \in [Threads -> Kinds]
         /\ cursor' \in [Threads -> 1 .. NumProviders + 1]
         /\ excluded' \in [Threads -> SUBSET Providers]
         /\ trace' \in [Threads -> [Providers -> Steps]]
         /\ tried' \in [Threads -> SUBSET Providers]
         /\ unusable' \in [Threads -> SUBSET Providers]
  BY SelectorAssumption DEF Return, TypeOK, Kinds, NoTrace, Steps

(* So does failing over, from a provider of the host. *)
LEMMA TypeFailOver ==
  ASSUME NEW t \in Threads, NEW p \in Providers, TypeOK, FailOver(t, p)
  PROVE  /\ pc' \in [Threads -> {"idle", "look", "probing", "chosen"}]
         /\ kind' \in [Threads -> Kinds]
         /\ cursor' \in [Threads -> 1 .. NumProviders + 1]
         /\ excluded' \in [Threads -> SUBSET Providers]
         /\ tried' \in [Threads -> SUBSET Providers]
         /\ unusable' \in [Threads -> SUBSET Providers]
  BY SelectorAssumption DEF FailOver, TypeOK, Providers

(* And judging a probe's answer, which caching it does not disturb. *)
LEMMA TypeJudge ==
  ASSUME NEW t \in Threads, NEW p \in Providers, NEW probe \in Probes,
         TypeOK, cursor[t] = p, Judge(t, p, probe)
  PROVE  /\ declined' \subseteq Providers
         /\ generation' \in 0 .. MaxGeneration
         /\ pc' \in [Threads -> {"idle", "look", "probing", "chosen"}]
         /\ kind' \in [Threads -> Kinds]
         /\ cursor' \in [Threads -> 1 .. NumProviders + 1]
         /\ excluded' \in [Threads -> SUBSET Providers]
         /\ trace' \in [Threads -> [Providers -> Steps]]
         /\ calls' \in [Threads -> Nat] /\ \A u \in Threads: calls'[u] <= MaxCalls[u]
         /\ tried' \in [Threads -> SUBSET Providers]
         /\ unusable' \in [Threads -> SUBSET Providers]
         /\ disturbed' \in [Threads -> BOOLEAN]
<1>1. cursor' \in [Threads -> 1 .. NumProviders + 1]
  <2>1. cursor' = cursor \/ cursor' = [cursor EXCEPT ![t] = p + 1]
    BY DEF Judge
  <2>2. p + 1 \in 1 .. NumProviders + 1
    BY SelectorAssumption DEF Providers
  <2>3. cursor \in [Threads -> 1 .. NumProviders + 1]
    BY DEF TypeOK
  <2> QED
    BY <2>1, <2>2, <2>3
<1>2. trace' \in [Threads -> [Providers -> Steps]]
  <2>1. \/ trace' = trace
        \/ \E s \in Steps: trace' = [trace EXCEPT ![t][p] = s]
    BY DEF Judge, Steps
  <2>2. ASSUME NEW s \in Steps, trace' = [trace EXCEPT ![t][p] = s]
        PROVE  trace' \in [Threads -> [Providers -> Steps]]
    <3>1. trace[t] \in [Providers -> Steps]
      BY DEF TypeOK
    <3>2. [trace[t] EXCEPT ![p] = s] \in [Providers -> Steps]
      BY <3>1
    <3> QED
      BY <2>2, <3>2 DEF TypeOK
  <2> QED
    BY <2>1, <2>2 DEF TypeOK
<1>3. pc' \in [Threads -> {"idle", "look", "probing", "chosen"}]
  BY DEF Judge, TypeOK
<1>4. unusable' \in [Threads -> SUBSET Providers]
  <2>1. \/ unusable' = unusable
        \/ unusable' = [unusable EXCEPT ![t] = @ \cup {p}]
    BY DEF Judge
  <2> QED
    BY <2>1 DEF TypeOK
<1>5. UNCHANGED <<declined, generation, kind, excluded, calls, tried, disturbed>>
  BY DEF Judge
<1>6. QED
  BY <1>1, <1>2, <1>3, <1>4, <1>5 DEF TypeOK

(* A step taken inside an operation. *)
LEMMA TypeStep ==
  ASSUME NEW t \in Threads, TypeOK, Local(t), Step(t)
  PROVE  TypeOK'
<1> USE SelectorAssumption
<1>1. CASE PassDeclined(t)
  BY <1>1 DEF PassDeclined, TypeOK, Providers, Steps, shared, history
<1>2. CASE PassExcluded(t)
  BY <1>2 DEF PassExcluded, TypeOK, Providers, shared, history
<1>3. CASE ProbeCached(t)
  <2> DEFINE p == cursor[t]
  <2>1. p \in Providers /\ cache[p] \in Probes /\ Judge(t, p, cache[p])
    BY <1>3 DEF ProbeCached, TypeOK
  <2>2. UNCHANGED cache
    BY <1>3 DEF ProbeCached
  <2> QED
    BY <2>1, <2>2, TypeJudge DEF TypeOK
<1>4. CASE ProbeStart(t)
  BY <1>4 DEF ProbeStart, TypeOK, shared, history
<1>5. CASE \E probe \in Probes: ProbeReturn(t, probe)
  <2> DEFINE p == cursor[t]
  <2>1. PICK probe \in Probes: ProbeReturn(t, probe)
    BY <1>5
  <2>2. p \in Providers /\ Judge(t, p, probe)
    BY <2>1 DEF ProbeReturn, Local, Placed
  <2>3. cache' = [cache EXCEPT ![p] = probe]
    BY <2>1 DEF ProbeReturn
  <2>4. cache' \in [Providers -> Probes \cup {"none"}]
    BY <2>2, <2>3 DEF TypeOK
  <2> QED
    BY <2>2, <2>4, TypeJudge DEF TypeOK
<1>6. CASE Readmit(t)
  <2>1. declined' \subseteq Providers /\ cursor' \in [Threads -> 1 .. NumProviders + 1]
    BY <1>6 DEF Readmit, TypeOK
  <2>2. trace' \in [Threads -> [Providers -> Steps]]
    <3>1. NoTrace \in [Providers -> Steps]
      BY DEF NoTrace, Steps
    <3> QED
      BY <1>6, <3>1 DEF Readmit, TypeOK
  <2>3. disturbed' \in [Threads -> BOOLEAN]
    BY <1>6 DEF Readmit, Disturb
  <2> QED
    BY <1>6, <2>1, <2>2, <2>3 DEF Readmit, TypeOK
<1>7. CASE NoneAvailable(t)
  BY <1>7, TypeReturn DEF NoneAvailable, Finish, TypeOK, shared
<1>8. CASE Inspected(t)
  BY <1>8, TypeReturn DEF Inspected, Finish, TypeOK, shared
<1>9. CASE Refuse(t)
  <2> DEFINE p == cursor[t]
  <2>1. p \in Providers
    BY <1>9 DEF Refuse, Local, Placed
  <2>2. CASE kind[t] = "run"
    <3>1. FailOver(t, p) /\ declined' = declined \cup {p}
      BY <1>9, <2>2 DEF Refuse
    <3>2. UNCHANGED <<cache, generation, calls, trace, disturbed>>
      BY <1>9, <2>2 DEF Refuse
    <3> QED
      BY <2>1, <3>1, <3>2, TypeFailOver DEF TypeOK
  <2>3. CASE kind[t] # "run"
    BY <1>9, <2>3, TypeReturn DEF Refuse, Finish, TypeOK
  <2> QED
    BY <2>2, <2>3
<1>10. CASE Serve(t)
  BY <1>10, TypeReturn DEF Serve, Finish, TypeOK, shared
<1> QED
  BY <1>1, <1>2, <1>3, <1>4, <1>5, <1>6, <1>7, <1>8, <1>9, <1>10 DEF Step

(* Starting a generation. *)
LEMMA TypeNewGeneration ==
  ASSUME TypeOK, NewGeneration
  PROVE  /\ generation' \in 0 .. MaxGeneration
         /\ cache' \in [Providers -> Probes \cup {"none"}]
  BY SelectorAssumption DEF NewGeneration, TypeOK

LEMMA TypeNext ==
  ASSUME IInv, [Next]_vars
  PROVE  TypeOK'
<1> USE SelectorAssumption DEF IInv
<1>1. CASE UNCHANGED vars
  BY <1>1 DEF vars, shared, local, history, TypeOK
<1>2. ASSUME NEW t \in Threads, NEW k \in Kinds, Begin(t, k)
      PROVE  TypeOK'
  BY <1>2 DEF Begin, TypeOK, shared
<1>3. ASSUME NEW t \in Threads, Step(t)
      PROVE  TypeOK'
  BY <1>3, TypeStep
<1>4. ASSUME NEW t \in Threads, Invalidate(t)
      PROVE  TypeOK'
  <2>1. disturbed' \in [Threads -> BOOLEAN]
    BY <1>4 DEF Invalidate, Disturb
  <2> QED
    BY <1>4, <2>1, TypeNewGeneration DEF Invalidate, TypeOK, local
<1>5. ASSUME NEW t \in Threads, RetryDeclined(t)
      PROVE  TypeOK'
  BY <1>5 DEF RetryDeclined, Disturb, TypeOK, local
<1>6. ASSUME NEW t \in Threads, NEW refuses \in BOOLEAN, InitializerFails(t, refuses)
      PROVE  TypeOK'
  <2> DEFINE p == cursor[t]
  <2>1. p \in Providers
    BY <1>6 DEF InitializerFails, Local, Placed
  <2>2. NewGeneration /\ UNCHANGED calls
    BY <1>6 DEF InitializerFails
  <2>3. disturbed' \in [Threads -> BOOLEAN]
    BY <1>6 DEF InitializerFails, Running
  <2>4. CASE refuses
    <3>1. FailOver(t, p) /\ declined' = {p} /\ trace' = [trace EXCEPT ![t] = NoTrace]
      BY <1>6, <2>4 DEF InitializerFails
    <3>2. trace' \in [Threads -> [Providers -> Steps]]
      <4>1. NoTrace \in [Providers -> Steps]
        BY DEF NoTrace, Steps
      <4> QED
        BY <3>1, <4>1 DEF TypeOK
    <3> QED
      BY <2>1, <2>2, <2>3, <3>1, <3>2, TypeFailOver, TypeNewGeneration DEF TypeOK
  <2>5. CASE ~refuses
    <3>1. Return(t) /\ declined' = {}
      BY <1>6, <2>5 DEF InitializerFails
    <3> QED
      BY <2>2, <2>3, <3>1, TypeReturn, TypeNewGeneration DEF TypeOK
  <2> QED
    BY <2>4, <2>5
<1> QED
  BY <1>1, <1>2, <1>3, <1>4, <1>5, <1>6 DEF Next

LEMMA LocalStep ==
  ASSUME TypeOK, \A u \in Threads: Local(u), NEW t \in Threads, Step(t)
  PROVE  \A u \in Threads: Local(u)'
<1> USE DEF TypeOK, Local, Placed, Remembers
<1>1. CASE PassDeclined(t)
  BY <1>1 DEF PassDeclined, history
<1>2. CASE PassExcluded(t)
  BY <1>2 DEF PassExcluded, history
<1>3. ASSUME NEW p \in Providers, p = cursor[t], p \notin excluded[t],
             NEW probe, pc[t] # "idle", Judge(t, p, probe)
      PROVE  \A u \in Threads: Local(u)'
  <2>1. UNCHANGED <<kind, excluded, tried>>
    BY <1>3 DEF Judge
  <2>2. \/ /\ pc' = [pc EXCEPT ![t] = "chosen"] /\ cursor' = cursor
           /\ kind[t] # "inspect"
        \/ /\ pc' = [pc EXCEPT ![t] = "look"]
           /\ cursor' = [cursor EXCEPT ![t] = @ + 1]
    BY <1>3 DEF Judge
  <2> QED
    BY <1>3, <2>1, <2>2
<1>4. CASE ProbeCached(t)
  BY <1>3, <1>4 DEF ProbeCached
<1>5. CASE ProbeStart(t)
  BY <1>5 DEF ProbeStart, history
<1>6. CASE \E probe \in Probes: ProbeReturn(t, probe)
  BY <1>3, <1>6 DEF ProbeReturn
<1>7. CASE Readmit(t)
  BY <1>7 DEF Readmit, AtEnd
<1>8. ASSUME Return(t)
      PROVE  \A u \in Threads: Local(u)'
  BY <1>8 DEF Return
<1>9. CASE NoneAvailable(t)
  BY <1>8, <1>9 DEF NoneAvailable, Finish
<1>10. CASE Inspected(t)
  BY <1>8, <1>10 DEF Inspected, Finish
<1>11. ASSUME NEW p, FailOver(t, p), pc[t] # "idle", kind[t] # "inspect"
       PROVE  \A u \in Threads: Local(u)'
  <2> SUFFICES ASSUME NEW u \in Threads
               PROVE  Local(u)'
    OBVIOUS
  <2>1. CASE u = t
    BY <1>11, <2>1 DEF FailOver
  <2>2. CASE u # t
    BY <1>11, <2>2 DEF FailOver
  <2> QED
    BY <2>1, <2>2
<1>12. CASE Refuse(t)
  BY <1>8, <1>11, <1>12 DEF Refuse, Finish
<1>13. CASE Serve(t)
  BY <1>8, <1>13 DEF Serve, Finish
<1> QED
  BY <1>1, <1>2, <1>4, <1>5, <1>6, <1>7, <1>9, <1>10, <1>12, <1>13 DEF Step

LEMMA LocalNext ==
  ASSUME IInv, [Next]_vars
  PROVE  \A u \in Threads: Local(u)'
<1> USE DEF IInv
<1>1. CASE UNCHANGED vars
  BY <1>1 DEF vars, local, history, Local, Placed, Remembers
<1>2. ASSUME NEW t \in Threads, NEW k \in Kinds, Begin(t, k)
      PROVE  \A u \in Threads: Local(u)'
  BY <1>2 DEF Begin, TypeOK, Local, Placed, Remembers
<1>3. ASSUME NEW t \in Threads, Step(t)
      PROVE  \A u \in Threads: Local(u)'
  BY <1>3, LocalStep
<1>4. ASSUME NEW t \in Threads, Invalidate(t) \/ RetryDeclined(t)
      PROVE  \A u \in Threads: Local(u)'
  BY <1>4 DEF Invalidate, RetryDeclined, local, Local, Placed, Remembers
<1>5. ASSUME NEW t \in Threads, NEW refuses \in BOOLEAN, InitializerFails(t, refuses)
      PROVE  \A u \in Threads: Local(u)'
  <2> USE DEF TypeOK, Local, Placed, Remembers
  <2> SUFFICES ASSUME NEW u \in Threads
               PROVE  Local(u)'
    OBVIOUS
  <2>1. CASE refuses
    <3>1. FailOver(t, cursor[t]) /\ kind[t] = "run"
      BY <1>5, <2>1 DEF InitializerFails
    <3>2. CASE u = t
      BY <3>1, <3>2 DEF FailOver
    <3>3. CASE u # t
      BY <3>1, <3>3 DEF FailOver
    <3> QED
      BY <3>2, <3>3
  <2>2. CASE ~refuses
    <3>1. Return(t)
      BY <1>5, <2>2 DEF InitializerFails
    <3> QED
      BY <3>1 DEF Return
  <2> QED
    BY <2>1, <2>2
<1> QED
  BY <1>1, <1>2, <1>3, <1>4, <1>5 DEF Next

(* Dropping declines disturbs every other thread that runs an operation,   *)
(* so nothing that is not disturbed has lost one.                          *)
LEMMA PassedStep ==
  ASSUME IInv, NEW t \in Threads, Step(t)
  PROVE  \A u \in Threads: Passed(u)'
<1> USE DEF IInv, TypeOK, Passed
<1>1. CASE PassDeclined(t)
  BY <1>1 DEF PassDeclined, shared, history, Providers
<1>2. CASE PassExcluded(t)
  BY <1>2 DEF PassExcluded, shared, history, Providers
<1>3. ASSUME NEW p \in Providers, p = cursor[t], NEW probe, pc[t] # "idle", Judge(t, p, probe)
      PROVE  \A u \in Threads: Passed(u)'
  <2>1. UNCHANGED <<declined, kind, excluded, disturbed>>
    BY <1>3 DEF Judge
  <2>2. \/ pc' = [pc EXCEPT ![t] = "chosen"] /\ UNCHANGED <<cursor, unusable>>
        \/ /\ pc' = [pc EXCEPT ![t] = "look"]
           /\ cursor' = [cursor EXCEPT ![t] = @ + 1]
           /\ kind[t] # "inspect" => unusable' = [unusable EXCEPT ![t] = @ \cup {p}]
           /\ kind[t] = "inspect" => unusable' = unusable
    BY <1>3 DEF Judge
  <2> SUFFICES ASSUME NEW u \in Threads
               PROVE  Passed(u)'
    OBVIOUS
  <2>3. CASE u # t
    BY <2>1, <2>2, <2>3
  <2>4. CASE u = t
    <3> SUFFICES ASSUME kind[t] = "run", ~disturbed[t], NEW q \in Providers, q < cursor'[t]
                 PROVE  q \in declined \cup excluded[t] \cup unusable'[t]
      BY <2>1, <2>4
    <3>1. q < cursor[t] \/ (q = p /\ p \in unusable'[t])
      BY <1>3, <2>2, SelectorAssumption DEF Providers
    <3>2. unusable[t] \subseteq unusable'[t]
      BY <2>2
    <3> QED
      BY <1>3, <3>1, <3>2
  <2> QED
    BY <2>3, <2>4
<1>4. CASE ProbeCached(t)
  BY <1>3, <1>4 DEF ProbeCached
<1>5. CASE ProbeStart(t)
  BY <1>5 DEF ProbeStart, shared, history
<1>6. CASE \E probe \in Probes: ProbeReturn(t, probe)
  BY <1>3, <1>6 DEF ProbeReturn, Local, Placed
<1>7. CASE Readmit(t)
  <2> SUFFICES ASSUME NEW u \in Threads
               PROVE  Passed(u)'
    OBVIOUS
  <2>1. CASE u = t
    BY <1>7, <2>1 DEF Readmit, Providers
  <2>2. CASE u # t
    BY <1>7, <2>2 DEF Readmit, Disturb, Running
  <2> QED
    BY <2>1, <2>2
<1>8. ASSUME Return(t), declined \subseteq declined',
             \A u \in Threads \ {t}: disturbed'[u] = disturbed[u]
      PROVE  \A u \in Threads: Passed(u)'
  BY <1>8 DEF Return
<1>9. CASE NoneAvailable(t)
  BY <1>8, <1>9 DEF NoneAvailable, Finish, shared
<1>10. CASE Inspected(t)
  BY <1>8, <1>10 DEF Inspected, Finish, shared
<1>11. CASE Refuse(t)
  <2>1. CASE kind[t] = "run"
    <3>1. /\ FailOver(t, cursor[t])
          /\ declined \subseteq declined' /\ UNCHANGED disturbed
      BY <1>11, <2>1 DEF Refuse
    <3> SUFFICES ASSUME NEW u \in Threads
                 PROVE  Passed(u)'
      OBVIOUS
    <3>2. CASE u = t
      BY <3>1, <3>2, SelectorAssumption DEF FailOver, Providers
    <3>3. CASE u # t
      BY <3>1, <3>3 DEF FailOver
    <3> QED
      BY <3>2, <3>3
  <2>2. CASE kind[t] # "run"
    BY <1>8, <1>11, <2>2 DEF Refuse, Finish
  <2> QED
    BY <2>1, <2>2
<1>12. CASE Serve(t)
  BY <1>8, <1>12 DEF Serve, Finish, shared
<1> QED
  BY <1>1, <1>2, <1>4, <1>5, <1>6, <1>7, <1>9, <1>10, <1>11, <1>12 DEF Step

LEMMA PassedNext ==
  ASSUME IInv, [Next]_vars
  PROVE  \A u \in Threads: Passed(u)'
<1> USE DEF IInv
<1>1. CASE UNCHANGED vars
  BY <1>1 DEF vars, shared, local, history, Passed
<1>2. ASSUME NEW t \in Threads, NEW k \in Kinds, Begin(t, k)
      PROVE  \A u \in Threads: Passed(u)'
  <2> USE DEF Begin, shared, TypeOK, Passed
  <2> SUFFICES ASSUME NEW u \in Threads
               PROVE  Passed(u)'
    OBVIOUS
  <2>1. CASE u = t
    <3>1. cursor'[t] = 1
      BY <1>2 DEF Local, Remembers
    <3> QED
      BY <2>1, <3>1, SelectorAssumption DEF Providers
  <2>2. CASE u # t
    BY <1>2, <2>2
  <2> QED
    BY <2>1, <2>2
<1>3. ASSUME NEW t \in Threads, Step(t)
      PROVE  \A u \in Threads: Passed(u)'
  BY <1>3, PassedStep
<1>4. ASSUME NEW t \in Threads, Invalidate(t) \/ RetryDeclined(t)
      PROVE  \A u \in Threads: Passed(u)'
  BY <1>4 DEF Invalidate, RetryDeclined, Disturb, Running, local, TypeOK, Passed
<1>5. ASSUME NEW t \in Threads, NEW refuses \in BOOLEAN, InitializerFails(t, refuses)
      PROVE  \A u \in Threads: Passed(u)'
  BY <1>5 DEF InitializerFails, Running, Passed
<1> QED
  BY <1>1, <1>2, <1>3, <1>4, <1>5 DEF Next

THEOREM Invariance == Spec => []IInv
<1>1. Init => IInv
  <2> SUFFICES ASSUME Init
               PROVE  IInv
    OBVIOUS
  <2>1. TypeOK
    BY TypeInit
  <2>2. \A t \in Threads: Local(t) /\ Passed(t)
    BY DEF Init, Local, Placed, Remembers, Passed
  <2> QED
    BY <2>1, <2>2 DEF IInv
<1>2. IInv /\ [Next]_vars => IInv'
  BY TypeNext, LocalNext, PassedNext DEF IInv
<1> QED
  BY <1>1, <1>2, PTL DEF Spec

(* Every variable keeps its type. *)
THEOREM TypeCorrect == Spec => []TypeOK
<1>1. IInv => TypeOK
  BY DEF IInv
<1> QED
  BY <1>1, Invariance, PTL

(* A `run` that ends with "no provider is available" was refused by every  *)
(* provider or found it unusable by its own probe, unless another thread   *)
(* dropped declines meanwhile (`select`, `_readmit_earlier_declines`).     *)
THEOREM RefusalIsHonest == Spec => []HonestRefusal
<1>1. IInv => HonestRefusal
  <2> SUFFICES ASSUME IInv, NEW t \in Threads, Exhausted(t), ~disturbed[t]
               PROVE  tried[t] \cup unusable[t] = Providers
    BY DEF HonestRefusal, IInv
  <2>1. declined \subseteq excluded[t]
    BY DEF Exhausted, Stale, Offers, IInv, TypeOK
  <2>2. \A p \in Providers: p < cursor[t]
    BY SelectorAssumption DEF Exhausted, AtEnd, IInv, TypeOK, Providers
  <2>3. \A p \in Providers: p \in declined \cup excluded[t] \cup unusable[t]
    BY <2>2 DEF Exhausted, AtEnd, IInv, Passed
  <2> QED
    BY <2>1, <2>3 DEF IInv, TypeOK, Local, Remembers
<1> QED
  BY <1>1, Invariance, PTL

-----------------------------------------------------------------------------
(* What a `run` has refused stays declined, and behind its cursor the      *)
(* trace has it as declined and every other provider as unavailable or     *)
(* declined by an earlier operation, unless others have dropped declines.  *)
Recorded(t) ==
    /\ kind[t] # "run" => tried[t] = {}
    /\ pc[t] # "idle" /\ kind[t] = "run" /\ ~disturbed[t] =>
           /\ tried[t] \subseteq declined
           /\ \A p \in Providers: p < cursor[t] =>
                  IF p \in tried[t] THEN trace[t][p] = "declined"
                                    ELSE p \in declined \/ trace[t][p] = "unavailable"

(* The same thread, for which nothing has changed but that others may have *)
(* declined more, or that it was disturbed.                                *)
LEMMA RecordedStays ==
  ASSUME NEW u \in Threads, Recorded(u),
         pc[u]' = pc[u], kind[u]' = kind[u], cursor[u]' = cursor[u], trace[u]' = trace[u],
         tried[u]' = tried[u],
         disturbed[u]' \/ (disturbed[u]' = disturbed[u] /\ declined \subseteq declined')
         \/ pc[u] = "idle" \/ kind[u] # "run"
  PROVE  Recorded(u)'
  BY DEF Recorded

(* An operation that ends takes its record with it. *)
LEMMA RecordedEnds ==
  ASSUME TypeOK, NEW t \in Threads, Return(t)
  PROVE  Recorded(t)'
  BY DEF Return, Recorded, TypeOK

(* One that fails over looks at no provider yet. *)
LEMMA RecordedFailsOver ==
  ASSUME TypeOK, NEW t \in Threads, NEW p \in Providers, kind[t] = "run", FailOver(t, p),
         disturbed[t]' \/ (disturbed[t]' = disturbed[t] /\ declined' = declined \cup {p}),
         pc[t] # "idle", Recorded(t)
  PROVE  Recorded(t)'
<1>1. cursor[t]' = 1 /\ kind[t]' = "run" /\ tried[t]' = tried[t] \cup {p}
  BY DEF FailOver, TypeOK
<1>2. ~disturbed[t]' => tried[t]' \subseteq declined'
  BY <1>1 DEF Recorded
<1> QED
  BY <1>1, <1>2, SelectorAssumption DEF Recorded, Providers

(* Passing a provider, or judging what its probe answered. *)
LEMMA RecordedPasses ==
  ASSUME IInv, NEW t \in Threads, Recorded(t),
         PassDeclined(t) \/ PassExcluded(t) \/ ProbeCached(t)
         \/ \E probe \in Probes: ProbeReturn(t, probe)
  PROVE  Recorded(t)'
<1> DEFINE p == cursor[t]
<1>1. /\ UNCHANGED <<declined, kind, tried, disturbed>> /\ p \in Providers /\ pc[t] # "idle"
      /\ excluded[t] = tried[t]
  BY DEF PassDeclined, PassExcluded, ProbeCached, ProbeReturn, Judge, shared, history,
         IInv, Local, Placed, Remembers
<1>2. \A q \in Providers: q < cursor'[t] => q < p \/ q = p
  BY <1>1, SelectorAssumption DEF PassDeclined, PassExcluded, ProbeCached, ProbeReturn, Judge,
         IInv, TypeOK, Providers
<1>3. \A q \in Providers \ {p}: trace'[t][q] = trace[t][q]
  BY <1>1 DEF PassDeclined, PassExcluded, ProbeCached, ProbeReturn, Judge, IInv, TypeOK
<1> SUFFICES ASSUME kind[t] = "run", ~disturbed[t], p < cursor'[t]
             PROVE  IF p \in tried[t] THEN trace'[t][p] = "declined"
                                      ELSE p \in declined \/ trace'[t][p] = "unavailable"
  BY <1>1, <1>2, <1>3 DEF Recorded
<1>4. tried[t] \subseteq declined
  BY <1>1 DEF Recorded
<1>5. CASE PassDeclined(t)
  BY <1>1, <1>5 DEF PassDeclined, IInv, TypeOK
<1>6. CASE PassExcluded(t)
  BY <1>1, <1>4, <1>6 DEF PassExcluded
<1>7. ASSUME NEW probe \in Probes, Judge(t, p, probe), p \notin excluded[t]
      PROVE  p \notin tried[t] /\ trace'[t][p] = "unavailable"
  <2>1. cursor'[t] # cursor[t]
    BY <1>1, SelectorAssumption DEF Providers
  <2>2. ~Allowed(kind[t], p, probe) /\ trace' = [trace EXCEPT ![t][p] = probe]
    BY <1>7, <2>1 DEF Judge
  <2> QED
    BY <1>1, <1>7, <2>2 DEF Allowed, IInv, TypeOK
<1>8. CASE ProbeCached(t)
  BY <1>1, <1>7, <1>8 DEF ProbeCached, IInv, TypeOK
<1>9. CASE \E probe \in Probes: ProbeReturn(t, probe)
  BY <1>1, <1>7, <1>9 DEF ProbeReturn, IInv, Local, Placed
<1> QED
  BY <1>5, <1>6, <1>8, <1>9

LEMMA RecordedStep ==
  ASSUME IInv, \A u \in Threads: Recorded(u), NEW t \in Threads, Step(t)
  PROVE  \A u \in Threads: Recorded(u)'
<1> USE DEF IInv, TypeOK
<1>1. ASSUME NEW u \in Threads \ {t} PROVE Recorded(u)'
  <2>1. /\ pc'[u] = pc[u] /\ kind'[u] = kind[u] /\ cursor'[u] = cursor[u]
        /\ trace'[u] = trace[u] /\ tried'[u] = tried[u]
    BY <1>1 DEF Step, PassDeclined, PassExcluded, ProbeCached, ProbeStart, ProbeReturn, Judge,
           Readmit, NoneAvailable, Inspected, Refuse, Serve, Finish, Return, FailOver, history
  <2>2. \/ disturbed'[u] = disturbed[u] /\ declined \subseteq declined'
        \/ disturbed'[u] \/ pc[u] = "idle" \/ kind[u] = "inspect"
    BY <1>1 DEF Step, PassDeclined, PassExcluded, ProbeCached, ProbeStart, ProbeReturn, Judge,
           Readmit, NoneAvailable, Inspected, Refuse, Serve, Finish, history, shared,
           Disturb, Running
  <2> QED
    BY <1>1, <2>1, <2>2, RecordedStays
<1>2. CASE PassDeclined(t) \/ PassExcluded(t) \/ ProbeCached(t)
           \/ \E probe \in Probes: ProbeReturn(t, probe)
  BY <1>1, <1>2, RecordedPasses
<1>3. CASE ProbeStart(t)
  BY <1>3 DEF ProbeStart, Recorded, shared, history
<1>4. CASE Readmit(t)
  <2>1. /\ cursor'[t] = 1 /\ kind'[t] = kind[t] /\ tried'[t] = tried[t] /\ pc[t] # "idle"
        /\ disturbed'[t] = disturbed[t] /\ excluded[t] = tried[t]
    BY <1>4 DEF Readmit, Disturb, AtEnd, Local, Remembers
  <2>2. tried[t] \subseteq declined => tried[t] \subseteq declined'
    BY <1>4, <2>1 DEF Readmit, Stale
  <2>3. \A p \in Providers: ~(p < cursor'[t])
    BY <2>1, SelectorAssumption DEF Providers
  <2>4. Recorded(t)'
    BY <2>1, <2>2, <2>3 DEF Recorded
  <2> QED
    BY <1>1, <2>4
<1>5. CASE NoneAvailable(t) \/ Inspected(t) \/ Serve(t)
  BY <1>1, <1>5, RecordedEnds DEF NoneAvailable, Inspected, Serve, Finish
<1>6. CASE Refuse(t)
  <2>1. cursor[t] \in Providers
    BY <1>6 DEF Refuse, Local, Placed
  <2>2. CASE kind[t] = "run"
    <3>1. /\ FailOver(t, cursor[t]) /\ declined' = declined \cup {cursor[t]}
          /\ disturbed' = disturbed /\ pc[t] # "idle"
      BY <1>6, <2>2 DEF Refuse
    <3>2. Recorded(t)'
      BY <2>1, <2>2, <3>1, RecordedFailsOver
    <3> QED
      BY <1>1, <3>2
  <2>3. CASE kind[t] # "run"
    BY <1>1, <1>6, <2>3, RecordedEnds DEF Refuse, Finish
  <2> QED
    BY <2>2, <2>3
<1> QED
  BY <1>1, <1>2, <1>3, <1>4, <1>5, <1>6 DEF Step

LEMMA RecordedNext ==
  ASSUME IInv, \A u \in Threads: Recorded(u), [Next]_vars
  PROVE  \A u \in Threads: Recorded(u)'
<1> USE DEF IInv, TypeOK
<1>1. CASE UNCHANGED vars
  BY <1>1 DEF vars, shared, local, history, Recorded
<1>2. ASSUME NEW t \in Threads, NEW k \in Kinds, Begin(t, k)
      PROVE  \A u \in Threads: Recorded(u)'
  <2> SUFFICES ASSUME NEW u \in Threads PROVE Recorded(u)'
    OBVIOUS
  <2>1. CASE u = t
    <3>1. tried'[t] = {} /\ cursor'[t] = 1
      BY <1>2 DEF Begin, Local, Remembers
    <3> QED
      BY <2>1, <3>1, SelectorAssumption DEF Recorded, Providers
  <2>2. CASE u # t
    BY <1>2, <2>2 DEF Begin, Recorded, shared
  <2> QED
    BY <2>1, <2>2
<1>3. ASSUME NEW t \in Threads, Step(t)
      PROVE  \A u \in Threads: Recorded(u)'
  BY <1>3, RecordedStep
<1>4. ASSUME NEW t \in Threads, Invalidate(t) \/ RetryDeclined(t)
      PROVE  \A u \in Threads: Recorded(u)'
  BY <1>4 DEF Invalidate, RetryDeclined, Disturb, Running, local, Recorded
<1>5. ASSUME NEW t \in Threads, NEW refuses \in BOOLEAN, InitializerFails(t, refuses)
      PROVE  \A u \in Threads: Recorded(u)'
  <2> SUFFICES ASSUME NEW u \in Threads PROVE Recorded(u)'
    OBVIOUS
  <2>1. CASE u = t
    <3>1. cursor[t] \in Providers /\ pc[t] # "idle" /\ kind[t] = "run"
      BY <1>5 DEF InitializerFails, Local, Placed
    <3>2. CASE refuses
      <4>1. FailOver(t, cursor[t]) /\ disturbed'[t]
        BY <1>5, <3>1, <3>2 DEF InitializerFails, Running, FailOver
      <4> QED
        BY <2>1, <3>1, <4>1, RecordedFailsOver
    <3>3. CASE ~refuses
      BY <1>5, <2>1, <3>3, RecordedEnds DEF InitializerFails
    <3> QED
      BY <3>2, <3>3
  <2>2. CASE u # t
    <3>1. /\ pc'[u] = pc[u] /\ kind'[u] = kind[u] /\ cursor'[u] = cursor[u]
          /\ trace'[u] = trace[u] /\ tried'[u] = tried[u]
      BY <1>5, <2>2 DEF InitializerFails, FailOver, Return
    <3>2. disturbed'[u] \/ pc[u] = "idle" \/ kind[u] # "run"
      BY <1>5, <3>1 DEF InitializerFails, Running
    <3> QED
      BY <3>1, <3>2, RecordedStays
  <2> QED
    BY <2>1, <2>2
<1> QED
  BY <1>1, <1>2, <1>3, <1>4, <1>5 DEF Next

(* An error that says nothing is available names every provider it tried   *)
(* as declined and every other one as unavailable, and what `_served`      *)
(* reports as fallen back from is all that was: for any number of threads  *)
(* and of providers, unless others dropped declines (`_record`, `_served`).*)
THEOREM ReportIsHonest == Spec => []HonestReport
<1> DEFINE RInv == \A u \in Threads: Recorded(u)
<1>1. Init => RInv
  BY DEF Init, Recorded
<1>2. RInv /\ IInv /\ [Next]_vars => RInv'
  BY RecordedNext
<1>3. RInv /\ IInv => HonestReport
  <2> SUFFICES ASSUME RInv, IInv, NEW t \in Threads, ~disturbed[t]
               PROVE  /\ Exhausted(t) => \A p \in Providers: trace[t][p] =
                             IF p \in tried[t] THEN "declined" ELSE "unavailable"
                      /\ pc[t] = "chosen" => {p \in tried[t]: p < cursor[t]} \subseteq Skipped(t)
    BY DEF HonestReport, RefusalTrace, FallbackReported
  <2>1. ASSUME Exhausted(t), NEW p \in Providers
        PROVE  trace[t][p] = IF p \in tried[t] THEN "declined" ELSE "unavailable"
    <3>1. p < cursor[t] /\ pc[t] # "idle" /\ kind[t] = "run"
      BY <2>1, SelectorAssumption DEF Exhausted, AtEnd, IInv, TypeOK, Providers
    <3>2. declined \subseteq tried[t]
      BY <2>1 DEF Exhausted, Stale, Offers, IInv, TypeOK, Local, Remembers
    <3> QED
      BY <3>1, <3>2 DEF Recorded
  <2>2. ASSUME pc[t] = "chosen", NEW p \in tried[t], p < cursor[t]
        PROVE  p \in Skipped(t)
    <3>1. p \in Providers /\ p \in 1 .. cursor[t] - 1
      BY <2>2, SelectorAssumption DEF IInv, TypeOK, Providers
    <3>2. kind[t] = "run" /\ trace[t][p] = "declined"
      BY <2>2, <3>1 DEF Recorded
    <3> QED
      BY <3>1, <3>2 DEF Skipped
  <2> QED
    BY <2>1, <2>2
<1> QED
  BY <1>1, <1>2, <1>3, Invariance, PTL DEF Spec

-----------------------------------------------------------------------------
(* The operations under way, and the provider each is with, as Failover    *)
(* sees them.                                                              *)
UnderWay == {t \in Threads: Running(t)}
Offered == [t \in Threads |-> IF pc[t] = "chosen" THEN {cursor[t]} ELSE {}]

(* What a step of thread t leaves alone, for the abstraction. *)
OthersStay(t) ==
    \A u \in Threads \ {t}:
        pc'[u] = pc[u] /\ kind'[u] = kind[u] /\ cursor'[u] = cursor[u]

LEMMA OfferedStays ==
  ASSUME NEW t \in Threads, OthersStay(t)
  PROVE  /\ Running(t)' = Running(t) => UnderWay' = UnderWay
         /\ Running(t)' => UnderWay' = UnderWay \cup {t}
         /\ ~Running(t)' => UnderWay' = UnderWay \ {t}
         /\ Offered' = [Offered EXCEPT ![t] =
                            IF pc'[t] = "chosen" THEN {cursor'[t]} ELSE {}]
<1>1. \A u \in Threads \ {t}: Running(u)' <=> Running(u)
  BY DEF OthersStay, Running
<1>2. UnderWay' = {u \in Threads: Running(u)'}
  BY DEF UnderWay
<1>3. Offered' = [Offered EXCEPT ![t] = IF pc'[t] = "chosen" THEN {cursor'[t]} ELSE {}]
  BY DEF Offered, OthersStay
<1> QED
  BY <1>1, <1>2, <1>3 DEF UnderWay

(* The steps of Failover that a step of thread t may be. *)
LEMMA IsStutter ==
  ASSUME NEW t \in Threads, OthersStay(t), UNCHANGED tried,
         Running(t)' = Running(t), pc[t] # "chosen", pc'[t] # "chosen"
  PROVE  UNCHANGED F!vars
<1>1. UnderWay' = UnderWay
  BY OfferedStays
<1>2. Offered' = Offered
  BY DEF Offered, OthersStay
<1> QED
  BY <1>1, <1>2 DEF F!vars, UnderWay, Offered

LEMMA IsOffer ==
  ASSUME NEW t \in Threads, OthersStay(t), UNCHANGED tried,
         Running(t), Running(t)', pc[t] # "chosen", pc'[t] = "chosen",
         NEW p \in Providers \ tried[t], cursor'[t] = p
  PROVE  F!Offer(t, p)
<1>1. UnderWay' = UnderWay
  BY OfferedStays
<1>2. Offered' = [Offered EXCEPT ![t] = {p}] /\ Offered[t] = {}
  BY OfferedStays DEF Offered
<1>3. t \in UnderWay
  BY DEF UnderWay
<1> QED
  BY <1>1, <1>2, <1>3 DEF F!Offer, UnderWay, Offered

LEMMA IsRefuse ==
  ASSUME NEW t \in Threads, OthersStay(t), tried' = [tried EXCEPT ![t] = @ \cup {cursor[t]}],
         Running(t), Running(t)', pc[t] = "chosen", pc'[t] # "chosen"
  PROVE  F!Refuse(t)
<1>1. UnderWay' = UnderWay
  BY OfferedStays
<1>2. Offered' = [Offered EXCEPT ![t] = {}] /\ Offered[t] = {cursor[t]}
  BY OfferedStays DEF Offered
<1> QED
  BY <1>1, <1>2 DEF F!Refuse, UnderWay, Offered

LEMMA IsEnd ==
  ASSUME NEW t \in Threads, Return(t), TypeOK, Running(t)
  PROVE  F!End(t)
<1>1. OthersStay(t) /\ ~Running(t)' /\ pc'[t] = "idle"
  BY DEF Return, TypeOK, OthersStay, Running
<1>2. UnderWay' = UnderWay \ {t} /\ Offered' = [Offered EXCEPT ![t] = {}]
  BY <1>1, OfferedStays
<1>3. t \in UnderWay
  BY DEF UnderWay
<1> QED
  BY <1>2, <1>3 DEF F!End, UnderWay, Offered, Return

LEMMA AbstractStep ==
  ASSUME IInv, NEW t \in Threads, Step(t)
  PROVE  [F!Next]_(F!vars)
<1> USE DEF IInv, TypeOK, OthersStay
<1>1. CASE PassDeclined(t) \/ PassExcluded(t)
  BY <1>1, IsStutter DEF PassDeclined, PassExcluded, history, Running
<1>2. ASSUME pc[t] \in {"look", "probing"}, cursor[t] \in Providers \ excluded[t],
             NEW probe, Judge(t, cursor[t], probe)
      PROVE  [F!Next]_(F!vars)
  <2>1. CASE pc'[t] = "chosen"
    <3>1. /\ pc' = [pc EXCEPT ![t] = "chosen"] /\ UNCHANGED <<cursor, kind, tried>>
          /\ kind[t] # "inspect"
      BY <1>2, <2>1 DEF Judge
    <3>2. PICK p \in Providers \ tried[t]: cursor'[t] = p
      BY <1>2, <3>1 DEF Local, Remembers
    <3>3. F!Offer(t, p)
      BY <1>2, <2>1, <3>1, <3>2, IsOffer DEF Running
    <3> QED
      BY <3>3 DEF F!Next
  <2>2. CASE pc'[t] # "chosen"
    <3>1. /\ pc' = [pc EXCEPT ![t] = "look"] /\ UNCHANGED <<kind, tried>>
          /\ cursor' = [cursor EXCEPT ![t] = @ + 1]
      BY <1>2, <2>2 DEF Judge
    <3> QED
      BY <1>2, <3>1, IsStutter DEF Running
  <2> QED
    BY <2>1, <2>2
<1>3. CASE ProbeCached(t)
  BY <1>2, <1>3 DEF ProbeCached
<1>4. CASE ProbeStart(t)
  BY <1>4, IsStutter DEF ProbeStart, history, Running
<1>5. CASE \E probe \in Probes: ProbeReturn(t, probe)
  BY <1>2, <1>5 DEF ProbeReturn, Local, Placed
<1>6. CASE Readmit(t)
  BY <1>6, IsStutter DEF Readmit, AtEnd, Running
<1>7. CASE NoneAvailable(t)
  BY <1>7, IsEnd DEF NoneAvailable, AtEnd, Finish, Running, F!Next
<1>8. CASE Inspected(t)
  <2>1. Return(t) /\ kind[t] = "inspect" /\ pc[t] = "look"
    BY <1>8 DEF Inspected, AtEnd, Finish
  <2>2. UNCHANGED tried
    BY <2>1 DEF Return, Local, Remembers
  <2> QED
    BY <2>1, <2>2, IsStutter DEF Return, Running
<1>9. CASE Refuse(t)
  <2>1. CASE kind[t] = "run"
    <3>1. F!Refuse(t)
      BY <1>9, <2>1, IsRefuse DEF Refuse, FailOver, Running
    <3> QED
      BY <3>1 DEF F!Next
  <2>2. CASE kind[t] # "run"
    BY <1>9, <2>2, IsEnd DEF Refuse, Finish, Running, Local, Placed, F!Next
  <2> QED
    BY <2>1, <2>2
<1>10. CASE Serve(t)
  BY <1>10, IsEnd DEF Serve, Finish, Running, Local, Placed, F!Next
<1> QED
  BY <1>1, <1>3, <1>4, <1>5, <1>6, <1>7, <1>8, <1>9, <1>10 DEF Step

(* The failover loop implements Failover: an operation goes to each        *)
(* provider at most once, to none after the first that starts it.          *)
THEOREM FailoverImplemented == Spec => OfferedOnce
<1>1. Init => F!Init
  BY DEF Init, F!Init, Running
<1>2. IInv /\ [Next]_vars => [F!Next]_(F!vars)
  <2> SUFFICES ASSUME IInv, [Next]_vars
               PROVE  [F!Next]_(F!vars)
    OBVIOUS
  <2> USE DEF IInv, TypeOK, OthersStay
  <2>1. CASE UNCHANGED vars
    BY <2>1 DEF vars, local, history, F!vars, Running
  <2>2. ASSUME NEW t \in Threads, NEW k \in Kinds, Begin(t, k)
        PROVE  [F!Next]_(F!vars)
    <3>1. OthersStay(t) /\ UNCHANGED tried /\ pc[t] = "idle" /\ pc'[t] = "look"
      BY <2>2 DEF Begin
    <3>2. CASE k = "inspect"
      BY <2>2, <3>1, <3>2, IsStutter DEF Begin, Running
    <3>3. CASE k # "inspect"
      <4>1. ~Running(t) /\ Running(t)'
        BY <2>2, <3>1, <3>3 DEF Begin, Running
      <4>2. UnderWay' = UnderWay \cup {t} /\ Offered' = Offered /\ t \notin UnderWay
        BY <3>1, <4>1, OfferedStays DEF Offered, UnderWay
      <4> QED
        BY <3>1, <4>2 DEF F!Begin, F!Next, UnderWay, Offered
    <3> QED
      BY <3>2, <3>3
  <2>3. ASSUME NEW t \in Threads, Step(t)
        PROVE  [F!Next]_(F!vars)
    BY <2>3, AbstractStep
  <2>4. ASSUME NEW t \in Threads, Invalidate(t) \/ RetryDeclined(t)
        PROVE  [F!Next]_(F!vars)
    BY <2>4 DEF Invalidate, RetryDeclined, local, F!vars, Running
  <2>5. ASSUME NEW t \in Threads, NEW refuses \in BOOLEAN, InitializerFails(t, refuses)
        PROVE  [F!Next]_(F!vars)
    <3>1. pc[t] = "chosen" /\ kind[t] = "run" /\ (FailOver(t, cursor[t]) \/ Return(t))
      BY <2>5 DEF InitializerFails
    <3>2. CASE FailOver(t, cursor[t])
      <4>1. F!Refuse(t)
        BY <3>1, <3>2, IsRefuse DEF FailOver, Running
      <4> QED
        BY <4>1 DEF F!Next
    <3>3. CASE Return(t)
      BY <3>1, <3>3, IsEnd DEF Running, F!Next
    <3> QED
      BY <3>1, <3>2, <3>3
  <2> QED
    BY <2>1, <2>2, <2>3, <2>4, <2>5 DEF Next
<1> QED
  BY <1>1, <1>2, Invariance, PTL DEF Spec, OfferedOnce, F!Spec

=============================================================================
