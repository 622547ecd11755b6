------------------------------ MODULE Failover ------------------------------
(***************************************************************************)
(* What failing over promises a caller, without saying how a provider is   *)
(* chosen: an operation is offered to providers one at a time, to none     *)
(* that has refused it, and ends with the first provider that starts it.   *)
(* A refusal proves that nothing started; a result or an error of an       *)
(* operation that did start is the caller's and is never retried.          *)
(***************************************************************************)
CONSTANTS Threads,     \* the callers; each runs one operation at a time
          Providers    \* the providers an operation may be offered to

VARIABLES running,     \* the callers that have an operation under way
          offered,     \* offered[t]: the provider t's operation is with, if any
          tried        \* tried[t]: the providers that have refused it

vars == <<running, offered, tried>>

Init == /\ running = {}
        /\ offered = [t \in Threads |-> {}]
        /\ tried = [t \in Threads |-> {}]

(* A caller starts an operation: no provider has seen it. *)
Begin(t) == /\ t \notin running
            /\ running' = running \cup {t}
            /\ UNCHANGED <<offered, tried>>

(* The operation goes to a provider that has not refused it. *)
Offer(t, p) == /\ t \in running /\ offered[t] = {}
               /\ p \notin tried[t]
               /\ offered' = [offered EXCEPT ![t] = {p}]
               /\ UNCHANGED <<running, tried>>

(* The provider refuses it before it starts. *)
Refuse(t) == /\ offered[t] # {}
             /\ tried' = [tried EXCEPT ![t] = @ \cup offered[t]]
             /\ offered' = [offered EXCEPT ![t] = {}]
             /\ UNCHANGED running

(* The provider has started it, or the search has ended with nothing       *)
(* started: whatever comes of it is the operation's only result.           *)
End(t) == /\ t \in running
          /\ running' = running \ {t}
          /\ offered' = [offered EXCEPT ![t] = {}]
          /\ tried' = [tried EXCEPT ![t] = {}]

Next == \E t \in Threads:
    \/ Begin(t)
    \/ \E p \in Providers: Offer(t, p)
    \/ Refuse(t)
    \/ End(t)

Spec == Init /\ [][Next]_vars
=============================================================================
