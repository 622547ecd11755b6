------------------------------- MODULE Closure -------------------------------
(***************************************************************************)
(* Which distributions `deploy` ships: `requirements` (deploy/_closure.py) *)
(* walks the declared dependencies with a list of what is pending, and     *)
(* `missing_on` leaves out what the target has.  A requirement names a     *)
(* distribution and extras of it, and the contexts its marker holds in:    *)
(* the extras of the distribution that declares it, and Plain for none.    *)
(***************************************************************************)
EXTENDS Integers

CONSTANTS Dists,      \* the distributions, by canonical name
          Extras,     \* the extras there are
          Plain,      \* the context `{"extra": ""}`
          Root,       \* what is deployed
          Never,      \* `_NEVER_BUNDLE`
          Graphs,     \* the dependencies to consider: of each, requirements
          Heres,      \* what may be installed here
          Haves       \* what the target may have, or `skip` names

Requirement == [name: Dists, extras: SUBSET Extras, when: SUBSET (Extras \cup {Plain})]

(* What is taken for granted of the constants. *)
ClosureAssumption ==
    /\ Root \in Dists /\ Never \subseteq Dists /\ Plain \notin Extras
    /\ Graphs \subseteq [Dists -> SUBSET Requirement]
    /\ Heres \subseteq SUBSET Dists /\ Haves \subseteq SUBSET Dists

VARIABLES requires,   \* what each distribution declares
          here,       \* the distributions installed here
          have,       \* `have` of `missing_on`
          pending,    \* what is still to be looked at: a name, and extras of it
          seen,       \* what was
          found       \* the closure

vars == <<requires, here, have, pending, seen, found>>

Init ==
    /\ requires \in Graphs /\ here \in Heres /\ have \in Haves
    /\ pending \in {{<<Root, extras>>}: extras \in SUBSET Extras}
    /\ seen = {} /\ found = {}

(* A requirement counts when its marker holds in any context.              *)
CountsWanted(r, wanted) == r.when \cap wanted # {}       \* Mutant: not the plain one.
Counts(r, wanted) == r.when \cap (wanted \cup {Plain}) # {}

Declared(name, wanted) ==
    {<<r.name, r.extras>>: r \in {q \in requires[name]: Counts(q, wanted)}}

SkipsName(name, wanted) == \E s \in seen: s[1] = name     \* Mutant: whatever the extras.
Skips(name, wanted) == <<name, wanted>> \in seen \/ name \in Never

Look(name, wanted) ==
    /\ <<name, wanted>> \in pending
    /\ UNCHANGED <<requires, here, have>>
    /\ IF Skips(name, wanted)
       THEN /\ pending' = pending \ {<<name, wanted>>}
            /\ UNCHANGED <<seen, found>>
       ELSE /\ seen' = seen \cup {<<name, wanted>>}
            /\ IF name \in here
               THEN /\ found' = found \cup {name}
                    /\ pending' = (pending \ {<<name, wanted>>}) \cup Declared(name, wanted)
               ELSE /\ pending' = pending \ {<<name, wanted>>}
                    /\ UNCHANGED found

Next == \E name \in Dists, wanted \in SUBSET Extras: Look(name, wanted)

Spec == Init /\ [][Next]_vars

ShippedFound == found                                      \* Mutant: all of it.
Shipped == found \ have

-----------------------------------------------------------------------------
(* Properties. *)

(* Every variable keeps its kind. *)
TypeOK ==
    /\ requires \in [Dists -> SUBSET Requirement]
    /\ here \subseteq Dists /\ have \subseteq Dists
    /\ pending \subseteq Dists \X SUBSET Extras
    /\ seen \subseteq Dists \X SUBSET Extras
    /\ found \subseteq Dists

(* A requirement that counts for a distribution looked at with `wanted`.   *)
Needs(name, wanted, r) ==
    name \in here /\ r \in requires[name] /\ (Plain \in r.when \/ \E e \in wanted: e \in r.when)

(* When nothing is pending, all that is needed was looked at, each with    *)
(* the extras it is needed with, in whatever order the list is worked off  *)
(* and whatever cycles there are; all of it that is here is shipped or on  *)
(* the target, and nothing is shipped that is not needed.                  *)
ShipsNeeded ==
    /\ \A name \in Shipped \ {Root}:
           \E s \in seen: \E r \in requires[s[1]]: Needs(s[1], s[2], r) /\ r.name = name
    /\ Shipped \subseteq here \ (Never \cup have)
    /\ pending = {} =>
           \A s \in seen: \A r \in requires[s[1]]: Needs(s[1], s[2], r) /\ r.name \notin Never =>
               /\ <<r.name, r.extras>> \in seen
               /\ r.name \in here => r.name \in Shipped \cup have
=============================================================================
