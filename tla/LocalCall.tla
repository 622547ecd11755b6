------------------------------ MODULE LocalCall ------------------------------
(***************************************************************************)
(* One call of `LocalExecutor` (transports/local/_executor.py): a child    *)
(* process, the tree that grows below it, and the caller that reads what   *)
(* they print.  A call with a timeout kills the tree when it expires or is *)
(* interrupted, drains the output for a bounded while and waits for the    *)
(* child; one without is `subprocess.run`.  Processes are numbered in the  *)
(* order they start.  The system kills at once, and `taskkill` sees one    *)
(* moment of the tree.  A second interrupt during the kill is left out.    *)
(***************************************************************************)
EXTENDS Integers, FiniteSets

CONSTANTS Asks,        \* calls, and where they are made: a child in its "own"
                       \* session, one with a "terminal" to keep, or "windows"
          MaxProcs,    \* bound: processes of the tree
          MaxPrints    \* bound: pieces of output

Procs == 1 .. MaxProcs
Caller == 0
Child == 1

(* What is taken for granted of the constants. *)
LocalAssumption ==
    /\ Asks \subseteq [system: {"own", "terminal", "windows"},
                       timed: BOOLEAN, captured: BOOLEAN, check: BOOLEAN,
                       refused: {"nothing", "option", "stdin", "line", "batch"}]
    /\ MaxProcs \in Nat \ {0} /\ MaxPrints \in Nat

VARIABLES ask, at,
          why,         \* what ended the wait: "nothing", "expiry", "interrupt"
          proc,        \* the tree, each process with those above it
          status,      \* the child's
          printed, got,
          kept         \* whether the output is in the error

(* History, which no guard reads. *)
VARIABLES signalled,   \* what the kill of the tree hit
          whole        \* whether it could reach a tree at all

history == <<signalled, whole>>
vars == <<ask, at, why, proc, status, printed, got, kept, history>>

Unborn == [is |-> "unborn", above |-> {}, group |-> Caller, holds |-> FALSE]

Init ==
    /\ ask \in Asks /\ at = "asked" /\ why = "nothing"
    /\ proc = [p \in Procs |-> Unborn]
    /\ status = 0 /\ printed = 0 /\ got = 0 /\ kept = TRUE
    /\ signalled = {} /\ whole = FALSE

Alive == {p \in Procs: proc[p].is = "live"}
Holding == {p \in Alive: proc[p].holds}
Above(p) == proc[p].above

-----------------------------------------------------------------------------
(* The processes. *)
Fork(p) ==
    LET Unstarted == {q \in Procs: proc[q].is = "unborn"}
    IN  \E q \in Unstarted:
            /\ \A r \in Unstarted: q <= r
            /\ proc' = [proc EXCEPT ![q] = [proc[p] EXCEPT !.above = @ \cup {p}]]
            /\ UNCHANGED <<ask, at, why, status, printed, got, kept, history>>

LeaveGroup(p) ==                                   \* `setsid`, `setpgid`
    /\ ask.system # "windows" /\ proc[p].group # p
    /\ proc' = [proc EXCEPT ![p].group = p]
    /\ UNCHANGED <<ask, at, why, status, printed, got, kept, history>>

CloseOutput(p) ==
    /\ proc[p].holds /\ proc' = [proc EXCEPT ![p].holds = FALSE]
    /\ UNCHANGED <<ask, at, why, status, printed, got, kept, history>>

Exit(p) ==
    /\ proc' = [proc EXCEPT ![p].is = "exited"]
    /\ IF p = Child THEN status' \in {0, 1} ELSE UNCHANGED status
    /\ UNCHANGED <<ask, at, why, printed, got, kept, history>>

Prints(p) ==
    /\ proc[p].holds /\ printed < MaxPrints /\ printed' = printed + 1
    /\ UNCHANGED <<ask, at, why, proc, status, got, kept, history>>

(* What happens after the call is no part of it. *)
Ended == {"refused", "not started", "returned", "failed", "expired", "interrupted"}
World == at \notin Ended /\ \E p \in Alive: Fork(p) \/ LeaveGroup(p) \/ CloseOutput(p) \/ Exit(p) \/ Prints(p)

-----------------------------------------------------------------------------
(* The call: what it refuses, and what it starts.  A child in a session of *)
(* its own leads its group; with a terminal to keep it stays in the        *)
(* caller's, as that of a call without a timeout does.                     *)
Refuse ==
    /\ at = "asked" /\ ask.refused # "nothing"
    /\ at' = "refused"
    /\ UNCHANGED <<ask, why, proc, status, printed, got, kept, history>>

StartFails ==
    /\ at = "asked" /\ ask.refused = "nothing"
    /\ at' = "not started"
    /\ UNCHANGED <<ask, why, proc, status, printed, got, kept, history>>

Start ==
    /\ at = "asked" /\ ask.refused = "nothing"
    /\ at' = "communicate"
    /\ proc' = [proc EXCEPT ![Child] =
                   [is |-> "live", above |-> {}, holds |-> ask.captured,
                    group |-> IF ask.timed /\ ask.system = "own" THEN Child ELSE Caller]]
    /\ UNCHANGED <<ask, why, status, printed, got, kept, history>>

Read ==
    /\ at \in {"communicate", "drain"} /\ got < printed
    /\ got' = got + 1
    /\ UNCHANGED <<ask, at, why, proc, status, printed, kept, history>>

(* `communicate` is over at the end of the output and of the child. *)
Over == got = printed /\ Holding = {} /\ Child \notin Alive

Finish ==
    /\ at = "communicate" /\ Over
    /\ at' = IF ask.check /\ status # 0 THEN "failed" ELSE "returned"
    /\ UNCHANGED <<ask, why, proc, status, printed, got, kept, history>>

Expire ==
    /\ at = "communicate" /\ ask.timed
    /\ at' = "tree" /\ why' = "expiry"
    /\ UNCHANGED <<ask, proc, status, printed, got, kept, history>>

(* `subprocess.run` kills the child alone; an interrupt of the drain       *)
(* leaves at once, everything having been killed.                          *)
Interrupt ==
    /\ at \in {"communicate", "drain"}
    /\ at' = IF at = "drain" THEN "reap" ELSE IF ask.timed THEN "tree" ELSE "child"
    /\ why' = "interrupt"
    /\ UNCHANGED <<ask, proc, status, printed, got, kept, history>>

-----------------------------------------------------------------------------
(* The kill of the tree: the child's process group if it leads one, and on *)
(* Windows what `taskkill` finds by parents that are alive, if it works.   *)
InGroup == {p \in Alive: proc[p].group = proc[Child].group}
               \cup (IF proc[Child].group = Caller THEN {Caller} ELSE {})
Linked == {p \in Alive: Above(p) \subseteq Alive}
Unchecked ==           \* Mutant: the group is killed, whoever leads it.
    IF ask.system = "windows" THEN {Linked, {}} ELSE {InGroup}
ChildAlone ==          \* Mutant: the tree is left to the kill of the child.
    {{Child} \cap Alive}
Reached ==
    IF ask.system = "windows" THEN {Linked, {}}
    ELSE {IF proc[Child].group = Child THEN InGroup ELSE {}}

Kill(hit) == [p \in Procs |-> IF p \in hit THEN [proc[p] EXCEPT !.is = "killed"] ELSE proc[p]]

KillTree ==
    /\ at = "tree"
    /\ \E hit \in Reached:
           /\ proc' = Kill(hit) /\ signalled' = hit
           /\ whole' = IF ask.system = "windows" THEN hit = Linked ELSE proc[Child].group = Child
    /\ at' = "child"
    /\ UNCHANGED <<ask, why, status, printed, got, kept>>

KillChild ==
    /\ at = "child"
    /\ proc' = Kill(Alive \cap {Child})
    /\ at' = IF why = "expiry" THEN "drain" ELSE "reap"
    /\ UNCHANGED <<ask, why, status, printed, got, kept, history>>

Drained ==
    /\ at = "drain" /\ Over
    /\ at' = "reap"
    /\ UNCHANGED <<ask, why, proc, status, printed, got, kept, history>>

DrainUnbounded == FALSE /\ UNCHANGED vars     \* Mutant: the drain has no budget.
DrainKeeps ==                                 \* Mutant: what was read so far is passed on.
    /\ at = "drain"
    /\ at' = "reap"
    /\ UNCHANGED <<ask, why, proc, status, printed, got, kept, history>>
DrainExpires ==
    /\ at = "drain"
    /\ at' = "reap" /\ kept' = FALSE
    /\ UNCHANGED <<ask, why, proc, status, printed, got, history>>

Reap ==
    /\ at = "reap" /\ Child \notin Alive
    /\ at' = IF why = "expiry" THEN "expired" ELSE "interrupted"
    /\ UNCHANGED <<ask, why, proc, status, printed, got, kept, history>>

Step == \/ Refuse \/ StartFails \/ Start \/ Read \/ Finish \/ Expire
        \/ KillTree \/ KillChild \/ Drained \/ DrainExpires \/ Reap

Next == World \/ Interrupt \/ Step

Spec == Init /\ [][Next]_vars /\ WF_vars(Step)

-----------------------------------------------------------------------------
Cut == {"expired", "interrupted"}

(* What a kill could not reach: processes that left the child's group, or  *)
(* on Windows those under one that had exited.                             *)
Escaped(p) ==
    IF ask.system = "windows" THEN \E a \in Above(p): proc[a].is = "exited"
                          ELSE proc[p].group # Child

(* A call that was cut short leaves no child, and if it was given a        *)
(* timeout and there was a tree to kill, nothing of it but what had        *)
(* escaped.                                                                *)
NothingSurvives ==
    at \in Cut =>
        /\ Child \notin Alive
        /\ ask.timed /\ ask.system = "own" => whole
        /\ whole => \A p \in Alive: Escaped(p)

(* The kill never hits the caller, who may be in the child's group. *)
CallerSpared == Caller \notin signalled

(* A call that returns, or expires with its output, has all there will be; *)
(* and one that is refused started nothing.                                *)
AllOrNothing ==
    /\ at \in {"returned", "failed"} \/ (at = "expired" /\ kept) => Over
    /\ at \in {"refused", "not started"} => \A p \in Procs: proc[p] = Unborn
    /\ at = "returned" /\ ask.check => status = 0

LocalSound == NothingSurvives /\ CallerSpared /\ AllOrNothing
=============================================================================
