------------------------------- MODULE MCHosts -------------------------------
(***************************************************************************)
(* Hosts on small instances, two parts in a run.  MCSystemHost: two        *)
(* threads on a host whose first executor shares transport A with its path *)
(* provider (an SSH host's two legs), where an executor over C comes and   *)
(* goes (SystemHost); and what the call of a host that fell back to this   *)
(* machine does with its processes (LocalCall).  MCGuest: the QEMU guest   *)
(* agent in its two halves, the host that two threads share (GuestHost)    *)
(* and the session with the agent (GuestAgent).                            *)
(***************************************************************************)
EXTENDS Hosts

CONSTANTS t1, t2, runA, runC, pathA, OverA, OverC

Two == {t1, t2}
OnceAndThrice == [t \in Two |-> IF t = t1 THEN 1 ELSE 3]
AC == {OverA, OverC}
OnePath == {pathA}
Sets == {{runA, runC}, {runA}}
OneOver == [p \in {runA, runC, pathA} |-> IF p = runC THEN OverC ELSE OverA]

(* Calls with a timeout, and without: captured or not, and one of each     *)
(* kind that is refused.                                                   *)
LocalCalls ==
    [system: {"own", "terminal", "windows"}, timed: {TRUE}, captured: {TRUE},
     check: {TRUE}, refused: {"nothing"}]
        \cup [system: {"own"}, timed: {FALSE}, captured: BOOLEAN, check: {TRUE},
              refused: {"nothing", "option", "stdin", "line", "batch"}]

EitherTransport == {"framed", "libvirt"}

(* Two builds at once, a close and a use of what was lost take four calls; *)
(* the steps of libvirt's transport need three.                            *)
Ops == [framed |-> 4, libvirt |-> 3]

(* What an earlier client left: the reply to a synchronisation of the same *)
(* number, to one of another number, to requests of the same number, and   *)
(* errors without an id.                                                   *)
Left(id, marked) == [marked |-> marked, id |-> id, to |-> 0, says |-> "return", count |-> 0]
LeftError == [marked |-> FALSE, id |-> 0, to |-> 0, says |-> "error", count |-> 0]
AnyLeft == {<<>>, <<Left(1, TRUE)>>, <<Left(6, TRUE), LeftError, Left(2, FALSE)>>,
            <<Left(2, FALSE), Left(1, TRUE), LeftError>>}

(* A part that no behaviour is in has nothing in it. *)
NoSet == {}
NoFunction == [p \in {} |-> 0]
=============================================================================
