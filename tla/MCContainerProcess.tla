-------------------------- MODULE MCContainerProcess --------------------------
(***************************************************************************)
(* A container's processes and its host: two threads that share a process  *)
(* (ContainerProcess), and two that share the host, of which one does      *)
(* everything and the other makes paths and closes (ContainerHost), with   *)
(* the shell to be found out.  A behaviour is one of either: its part says *)
(* which.                                                                  *)
(***************************************************************************)
EXTENDS ContainerProcess

Frame(s, units) == [to |-> s, text |-> units]

(* A character cut by a frame of the other stream, or by the end; what a   *)
(* terminal may send as well; a frame of neither stream.                   *)
SomeOutputs == {
    <<Frame(1, <<"c", "h">>), Frame(2, <<"c">>), Frame(1, <<"t">>)>>,
    <<Frame(1, <<"h", "t">>)>>,
    <<Frame(3, <<"c">>), Frame(1, <<>>)>> }

VARIABLES part, shell, made, open, client, found, container, attrs, backends, backend,
          paths, processes, uses, used, lost, dropped

host == <<shell, made, open, client, found, container, attrs, backends, backend,
          paths, processes, uses, used, lost, dropped>>
all == <<part, vars, host>>

H == INSTANCE ContainerHost WITH
    Does <- [t \in Threads |->
        IF t = 1 THEN {"connect", "path", "run", "spawn", "close", "use", "ask"}
                 ELSE {"path", "close"}],
    th <- uses, calls <- used

ASSUME H!HostAssumption

(* The part that is not the behaviour's own stays as it is. *)
RunInit ==
    \/ part = "process" /\ Init /\ H!Init /\ ~shell
    \/ part = "host" /\ Init /\ H!Init /\ shell /\ ~tty /\ output = CHOOSE o \in Outputs: TRUE

RunNext ==
    /\ UNCHANGED part
    /\ \/ part = "process" /\ Next /\ UNCHANGED host
       \/ part = "host" /\ H!Next /\ UNCHANGED vars

Run == /\ RunInit /\ [][RunNext]_all
       /\ \A t \in Threads: WF_all(part = "process" /\ Step(t) /\ UNCHANGED <<part, host>>)

(* No handle of a process is left open or taken from under a call          *)
(* (ContainerProcess); no client is left open, no path outlives its host,  *)
(* and no call meets a host that is half closed (ContainerHost).           *)
NothingLeft == HandlesSound /\ H!HostSound
=============================================================================
