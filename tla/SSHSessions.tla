------------------------- MODULE SSHSessions -------------------------
(***************************************************************************)
(* What a caller has of SSH, taken together: the transport with the        *)
(* connections it opens (SSHTransport), and the handle of a process that   *)
(* it started over one (SSHProcess).  The handle has its channel and asks  *)
(* nothing more of the transport, so a behaviour is one of the two: its    *)
(* part says which.                                                        *)
(***************************************************************************)
EXTENDS SSHTransport

CONSTANTS MaxOutput, MaxUses    \* SSHProcess's, the bound of the calls of its threads

VARIABLES part, written, ended, channel, buffered, closed, uses, used, read, mixed

process == <<written, ended, channel, buffered, closed, uses, used, read, mixed>>
all == <<part, vars, process>>

P == INSTANCE SSHProcess WITH MaxCalls <- MaxUses, th <- uses, calls <- used

ASSUME SessionsAssumption == P!ProcessAssumption

RunInit == part \in {"transport", "process"} /\ Init /\ P!Init

RunNext ==
    /\ UNCHANGED part
    /\ \/ part = "transport" /\ Next /\ UNCHANGED process
       \/ part = "process" /\ P!Next /\ UNCHANGED vars

Run == RunInit /\ [][RunNext]_all

FairRun ==
    /\ Run
    /\ \A t \in Threads: WF_all(part = "transport" /\ Step(t) /\ UNCHANGED <<part, process>>)

(* The calls of a small instance, three over two connections: one that     *)
(* opens, one that loses the connection, closes it or is overtaken by a    *)
(* fork, and one that meets what that left.                                *)
SharedCalls == << {"run", "request", "close"},
                  {"relative", "close channel", "close"},
                  {"connect", "request", "close"} >>

(* What a process writes is read whole, in order and once (SSHProcess).    *)
OutputKept == P!OutputKept
=============================================================================
