-------------------------------- MODULE Hosts ---------------------------------
(***************************************************************************)
(* The kinds of host taken together: one with providers over connections   *)
(* (SystemHost), one that fell back to this machine (LocalCall), and that  *)
(* of a QEMU guest (GuestHost) with the session to its agent (GuestAgent). *)
(* None knows of the others, so a behaviour is one of them: its part says  *)
(* which.                                                                  *)
(***************************************************************************)
EXTENDS SystemHost

CONSTANTS Parts,                                                           \* those to consider
          Asks, MaxProcs, MaxPrints,                                       \* LocalCall's
          Callers, Kinds, GuestHelps, MaxOps, MaxTransports, MaxConns,     \* GuestHost's
          MaxIds, MaxJobs, Size, Chunk, Leftovers, Begun                   \* GuestAgent's

VARIABLES part,
          ask, at, why, proc, status, printed, got, kept, signalled, whole,     \* LocalCall
          kind, holder, transport, built, commands, osInfo, helper,             \* GuestHost
          backends, backend, maker, paths, connLock, conn, domain,
          opened, dialled, th, ops, overlapped, lost, torn,
          toGuest, toHost, linked, rpc, answer, ids, job, jobs,                 \* GuestAgent
          running, exited, handles, file, synced, unsure, started

call == <<ask, at, why, proc, status, printed, got, kept, signalled, whole>>
guest == <<kind, holder, transport, built, commands, osInfo, helper, backends, backend, maker,
           paths, connLock, conn, domain, opened, dialled, th, ops, overlapped, lost, torn>>
session == <<toGuest, toHost, linked, rpc, answer, ids, job, jobs, running, exited, handles,
             file, synced, unsure, started>>
all == <<part, vars, call, guest, session>>

L == INSTANCE LocalCall
G == INSTANCE GuestHost WITH
    Threads <- Callers, lock <- holder, provider <- maker, open <- opened
A == INSTANCE GuestAgent WITH
    MaxCalls <- MaxJobs, connected <- linked, got <- answer, call <- job, calls <- jobs

ASSUME HostsAssumption == L!LocalAssumption /\ G!GuestHostAssumption /\ A!AgentAssumption

(* A part that is not the behaviour's own stays as it is. *)
NoHost == Init /\ \A S \in ExecutorSets: executors \subseteq S
NoCall ==
    /\ ask = 0 /\ at = 0 /\ why = 0 /\ proc = 0 /\ status = 0 /\ printed = 0 /\ got = 0 /\ kept = 0
    /\ signalled = 0 /\ whole = 0
NoGuest ==
    /\ kind = 0 /\ holder = 0 /\ transport = 0 /\ built = 0 /\ commands = 0 /\ osInfo = 0
    /\ helper = 0 /\ backends = 0 /\ backend = 0 /\ maker = 0 /\ paths = 0 /\ connLock = 0
    /\ conn = 0 /\ domain = 0 /\ opened = 0 /\ dialled = 0 /\ th = 0 /\ ops = 0
    /\ overlapped = 0 /\ lost = 0 /\ torn = 0
NoSession ==
    /\ toGuest = 0 /\ toHost = 0 /\ linked = 0 /\ rpc = 0 /\ answer = 0 /\ ids = 0 /\ job = 0
    /\ jobs = 0 /\ running = 0 /\ exited = 0 /\ handles = 0 /\ file = 0 /\ synced = 0 /\ unsure = 0
    /\ started = 0

RunInit ==
    /\ part \in Parts
    /\ \/ part = "host" /\ Init /\ NoCall /\ NoGuest /\ NoSession
       \/ part = "local" /\ NoHost /\ L!Init /\ NoGuest /\ NoSession
       \/ part = "guest" /\ NoHost /\ NoCall /\ G!Init /\ NoSession
       \/ part = "agent" /\ NoHost /\ NoCall /\ NoGuest /\ A!Init

RunNext ==
    /\ UNCHANGED part
    /\ \/ part = "host" /\ Next /\ UNCHANGED <<call, guest, session>>
       \/ part = "local" /\ L!Next /\ UNCHANGED <<vars, guest, session>>
       \/ part = "guest" /\ G!Next /\ UNCHANGED <<vars, call, session>>
       \/ part = "agent" /\ A!Next /\ UNCHANGED <<vars, call, guest>>

RunFairness ==
    /\ \A t \in Threads: WF_vars(Step(t))
    /\ WF_call(part = "local" /\ L!Step)
    /\ \A t \in Callers: WF_guest(part = "guest" /\ G!Step(t))

Run == RunInit /\ [][RunNext]_all /\ RunFairness

(* A command of this machine that is cut short leaves nothing running that *)
(* could be reached, and a call has all of its output or none (LocalCall). *)
LocalSound == part = "local" => L!LocalSound

(* A stray connection to a guest needs calls that overlap (GuestHost).     *)
StrayByOverlap == part = "guest" => G!StrayByOverlap

(* What a call finds of a guest's host is whole (GuestHost).               *)
FindsWhole == part = "guest" => G!FindsWhole

(* A connection that has synchronised carries nothing but the request that *)
(* is executed, what `execute` returns is the agent's answer to that, and  *)
(* what is said of a command or a file is so (GuestAgent).                 *)
AgentSound == part = "agent" =>
    A!TypeOK /\ A!CleanStream /\ A!OwnAnswer /\ A!Honest /\ A!WholeFile

(* Every operation ends (SystemHost), and so does a call with a timeout,   *)
(* though a process that the kill did not reach holds its output for ever  *)
(* (LocalCall).                                                            *)
HostEnds ==
    /\ OperationEnds
    /\ (part = "local" /\ ask.timed) ~> (part = "local" /\ at \in L!Ended)

(* A call of a guest's host ends: no two wait for each other, and none for *)
(* a lock that it holds (GuestHost).                                       *)
CallsEnd == \A t \in Callers: (part = "guest" /\ G!Busy(t)) ~> (part = "guest" /\ ~G!Busy(t))
=============================================================================
