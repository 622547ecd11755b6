----------------------------- MODULE QEMUConsole -----------------------------
(***************************************************************************)
(* `QEMUSerialConsole` and its processes (transports/qemu/_console.py):    *)
(* one stream to a guest's console, leased to one process at a time        *)
(* (`StreamLease`, `_LeasedStreamProcess`).  Threads open the console,     *)
(* and read, write, wait for and close any process that was opened; the    *)
(* guest may end the stream at any moment.                                 *)
(***************************************************************************)
EXTENDS Integers, Sequences

CONSTANTS Callers,     \* the threads that use the console
          MaxCalls     \* bound: calls of all threads

(* How the console was made: with a factory, with a stream that it may     *)
(* finish, or with one that it may not. *)
Kinds == {"factory", "owned", "borrowed"}

VARIABLES kind,
          streams,     \* of each stream: whether the guest ended it, how often it was let go
          stream,      \* `_stream` (0: None)
          holder,      \* `_current`: the token that holds the lease (0: None)
          ended,       \* the tokens that have ended
          claimed,     \* the processes whose teardown was claimed
          procs,       \* of each token: the stream of its process (0: none)
          unmade,      \* the tokens whose process no caller was given
          lock,        \* who holds `_io_lock` (0: nobody)
          th, calls

VARIABLE strays        \* history: I/O on a stream that another process has leased

lease == <<holder, ended>>
vars == <<kind, streams, stream, lease, claimed, procs, unmade, lock, th, calls, strays>>

Owns == kind # "borrowed"
Idle == [at |-> "idle", p |-> 0, over |-> FALSE, op |-> "none", end |-> "done"]
Fresh == [over |-> FALSE, gone |-> 0]

Init ==
    /\ kind \in Kinds
    /\ streams = (IF kind = "factory" THEN <<>> ELSE <<Fresh>>)
    /\ stream = Len(streams)
    /\ holder = 0 /\ ended = {} /\ claimed = {} /\ procs = <<>> /\ unmade = {}
    /\ lock = 0 /\ th = [t \in Callers |-> Idle] /\ calls = 0 /\ strays = {}

-----------------------------------------------------------------------------
At(t, pc) == th[t].at = pc
Busy(t) == th[t].at # "idle"
Goes(t, pc) == th' = [th EXCEPT ![t].at = pc]
Ends(t, how) == th' = [th EXCEPT ![t] = [Idle EXCEPT !.op = th[t].op, !.p = th[t].p, !.end = how]]

Begin(t, op) ==
    /\ ~Busy(t) /\ calls < MaxCalls
    /\ calls' = calls + 1
    /\ \E p \in IF op = "acquire" THEN {0}
               ELSE {q \in DOMAIN procs: procs[q] # 0 /\ q \notin unmade}:
           th' = [th EXCEPT ![t] = [Idle EXCEPT !.at = op, !.op = op, !.p = p, !.over = p \in ended]]
    /\ UNCHANGED <<kind, streams, stream, lease, claimed, procs, unmade, lock, strays>>

(* The guest ends the stream. *)
Hangup ==
    /\ \E s \in DOMAIN streams:
           ~streams[s].over /\ streams' = [streams EXCEPT ![s].over = TRUE]
    /\ UNCHANGED <<kind, stream, lease, claimed, procs, unmade, lock, th, calls, strays>>

-----------------------------------------------------------------------------
(* `StreamLease.release`: only the holder's own token frees the lease, and *)
(* then `_on_lease_end` forgets the stream. *)
Release(p) ==
    /\ ended' = ended \cup {p}
    /\ IF holder = p THEN holder' = 0 /\ stream' = (IF Owns THEN 0 ELSE stream)
       ELSE UNCHANGED <<holder, stream>>

(* `open`: the lease first, then the stream, which may be refused; one     *)
(* that was consumed cannot be opened again.  The process is made last, in *)
(* no `try`: when that raises, as it does of an encoding nobody knows, no  *)
(* one has it, and nothing ever gives its lease back.                      *)
Acquire(t) ==
    /\ At(t, "acquire")
    /\ IF holder # 0 THEN Ends(t, "busy") /\ UNCHANGED <<holder, procs>>
       ELSE /\ procs' = Append(procs, 0)
            /\ holder' = Len(procs')
            /\ th' = [th EXCEPT ![t].at = "open", ![t].p = Len(procs')]
    /\ UNCHANGED <<kind, streams, stream, ended, claimed, unmade, lock, calls, strays>>

Open(t) ==
    /\ At(t, "open")
    /\ \/ /\ stream # 0
          /\ procs' = [procs EXCEPT ![th[t].p] = stream]
          /\ UNCHANGED <<streams, stream>>
       \/ /\ stream = 0 /\ kind = "factory"
          /\ streams' = Append(streams, Fresh) /\ stream' = Len(streams')
          /\ procs' = [procs EXCEPT ![th[t].p] = stream']
    /\ \/ Ends(t, "opened") /\ UNCHANGED unmade
       \/ Ends(t, "unmade") /\ unmade' = unmade \cup {th[t].p}
    /\ UNCHANGED <<kind, lease, claimed, lock, calls, strays>>

HoldsOn(t) == UNCHANGED <<lease, stream>>      \* Mutant: a failed open keeps the lease.
LetsGo(t) == Release(th[t].p)

OpenFails(t) ==
    /\ At(t, "open") /\ stream = 0
    /\ LetsGo(t)
    /\ Ends(t, IF kind = "factory" THEN "refused" ELSE "consumed")
    /\ UNCHANGED <<kind, streams, claimed, procs, unmade, lock, calls, strays>>

-----------------------------------------------------------------------------
Stream(t) == procs[th[t].p]
Gone(t) == streams[Stream(t)].gone > 0
Strays(t) == strays' = IF holder \notin {0, th[t].p} /\ procs[holder] = Stream(t)
                       THEN strays \cup {th[t].over} ELSE strays

(* `read`: the end is sticky, and nothing is locked while it waits.  What  *)
(* it meets: bytes, the end, which closes the process, or an error.        *)
Read(t) ==
    /\ At(t, "read")
    /\ IF th[t].p \in ended THEN Ends(t, "eof") ELSE Goes(t, "recv")
    /\ UNCHANGED <<kind, streams, stream, lease, claimed, procs, unmade, lock, calls, strays>>

Recv(t) ==
    /\ At(t, "recv")
    /\ \/ ~Gone(t) /\ ~streams[Stream(t)].over /\ Ends(t, "done") /\ Strays(t)
       \/ streams[Stream(t)].over /\ Goes(t, "close") /\ UNCHANGED strays
       \/ Ends(t, "error") /\ UNCHANGED strays
    /\ UNCHANGED <<kind, streams, stream, lease, claimed, procs, unmade, lock, calls>>

(* `write`, which holds the lock from its first piece to its last.         *)
Write(t) ==
    /\ At(t, "write")
    /\ IF th[t].p \in ended THEN Ends(t, "closed") ELSE Goes(t, "lock")
    /\ UNCHANGED <<kind, streams, stream, lease, claimed, procs, unmade, lock, calls, strays>>

Lock(t) ==
    /\ At(t, "lock") /\ lock = 0
    /\ lock' = t /\ Goes(t, "send")
    /\ UNCHANGED <<kind, streams, stream, lease, claimed, procs, unmade, calls, strays>>

Send(t) ==
    /\ At(t, "send")
    /\ \/ ~Gone(t) /\ Ends(t, "done") /\ Strays(t)
       \/ Ends(t, "error") /\ UNCHANGED strays
    /\ lock' = 0
    /\ UNCHANGED <<kind, streams, stream, lease, claimed, procs, unmade, calls>>

Wait(t) ==
    /\ At(t, "wait") /\ th[t].p \in ended
    /\ Ends(t, "done")
    /\ UNCHANGED <<kind, streams, stream, lease, claimed, procs, unmade, lock, calls, strays>>

-----------------------------------------------------------------------------
(* `close`: whoever claims it tears down, once.                            *)
ClaimsLate(p) == p \notin ended                    \* Mutant: only the end is looked at.
Claims(p) == p \notin ended /\ p \notin claimed

Close(t) ==
    /\ At(t, "close")
    /\ IF Claims(th[t].p)
       THEN claimed' = claimed \cup {th[t].p} /\ Goes(t, IF Owns THEN "finish" ELSE "release")
       ELSE Ends(t, IF th[t].op = "read" THEN "eof" ELSE "done") /\ UNCHANGED claimed
    /\ UNCHANGED <<kind, streams, stream, lease, procs, unmade, lock, calls, strays>>

(* `_teardown`: the stream is finished, or aborted when that fails.        *)
Finish(t) ==
    /\ At(t, "finish") /\ lock = 0
    /\ streams' = [streams EXCEPT ![Stream(t)].gone = @ + 1]
    /\ Goes(t, "release") \/ Goes(t, "fail")
    /\ UNCHANGED <<kind, stream, lease, claimed, procs, unmade, lock, calls, strays>>

FailsFirst(t) ==      \* Mutant: what failed to finish keeps the lease.
    /\ At(t, "fail") /\ Ends(t, "error") /\ UNCHANGED <<lease, stream>>
LeaveFailed(t) == At(t, "fail") /\ Release(th[t].p) /\ Ends(t, "error")

LeaveClosed(t) ==
    /\ At(t, "release") /\ th[t].p \in ended
    /\ Release(th[t].p) /\ Ends(t, IF th[t].op = "read" THEN "eof" ELSE "done")

(* `_closed` is set before the lease is released. *)
MarkEnded(t) ==
    /\ At(t, "release") /\ th[t].p \notin ended
    /\ ended' = ended \cup {th[t].p}
    /\ UNCHANGED <<holder, stream, th>>

Leave(t) ==
    /\ MarkEnded(t) \/ LeaveClosed(t) \/ LeaveFailed(t)
    /\ UNCHANGED <<kind, streams, claimed, procs, unmade, lock, calls, strays>>

Step(t) ==
    \/ Acquire(t) \/ Open(t) \/ OpenFails(t) \/ Read(t) \/ Recv(t)
    \/ Write(t) \/ Lock(t) \/ Send(t) \/ Wait(t) \/ Close(t) \/ Finish(t) \/ Leave(t)

Next == Hangup \/ \E t \in Callers:
                      Step(t) \/ \E op \in {"acquire", "read", "write", "wait", "close"}: Begin(t, op)

Spec == Init /\ [][Next]_vars

-----------------------------------------------------------------------------
(* A stream is let go of once, by whoever closes the process first -- the  *)
(* user, or the end that a read meets -- and never while it is borrowed.   *)
LetGoOnce == \A s \in DOMAIN streams: streams[s].gone <= (IF Owns THEN 1 ELSE 0)

(* A stream that was opened belongs to the process that has the lease; none*)
(* stays open behind a process that has ended, none is lost, and a failure *)
(* to open or to finish one leaves the console to be opened again.  The one*)
(* exception is an `open` that raised as it made its process: its lease,   *)
(* and with it the stream, is lost for good.                               *)
NeverLost ==
    /\ \A s \in DOMAIN streams: Owns /\ streams[s].gone = 0 /\ holder = 0
                                => s = stream /\ kind = "owned" /\ procs = [p \in DOMAIN procs |-> 0]
    /\ holder # 0 => \/ \E t \in Callers: Busy(t) /\ th[t].p = holder
                     \/ holder \notin ended \cup claimed \cup unmade /\ procs[holder] # 0
                     \/ holder \in unmade

(* Two processes never use a stream at once, except that a read or a write *)
(* begun before its process was closed may end on a borrowed stream.       *)
NeverShared == TRUE \notin strays /\ (strays # {} => kind = "borrowed")

(* An end is told to who waits for it when the stream has been let go.     *)
HonestEnd == \A t \in Callers: th[t].op = "wait" /\ th[t].end = "done" /\ ~Busy(t) /\ Owns =>
                 streams[procs[th[t].p]].gone > 0

ConsoleSound == LetGoOnce /\ NeverLost /\ NeverShared /\ HonestEnd
=============================================================================
