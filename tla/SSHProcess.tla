----------------------------- MODULE SSHProcess -----------------------------
(***************************************************************************)
(* `SSHProcess` (transports/ssh/_process.py): the handle of a process on   *)
(* an SSH channel, which two threads read, wait for and close.  A wait     *)
(* empties the channel into its result, or into the timeout it raises; the *)
(* handle holds what it drained for the reads that follow.  One stream of  *)
(* the two is modelled, the other being the same; the process writes 1, 2, *)
(* 3 and so on.                                                            *)
(***************************************************************************)
EXTENDS Integers, Sequences

CONSTANTS MaxOutput,   \* how much a process writes
          MaxCalls     \* bound: calls of both threads

Threads == {1, 2}

(* What is taken for granted of the constants. *)
ProcessAssumption == MaxOutput \in Nat /\ MaxCalls \in Nat

VARIABLES written,     \* how much the process wrote
          ended,       \* whether it has ended
          channel,     \* what has arrived and nobody took
          buffered,    \* `_buffered_stdout`
          closed,      \* `_closed`
          th, calls

(* History, which no guard reads. *)
VARIABLES read,        \* what reads have returned, in the order in which they did
          mixed        \* whether a read or a wait ever overlapped another

handle == <<channel, buffered, closed>>
history == <<read, mixed>>
vars == <<written, ended, handle, th, calls, history>>

Idle == [at |-> "idle", size |-> 0, seen |-> <<>>, out |-> <<>>, end |-> "none"]

Init ==
    /\ written = 0 /\ ended = FALSE
    /\ channel = <<>> /\ buffered = <<>> /\ closed = FALSE
    /\ th = [t \in Threads |-> Idle] /\ calls = 0
    /\ read = <<>> /\ mixed = FALSE

At(t, pc) == th[t].at = pc
Busy(t) == th[t].at # "idle"
Ends(t, how) == th' = [th EXCEPT ![t] = [Idle EXCEPT !.end = how]]

(* The channel, as the handle uses it. *)
Writes ==
    /\ ~ended /\ ~closed /\ written < MaxOutput
    /\ written' = written + 1 /\ channel' = Append(channel, written')
    /\ UNCHANGED <<ended, buffered, closed, th, calls, history>>

Exits ==
    /\ ~ended /\ ended' = TRUE
    /\ UNCHANGED <<written, handle, th, calls, history>>

Begin(t, op, size) ==
    /\ ~Busy(t) /\ calls < MaxCalls
    /\ calls' = calls + 1
    /\ th' = [th EXCEPT ![t] = [Idle EXCEPT !.at = op, !.size = size]]
    /\ mixed' = (mixed \/ (op # "close" /\ \E u \in Threads: Busy(u) /\ ~At(u, "close")))
    /\ UNCHANGED <<written, ended, handle, read>>

-----------------------------------------------------------------------------
(* `read`: what is held first, and all of it at once when more was asked   *)
(* for; the channel only when nothing is.                                  *)
Look(t) ==
    /\ At(t, "read")
    /\ th' = [th EXCEPT ![t].at = IF buffered = <<>> THEN "channel" ELSE "take", ![t].seen = buffered]
    /\ UNCHANGED <<written, ended, handle, calls, history>>

Amount(t) == IF th[t].size < 0 \/ th[t].size >= Len(th[t].seen) THEN Len(th[t].seen) ELSE th[t].size

Leaves(t, n) == th[t].seen                     \* Mutant: what was read stays.
Rest(t, n) == SubSeq(th[t].seen, n + 1, Len(th[t].seen))

TakeBuffered(t) ==
    /\ At(t, "take")
    /\ buffered' = Rest(t, Amount(t))
    /\ read' = read \o SubSeq(th[t].seen, 1, Amount(t))
    /\ Ends(t, "done")
    /\ UNCHANGED <<written, ended, channel, closed, calls, mixed>>

ReadSome(t) ==
    /\ At(t, "channel") /\ th[t].size > 0 /\ channel # <<>>
    /\ read' = Append(read, Head(channel)) /\ channel' = Tail(channel)
    /\ Ends(t, "done")
    /\ UNCHANGED <<written, ended, buffered, closed, calls, mixed>>

(* Without a size, to the end; what comes is taken as it comes.            *)
Gather(t) ==
    /\ At(t, "channel") /\ th[t].size < 0 /\ channel # <<>>
    /\ th' = [th EXCEPT ![t].out = @ \o channel] /\ channel' = <<>>
    /\ UNCHANGED <<written, ended, buffered, closed, calls, history>>

ReadEnd(t) ==
    /\ At(t, "channel") /\ channel = <<>> /\ (ended \/ closed)
    /\ read' = read \o th[t].out
    /\ Ends(t, IF th[t].size < 0 THEN "all" ELSE "eof")
    /\ UNCHANGED <<written, ended, handle, calls, mixed>>

(* `wait`: until the end, or until its timeout; it has emptied the channel *)
(* either way, and that is added to what is held.                          *)
Wait(t) ==
    /\ At(t, "wait")
    /\ th' = [th EXCEPT ![t].at = "hold", ![t].out = channel,
                        ![t].end = IF ended \/ closed THEN "done" ELSE "expired"]
    /\ channel' = <<>>
    /\ UNCHANGED <<written, ended, buffered, closed, calls, history>>

Hold(t) ==
    /\ At(t, "hold")
    /\ th' = [th EXCEPT ![t].at = "add", ![t].seen = buffered]
    /\ UNCHANGED <<written, ended, handle, calls, history>>

KeepsResult(t) ==        \* Mutant: what a timeout drained is lost.
    IF th[t].end = "done" THEN th[t].seen \o th[t].out ELSE th[t].seen
Keeps(t) == th[t].seen \o th[t].out

Add(t) ==
    /\ At(t, "add")
    /\ buffered' = Keeps(t)
    /\ Ends(t, th[t].end)
    /\ UNCHANGED <<written, ended, channel, closed, calls, history>>

(* `close`, which may be called again when it failed. *)
Close(t) ==
    /\ At(t, "close")
    /\ \/ closed' = TRUE /\ Ends(t, "done")
       \/ ~closed /\ Ends(t, "failed") /\ UNCHANGED closed
    /\ UNCHANGED <<written, ended, channel, buffered, calls, history>>

Step(t) ==
    \/ Look(t) \/ TakeBuffered(t) \/ ReadSome(t) \/ Gather(t) \/ ReadEnd(t)
    \/ Wait(t) \/ Hold(t) \/ Add(t) \/ Close(t)

Ops == {<<"read", 1>>, <<"read", 2>>, <<"read", -1>>, <<"wait", 0>>, <<"close", 0>>}

Next == Writes \/ Exits \/ \E t \in Threads: Step(t) \/ \E o \in Ops: Begin(t, o[1], o[2])

Spec == Init /\ [][Next]_vars

-----------------------------------------------------------------------------
Output(n) == [i \in 1 .. n |-> i]

(* Every byte is read once and in its order, however many waits came       *)
(* between the reads and however they ended; and an end that a read tells  *)
(* comes after all of it.  Threads whose reads and waits overlap share the *)
(* held bytes without a lock, and have no such promise.                    *)
OutputKept ==
    \/ mixed
    \/ /\ (\A t \in Threads: ~Busy(t)) => read \o buffered \o channel = Output(written)
       /\ \A t \in Threads: th[t].end \in {"eof", "all"} /\ ended => read = Output(written)
=============================================================================
