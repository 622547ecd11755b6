---------------------------- MODULE ContainerProcess ----------------------------
(***************************************************************************)
(* `ContainerProcess` (transports/container/_process.py), the handle of a  *)
(* Docker exec, and `ContainerHost.spawn`, which makes it.  Threads share  *)
(* one socket: thread 1 reads the standard output, thread 2 the standard   *)
(* error, and each may write, wait or close.                               *)
(*                                                                         *)
(* What the daemon sends is a sequence of frames.  A unit of a frame is a  *)
(* byte or character ("c"), or the first or the second half of a character *)
(* ("h", "t") where there is an encoding; its header is one unit as well.  *)
(***************************************************************************)
EXTENDS Integers, Sequences, SequencesExt, FiniteSets

CONSTANTS Outputs,     \* what processes may send: sequences of frames
          MaxCalls     \* bound: calls of both threads

Threads == {1, 2}
Streams == {1, 2}

ASSUME ProcessAssumption ==
    /\ MaxCalls \in Nat
    /\ \A o \in Outputs: \A k \in DOMAIN o:
           o[k].to \in Nat /\ \A i \in DOMAIN o[k].text: o[k].text[i] \in {"c", "h", "t"}

VARIABLES tty,         \* whether there is a terminal
          output,      \* what the process sends
          arrived,     \* how many units of it have arrived
          ended,       \* whether the connection has ended
          state        \* of the process: it runs, or has exited, with a status or not

VARIABLES spawn,       \* how far `spawn` is
          held,        \* the handles of the connection that nobody has closed
          taken,       \* how many units were received
          parsed,      \* how many frames were taken out of `_wire_buffer`
          buffers,     \* `_buffers`: the chunks of each stream
          half,        \* whether a decoder holds half a character
          eof, closed, \* `_eof`, `_closed`
          lock,        \* who holds `_io_lock` (0: nobody)
          nonblock,    \* whether the socket's timeout is 0
          code,        \* `_returncode`: whether it is known
          th, calls    \* what each thread is doing; how many calls were begun

(* History, which no guard reads. *)
VARIABLES popped,      \* the units that were taken out of the buffers
          reported     \* whether a call has said that the connection dropped

daemon == <<tty, output, arrived, ended, state>>
wire == <<taken, parsed, buffers>>
flags == <<eof, closed, lock, nonblock, code, half>>
rest == <<spawn, held>>
history == <<popped, reported>>
vars == <<daemon, wire, flags, rest, th, calls, history>>

-----------------------------------------------------------------------------
(* The wire.  With a terminal there are no headers.                        *)
Header == IF tty THEN 0 ELSE 1

FrameEnd(k) == FoldLeft(LAMBDA n, f: n + Header + Len(f.text), 0, SubSeq(output, 1, k))
Total == FrameEnd(Len(output))

(* How many frames are whole among the first n units.                      *)
WholeFrames(n) == Cardinality({k \in DOMAIN output: FrameEnd(k) <= n})
MidFrame(n) == ~tty /\ n # FrameEnd(WholeFrames(n))

FramesOf(s, j, k) == SelectSeq(SubSeq(output, j, k), LAMBDA f: f.to = s /\ f.text # <<>>)
ChunksOf(s, j, k) == [i \in DOMAIN FramesOf(s, j, k) |-> FramesOf(s, j, k)[i].text]

(* What the first n units hold for a stream. *)
Payload(s, n) ==
    IF tty THEN IF s = 1 THEN SubSeq(FlattenSeq(ChunksOf(1, 1, Len(output))), 1, n) ELSE <<>>
    ELSE FlattenSeq(ChunksOf(s, 1, WholeFrames(n)))

(* `_consume_frames` once n units have been received.                      *)
ConsumeFirst(n) == IF parsed < WholeFrames(n) THEN parsed + 1 ELSE parsed   \* Mutant: one at a time.
Consume(n) == WholeFrames(n)

Got(n) ==
    /\ taken' = n
    /\ IF tty
       THEN /\ buffers' = [buffers EXCEPT ![1] = Append(@, SubSeq(Payload(1, n), taken + 1, n))]
            /\ UNCHANGED parsed
       ELSE /\ parsed' = Consume(n)
            /\ buffers' = [s \in Streams |-> buffers[s] \o ChunksOf(s, parsed + 1, parsed')]

-----------------------------------------------------------------------------
Idle == [at |-> "idle", size |-> 0, out |-> <<>>, late |-> FALSE, end |-> "done"]

Init ==
    /\ output \in Outputs /\ tty \in BOOLEAN
    /\ tty => \A k \in DOMAIN output: output[k].to = 1
    /\ arrived = 0 /\ ended = FALSE /\ state = "running"
    /\ spawn = "request" /\ held = {}
    /\ taken = 0 /\ parsed = 0
    /\ buffers = [s \in Streams |-> <<>>] /\ half = [s \in Streams |-> FALSE]
    /\ eof = FALSE /\ closed = FALSE /\ lock = 0 /\ nonblock = FALSE /\ code = FALSE
    /\ th = [t \in Threads |-> Idle] /\ calls = 0
    /\ popped = [s \in Streams |-> <<>>] /\ reported = FALSE

(* `spawn`: the exec is created and started, which hijacks a connection;   *)
(* its terminal is sized; the handle is made.  What fails after the start  *)
(* closes the connection (`_close_hijacked`).                              *)
Start ==
    /\ spawn = "request"
    /\ \/ /\ spawn' = IF tty THEN "resize" ELSE "construct"
          /\ held' = {"response", "stream", "socket"}
       \/ spawn' = "failed" /\ UNCHANGED held
    /\ UNCHANGED <<daemon, wire, flags, th, calls, history>>

SpawnFailsOpen == spawn' = "failed" /\ UNCHANGED held      \* Mutant: left to the collector.
SpawnFails == spawn' = "failed" /\ held' = held \ {"socket", "stream"}

Spawn ==
    /\ \/ spawn = "resize" /\ spawn' = "construct" /\ UNCHANGED held
       \/ spawn = "construct" /\ spawn' = "started" /\ UNCHANGED held
       \/ spawn \in {"resize", "construct"} /\ SpawnFails
    /\ UNCHANGED <<daemon, wire, flags, th, calls, history>>

(* The daemon, as `spawn` and the socket show it.  The connection ends     *)
(* with the process, or is dropped.                                        *)
Arrive ==
    /\ spawn = "started" /\ arrived < Total /\ ~ended
    /\ arrived' = arrived + 1
    /\ UNCHANGED <<tty, output, ended, state, wire, flags, rest, th, calls, history>>

Exit ==
    /\ spawn = "started" /\ state = "running" /\ (arrived = Total \/ ended)
    /\ state' \in {"exited", "unknown"}
    /\ UNCHANGED <<tty, output, arrived, ended, wire, flags, rest, th, calls, history>>

End ==
    /\ spawn = "started" /\ ~ended /\ (state = "running" => arrived < Total)
    /\ ended' = TRUE
    /\ UNCHANGED <<tty, output, arrived, state, wire, flags, rest, th, calls, history>>

-----------------------------------------------------------------------------
At(t, pc) == th[t].at = pc
Goes(t, pc) == th' = [th EXCEPT ![t].at = pc]

(* How a call ended, where a property asks. *)
Ends(t, how) ==
    th' = [th EXCEPT ![t] = [Idle EXCEPT !.end = how, !.late = th[t].late /\ how = "oserror"]]
Busy(t) == ~At(t, "idle")

(* A thread reads the stream of its number. *)
Begin(t, op, size) ==
    /\ spawn = "started" /\ ~Busy(t) /\ calls < MaxCalls
    /\ op = "read" => ~(tty /\ t = 2)
    /\ calls' = calls + 1
    /\ th' = [th EXCEPT ![t] = [Idle EXCEPT !.at = IF op = "read" THEN "look" ELSE op,
                                            !.size = size, !.late = closed]]
    /\ UNCHANGED <<daemon, wire, flags, rest, history>>

(* `_read_stream`: the buffer is looked at without the lock.               *)
Look(t) ==
    /\ At(t, "look") /\ buffers[t] = <<>>
    /\ Goes(t, IF eof THEN "finish" ELSE "receive")
    /\ UNCHANGED <<daemon, wire, flags, rest, calls, history>>

(* A decoder that is given units; a character cut in two is held back.     *)
Decodes(t, units) ==
    half' = [half EXCEPT ![t] = IF units = <<>> THEN @ ELSE Last(units) = "h"]
Undecodable(t, units) == units # <<>> /\ Head(units) = "t" /\ ~half[t]

PutBackLast(chunk, chunks) == chunks \o chunk    \* Mutant: `append` for `appendleft`.
PutBack(chunk, chunks) == chunk \o chunks

EmptyOnHalf(t) == TRUE     \* Mutant: half a character is returned as ''.
Returns(t) == eof

(* A chunk is taken, or as much of it as was asked for.  What would be ''  *)
(* is not returned before the end.                                         *)
Pop(t) ==
    /\ At(t, "look") /\ buffers[t] # <<>>
    /\ LET chunk == Head(buffers[t])
           n == IF th[t].size < 0 THEN Len(chunk) ELSE 1
           units == SubSeq(chunk, 1, n)
           back == IF n < Len(chunk) THEN <<SubSeq(chunk, n + 1, Len(chunk))>> ELSE <<>>
       IN  /\ buffers' = [buffers EXCEPT ![t] = PutBack(back, Tail(@))]
           /\ popped' = [popped EXCEPT ![t] = @ \o units]
           /\ IF th[t].size < 0
              THEN th' = [th EXCEPT ![t].out = @ \o units] /\ UNCHANGED half
              ELSE /\ Decodes(t, units)
                   /\ IF Undecodable(t, units) THEN Ends(t, "undecodable")
                      ELSE IF units = <<"h">>
                           THEN IF Returns(t) THEN Ends(t, "empty") ELSE UNCHANGED th
                           ELSE Ends(t, "done")
    /\ UNCHANGED <<daemon, taken, parsed, eof, closed, lock, nonblock, code, rest, calls, reported>>

(* The end: the decoder is flushed, and says so when it holds a half.      *)
Finish(t) ==
    /\ At(t, "finish")
    /\ half' = [half EXCEPT ![t] = FALSE]
    /\ LET out == th[t].out
           left == IF out = <<>> THEN half[t] ELSE Last(out) = "h"
       IN  Ends(t, IF left \/ Undecodable(t, out) THEN "undecodable"
                   ELSE IF th[t].size < 0 THEN "all" ELSE "empty")
    /\ UNCHANGED <<daemon, wire, eof, closed, lock, nonblock, code, rest, calls, history>>

(* `_receive`: with the lock until a frame is whole.                       *)
Receive(t) ==
    /\ At(t, "receive") /\ lock = 0
    /\ IF eof THEN Goes(t, "look") /\ UNCHANGED lock
       ELSE Goes(t, "recv") /\ lock' = t
    /\ UNCHANGED <<daemon, wire, eof, closed, nonblock, code, half, rest, calls, history>>

(* `_finish_wire`.                                                         *)
FinishQuietly(t, next) ==     \* Mutant: a connection dropped in a frame is an end.
    eof' = TRUE /\ Goes(t, next) /\ UNCHANGED reported
FinishWire(t, next) ==
    /\ eof' = TRUE
    /\ IF MidFrame(taken) THEN Ends(t, "dropped") /\ reported' = TRUE
       ELSE Goes(t, next) /\ UNCHANGED reported

Shut == "socket" \notin held

Recv(t) ==
    /\ At(t, "recv")
    /\ \/ /\ taken < arrived /\ Got(arrived)
          /\ IF tty \/ parsed' > parsed THEN Goes(t, "look") /\ lock' = 0
             ELSE UNCHANGED <<th, lock>>
          /\ UNCHANGED <<eof, reported>>
       \/ /\ ended /\ taken = arrived
          /\ FinishWire(t, "look") /\ lock' = 0
          /\ UNCHANGED wire
       \/ /\ Shut \/ (nonblock /\ taken = arrived /\ ~ended)
          /\ Ends(t, IF Shut THEN "oserror" ELSE "again") /\ lock' = 0
          /\ UNCHANGED <<wire, eof, reported>>
    /\ UNCHANGED <<daemon, closed, nonblock, code, half, rest, calls, popped>>

(* `write` and `send_eof`, which takes no lock.  What the process does     *)
(* with its input is not told apart.                                       *)
Write(t) ==
    /\ At(t, "write")
    /\ IF closed THEN Ends(t, "closed") ELSE Goes(t, "send")
    /\ UNCHANGED <<daemon, wire, flags, rest, calls, history>>

Send(t) ==
    /\ At(t, "send") /\ lock = 0
    /\ Ends(t, IF Shut THEN "oserror" ELSE "done")
    /\ UNCHANGED <<daemon, wire, flags, rest, calls, history>>

SendEof(t) ==
    /\ At(t, "send_eof")
    /\ Ends(t, IF closed THEN "closed" ELSE IF Shut THEN "oserror" ELSE "done")
    /\ UNCHANGED <<daemon, wire, flags, rest, calls, history>>

(* `wait`: `_receive_available`, with the lock and a timeout of 0, then    *)
(* `returncode`, until it is there or the deadline has passed.             *)
DrainUnlocked(t) ==    \* Mutant: the timeout is changed without the lock.
    /\ At(t, "wait")
    /\ IF eof \/ closed THEN Goes(t, "inspect") /\ UNCHANGED <<lock, nonblock>>
       ELSE Goes(t, "poll") /\ nonblock' = TRUE /\ UNCHANGED lock
Drain(t) ==
    /\ At(t, "wait") /\ lock = 0
    /\ IF eof \/ closed THEN Goes(t, "inspect") /\ UNCHANGED <<lock, nonblock>>
       ELSE Goes(t, "poll") /\ lock' = t /\ nonblock' = TRUE

ReceiveAvailable(t) ==
    /\ Drain(t)
    /\ UNCHANGED <<daemon, wire, eof, closed, code, half, rest, calls, history>>

RestoredNot(t) ==     \* Mutant: the timeout stays 0.
    lock' = (IF lock = t THEN 0 ELSE lock) /\ UNCHANGED nonblock
Restored(t) == lock' = (IF lock = t THEN 0 ELSE lock) /\ nonblock' = FALSE

Poll(t) ==
    /\ At(t, "poll")
    /\ \/ /\ ~eof /\ taken < arrived /\ Got(arrived)
          /\ UNCHANGED <<th, lock, nonblock, eof, reported>>
       \/ /\ eof \/ (taken = arrived /\ ~ended)
          /\ Goes(t, "inspect") /\ Restored(t)
          /\ UNCHANGED <<wire, eof, reported>>
       \/ /\ ~eof /\ ended /\ taken = arrived
          /\ FinishWire(t, "inspect") /\ Restored(t)
          /\ UNCHANGED wire
       \/ /\ Shut /\ Ends(t, "oserror") /\ Restored(t)
          /\ UNCHANGED <<wire, eof, reported>>
    /\ UNCHANGED <<daemon, closed, code, half, rest, calls, popped>>

ExitedKnown == state = "exited"     \* Mutant: no status is taken for running.
Exited == state # "running"

Inspect(t) ==
    /\ At(t, "inspect")
    /\ code' = (code \/ Exited)
    /\ IF code' THEN Ends(t, "done")
       ELSE Goes(t, "wait") \/ Ends(t, "done")
    /\ UNCHANGED <<daemon, wire, eof, closed, lock, nonblock, half, rest, calls, history>>

(* `close`: the end of the stream first, then each handle, whatever the    *)
(* closing of the others raised.                                           *)
MarkClosedOnly(t) == closed' = TRUE /\ UNCHANGED eof    \* Mutant: `_eof` is forgotten.
MarkClosed(t) == closed' = TRUE /\ eof' = TRUE

Close(t) ==
    /\ At(t, "close")
    /\ IF closed THEN Ends(t, "done") /\ UNCHANGED <<closed, eof>>
       ELSE MarkClosed(t) /\ Goes(t, "shut")
    /\ UNCHANGED <<daemon, wire, lock, nonblock, code, half, rest, calls, history>>

CloseHandlesUntil == \E h \in SUBSET held: held' = held \ h    \* Mutant: an error ends it.
CloseHandles == held' = {}

CloseSocket(t) ==
    /\ At(t, "shut")
    /\ CloseHandles
    /\ Ends(t, "done")
    /\ UNCHANGED <<daemon, wire, flags, spawn, calls, history>>

Step(t) ==
    \/ Look(t) \/ Pop(t) \/ Finish(t) \/ Receive(t) \/ Recv(t)
    \/ Write(t) \/ Send(t) \/ SendEof(t)
    \/ ReceiveAvailable(t) \/ Poll(t) \/ Inspect(t)
    \/ Close(t) \/ CloseSocket(t)

Calls == {<<"read", 1>>, <<"read", -1>>} \cup {<<op, 0>>: op \in {"wait", "write", "send_eof", "close"}}

Next ==
    \/ Start \/ Spawn \/ Arrive \/ Exit \/ End
    \/ \E t \in Threads: Step(t) \/ \E c \in Calls: Begin(t, c[1], c[2])

Spec == Init /\ [][Next]_vars /\ \A t \in Threads: WF_vars(Step(t))

-----------------------------------------------------------------------------
(* Properties. *)

(* Every variable keeps its kind. *)
TypeOK ==
    /\ arrived \in 0 .. Total /\ taken \in 0 .. arrived /\ parsed \in 0 .. Len(output)
    /\ spawn \in {"request", "resize", "construct", "started", "failed"}
    /\ held \subseteq {"response", "stream", "socket"}
    /\ {eof, closed, nonblock, code, ended, reported} \subseteq BOOLEAN
    /\ state \in {"running", "exited", "unknown"}
    /\ lock \in Threads \cup {0} /\ (nonblock => lock # 0)
    /\ \A s \in Streams: half[s] \in BOOLEAN /\ \A i \in DOMAIN buffers[s]: buffers[s][i] # <<>>
    /\ calls \in 0 .. MaxCalls

(* What reads take out of the buffers and what they leave there is, for    *)
(* each stream, exactly what has arrived of it whole, in its order,        *)
(* whoever of the threads received it and however it was cut.              *)
InOrder ==
    \A s \in Streams: popped[s] \o FlattenSeq(buffers[s]) = Payload(s, taken)

(* A read that says the stream has ended has read all of it: `_eof` is set *)
(* by whichever call meets the end, and a connection that dropped in a     *)
(* frame is reported to one of them.  Not so when the process was closed,  *)
(* or when the end was met before the halves of a character were read.     *)
HonestEnd ==
    \A t \in Threads: th[t].end \in {"empty", "all"} =>
        \/ closed
        \/ /\ ended /\ (MidFrame(arrived) => reported)
           /\ popped[t] = Payload(t, arrived) \/ (th[t].end = "empty" /\ half[t])

(* What is read is what the process wrote, to its end.                     *)
ReadsWhole == TypeOK /\ InOrder /\ HonestEnd

(* A call fails for a cause: never because `wait` has made the socket      *)
(* non-blocking under a read, and never because of a handle that was       *)
(* closed before the call began.                                           *)
FailsForCause ==
    \A t \in Threads: /\ th[t].end # "again"
                      /\ th[t].end = "oserror" => ~th[t].late

(* Whatever a failure of `spawn` leaves open is the collector's; a process *)
(* that was closed holds nothing.                                          *)
Released ==
    /\ spawn = "failed" => held \subseteq {"response"}
    /\ closed /\ (\A t \in Threads: ~At(t, "shut")) => held = {}

(* No handle is left open, and none is taken from under a call.            *)
HandlesSound == FailsForCause /\ Released

(* Once the process has exited and its connection has ended, every call    *)
(* ends, a wait for a process whose status nobody knows included.          *)
CallsEnd == \A t \in Threads: (Busy(t) /\ ended /\ state # "running") ~> ~Busy(t)
=============================================================================
