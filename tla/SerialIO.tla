------------------------------- MODULE SerialIO -------------------------------
(***************************************************************************)
(* Reading and writing on a serial port (transports/serial/_process.py):   *)
(* the handles that one executor lends one after the other, used by two    *)
(* threads.  The first may be ended while its calls are under way and the  *)
(* second given out; both use one injected port and one `_io_lock`.  The   *)
(* port has no limit of its own, so a read blocks until it has what it was *)
(* asked for.  A call is its number.                                       *)
(***************************************************************************)
EXTENDS Integers, Sequences, FiniteSets

CONSTANTS Users,       \* how many threads there are
          MaxBytes,    \* bound: bytes that wait in the port
          MaxUses      \* bound: calls of all threads

Free == 0
Handles == {1, 2}
Settings == {"timeout", "write_timeout"}

(* What is taken for granted of the constants. *)
IOAssumption == Users \in Nat /\ MaxBytes \in Nat /\ MaxUses \in Nat

VARIABLES counts,      \* whether the port has `in_waiting`
          settable,    \* whether its settings can be set
          setting,     \* setting[s]: the call whose limit is set, or Free
          io,          \* the call that has `_io_lock`, or Free
          spent,       \* handles whose lease has ended, `_closed`
          plugged,     \* whether the port is open
          incoming,    \* how many bytes wait in the port
          use

(* History, which no guard reads. *)
VARIABLES crossed,     \* whether a piece of one write went out amid another's
          raced        \* whether two reads ever overlapped, or a read and a reset

port == <<setting, spent, plugged, incoming>>
history == <<crossed, raced>>
vars == <<counts, settable, port, io, use, history>>

Calls == 1 .. MaxUses
Unused == [at |-> "unused", op |-> "none", handle |-> 0, timed |-> FALSE, size |-> 0,
           counted |-> FALSE, left |-> 0, old |-> Free, failed |-> FALSE]

Init ==
    /\ counts \in BOOLEAN /\ settable \in BOOLEAN
    /\ setting = [s \in Settings |-> Free]
    /\ io = Free /\ spent = {} /\ plugged = TRUE
    /\ incoming = 0
    /\ use = [c \in Calls |-> Unused]
    /\ crossed = FALSE /\ raced = FALSE

Now(c, pc) == use[c].at = pc
Active == {c \in Calls: use[c].at \notin {"unused", "over"}}
Go(c, pc) == use' = [use EXCEPT ![c] = IF pc = "over" THEN [Unused EXCEPT !.at = pc] ELSE [@ EXCEPT !.at = pc]]
Limit(c) == IF use[c].op = "write" THEN "write_timeout" ELSE "timeout"

-----------------------------------------------------------------------------
(* The line, the owner of the port, and the end of the first handle.       *)
Arrive ==
    /\ plugged /\ incoming < MaxBytes
    /\ incoming' = incoming + 1
    /\ UNCHANGED <<counts, settable, setting, spent, plugged, io, use, history>>

Unplug ==
    /\ plugged /\ plugged' = FALSE
    /\ UNCHANGED <<counts, settable, setting, spent, incoming, io, use, history>>

HandleEnds ==
    /\ spent = {} /\ spent' = {1}
    /\ UNCHANGED <<counts, settable, setting, plugged, incoming, io, use, history>>

Begin(kind) ==
    \E c \in Calls:
        /\ Now(c, "unused") /\ \A d \in 1 .. c - 1: ~Now(d, "unused")
        /\ Cardinality(Active) < Users
        /\ \E h \in Handles:
               /\ h = 1 \/ 1 \in spent
               /\ use' = [use EXCEPT ![c] =
                      [Unused EXCEPT !.at = "check", !.handle = h, !.op = kind.op,
                                     !.timed = kind.timed, !.size = kind.size,
                                     !.left = IF kind.op = "write" THEN 2 ELSE 0]]
        /\ raced' = (raced \/ (/\ kind.op \in {"read", "reset"}
                               /\ \E d \in Active: use[d].op \in {"read", "reset"}))
        /\ UNCHANGED <<counts, settable, port, io, crossed>>

-----------------------------------------------------------------------------
(* A call looks whether its handle and the port are open, before the lock. *)
Check(c) ==
    /\ Now(c, "check")
    /\ Go(c, IF use[c].handle \in spent \/ ~plugged THEN "over"
             ELSE IF use[c].size = -1 THEN "count" ELSE "lock")
    /\ UNCHANGED <<counts, settable, port, io, history>>

(* A read of what there is asks how much that is, also before the lock.    *)
CountsPiece(c) ==      \* Mutant: a read of what there is asks for a fixed amount.
    /\ Now(c, "count") /\ use' = [use EXCEPT ![c].size = 2, ![c].counted = TRUE, ![c].at = "lock"]
    /\ UNCHANGED <<counts, settable, port, io, history>>
Count(c) ==
    /\ Now(c, "count")
    /\ LET n == IF counts THEN incoming ELSE 1
       IN  IF n = 0 THEN Go(c, "over")
           ELSE use' = [use EXCEPT ![c].size = n, ![c].counted = counts, ![c].at = "lock"]
    /\ UNCHANGED <<counts, settable, port, io, history>>

Lock(c) ==
    /\ Now(c, "lock") /\ io = Free
    /\ io' = c
    /\ Go(c, IF use[c].op \in {"read", "write"} THEN "limit" ELSE "other")
    /\ UNCHANGED <<counts, settable, port, history>>

(* `_bounded`: the port is given the limit of the call, one write at a     *)
(* time, and what it had is put back.                                      *)
SetLimit(c) ==
    /\ Now(c, "limit")
    /\ IF use[c].timed /\ settable
       THEN /\ setting' = [setting EXCEPT ![Limit(c)] = c]
            /\ use' = [use EXCEPT ![c].at = "port", ![c].old = setting[Limit(c)]]
       ELSE Go(c, "port") /\ UNCHANGED setting
    /\ UNCHANGED <<counts, settable, spent, plugged, incoming, io, history>>

RestoresOnSuccess(c) ==    \* Mutant: a failure leaves the limit in place.
    IF use[c].timed /\ settable /\ ~use[c].failed
    THEN [setting EXCEPT ![Limit(c)] = use[c].old] ELSE setting
Restored(c) ==
    IF use[c].timed /\ settable THEN [setting EXCEPT ![Limit(c)] = use[c].old] ELSE setting

LocksPieces(c) == "lock"      \* Mutant: each piece of a write takes the lock for itself.
NextPiece(c) == "limit"

RestoreLimit(c) ==
    /\ Now(c, "restore")
    /\ setting' = Restored(c)
    /\ LET more == use[c].left > 0 /\ ~use[c].failed
           next == IF more THEN NextPiece(c) ELSE "over"
       IN  /\ io' = IF more /\ next = "limit" THEN io ELSE Free
           /\ Go(c, next)
    /\ UNCHANGED <<counts, settable, spent, plugged, incoming, history>>

(* The port: a piece of a write, which may fail or make no progress, also  *)
(* for its limit; and a read, which ends with what it asked for, or with   *)
(* what there is when its limit is over.                                   *)
WritePiece(c) ==
    /\ Now(c, "port") /\ use[c].op = "write" /\ plugged
    /\ crossed' = (crossed \/ \E d \in Active \ {c}: use[d].op = "write" /\ use[d].left = 1)
    /\ use' = [use EXCEPT ![c].left = @ - 1, ![c].at = "restore"]
    /\ UNCHANGED <<counts, settable, port, io, raced>>

Reads(c) ==
    /\ Now(c, "port") /\ use[c].op = "read" /\ plugged
    /\ incoming >= use[c].size \/ setting["timeout"] # Free
    /\ incoming' = IF incoming < use[c].size THEN 0 ELSE incoming - use[c].size
    /\ Go(c, "restore")
    /\ UNCHANGED <<counts, settable, setting, spent, plugged, io, history>>

PortFails(c) ==
    /\ Now(c, "port")
    /\ use' = [use EXCEPT ![c].failed = TRUE, ![c].at = "restore"]
    /\ UNCHANGED <<counts, settable, port, io, history>>

(* `send_break` and `reset_input_buffer`. *)
Other(c) ==
    /\ Now(c, "other")
    /\ \/ plugged /\ incoming' = IF use[c].op = "reset" THEN 0 ELSE incoming
       \/ UNCHANGED incoming
    /\ io' = Free /\ Go(c, "over")
    /\ UNCHANGED <<counts, settable, setting, spent, plugged, history>>

Step(c) ==
    \/ Check(c) \/ Count(c) \/ Lock(c) \/ SetLimit(c) \/ RestoreLimit(c) \/ WritePiece(c)
    \/ Reads(c) \/ PortFails(c) \/ Other(c)

Kinds == [op: {"read"}, timed: BOOLEAN, size: {-1, 2}] \cup [op: {"write"}, timed: BOOLEAN, size: {0}]
         \cup [op: {"reset", "break"}, timed: {FALSE}, size: {0}]

Next == \/ Arrive \/ Unplug \/ HandleEnds
        \/ \E k \in Kinds: Begin(k)
        \/ \E c \in Calls: Step(c)

Spec == Init /\ [][Next]_vars

-----------------------------------------------------------------------------
(* Whenever the lock is free the port is set as it was configured; and a   *)
(* call that waits in the port waits under its own limit if it has one,    *)
(* and never under that of another.                                        *)
LimitsOwn ==
    /\ io = Free => setting = [s \in Settings |-> Free]
    /\ \A c \in Calls: Now(c, "port") =>
           setting[Limit(c)] = IF use[c].timed /\ settable THEN c ELSE Free

(* What one call writes is together on the line, though another handle's   *)
(* calls, begun while it wrote, wait for the same port.                    *)
WritesWhole == ~crossed

(* A read of what there is does not wait, unless another read, or a reset, *)
(* took what it had counted.                                               *)
CountedThere ==
    ~raced =>
        \A c \in Calls: Now(c, "port") /\ use[c].op = "read" /\ use[c].counted =>
            incoming >= use[c].size

IOSound == LimitsOwn /\ WritesWhole /\ CountedThere
=============================================================================
