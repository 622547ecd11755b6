---------------------------- MODULE TypedCommand ----------------------------
(***************************************************************************)
(* How `PosixConsoleProfile` types a command (console/_posix.py): in lines *)
(* put into batches, each acknowledged by the shell before the next, into  *)
(* a terminal that echoes what it takes, stops taking input while its echo *)
(* is not read, and has a queue that either drops what overruns it (a      *)
(* serial line) or makes the writer wait (a pty).                          *)
(*                                                                         *)
(* A unit stands for bytes; the last line is the one that runs the command.*)
(***************************************************************************)
EXTENDS Integers, Sequences, SequencesExt

CONSTANTS Scripts,     \* the lines typed for a command: sequences of sizes
          Batches,     \* values of `batch`; 0 is None
          AckRoom,     \* `_ACK_ROOM`, and the size of an acknowledgement
          Write,       \* `_WRITE`
          Queue, Room, \* units the terminal queues; units of unread output it takes input with
          Faults       \* what the stream may raise

(* What is taken for granted of the constants: a line fits in a batch with *)
(* its acknowledgement and in one write, a batch in the queue, and a write *)
(* in the room there is for its echo.                                      *)
TypingAssumption ==
    /\ Write <= Room
    /\ Faults \subseteq {"connection", "refused", "other"}
    /\ \A b \in Batches \ {0}: b <= Queue
    /\ \A s \in Scripts: s # <<>> /\ \A i \in DOMAIN s: s[i] \in 1 .. Write /\ s[i] <= Queue
    /\ \A b \in Batches \ {0}: \A s \in Scripts: \A i \in DOMAIN s: s[i] + AckRoom <= b

VARIABLES lines, batch,   \* the lines, `batch`
          groups,         \* the lines in batches
          deadline,          \* whether there is a deadline
          at,             \* what the profile is doing, or how the typing ended
          number,         \* the batch being typed
          piece, left,    \* the piece of it, and how much of that is not yet taken
          taken,          \* units the terminal took
          dropped,        \* whether it dropped some
          consumed,       \* lines the shell has read
          out,            \* what it sent and nobody read: "e", or an acknowledgement "A", n
          buffer          \* what `_acknowledged` keeps

vars == <<lines, batch, groups, deadline, at, number, piece, left, taken, dropped, consumed, out, buffer>>
fixed == <<lines, batch, groups, deadline>>

-----------------------------------------------------------------------------
(* `_typed_batches`: lines are put together as long as they fit.           *)
Grouped(sizes, limit) ==
    FoldLeft(LAMBDA gs, i:
        IF gs # <<>> /\ FoldLeft(LAMBDA n, j: n + sizes[j], sizes[i], Last(gs)) <= limit
        THEN [gs EXCEPT ![Len(gs)] = Append(@, i)] ELSE Append(gs, <<i>>),
        <<>>, [i \in DOMAIN sizes |-> i])

OverfullGroups(sizes, b) == Grouped(sizes, b)   \* Mutant: no room for the acknowledgement.
Groups(sizes, b) ==
    IF b = 0 THEN <<[i \in DOMAIN sizes |-> i]>> ELSE Grouped(sizes, b - AckRoom)

Final == number = Len(groups)
Acked(i) == \E b \in 1 .. Len(groups) - 1: i = Last(groups[b])

(* The length of a line with the acknowledgement it may end with. *)
Typed(i) == lines[i] + (IF Acked(i) THEN AckRoom ELSE 0)
EndOf(i) == FoldLeft(LAMBDA n, j: n + Typed(j), 0, [j \in 1 .. i |-> j])

(* `_type`: the lines of a batch that come before the command line, in     *)
(* writes of a bounded size.                                               *)
Setup == IF Final THEN Front(groups[number]) ELSE groups[number]
Pieces ==
    FoldLeft(LAMBDA ps, i:
        IF ps # <<>> /\ Last(ps) + Typed(i) <= Write
        THEN [ps EXCEPT ![Len(ps)] = @ + Typed(i)] ELSE Append(ps, Typed(i)),
        <<>>, Setup)

-----------------------------------------------------------------------------
Init ==
    /\ lines \in Scripts /\ batch \in Batches /\ groups = Groups(lines, batch)
    /\ deadline \in BOOLEAN
    /\ at = "batch" /\ number = 1
    /\ piece = 0 /\ left = 0
    /\ taken = 0 /\ dropped = FALSE /\ consumed = 0
    /\ out = <<>> /\ buffer = <<>>

(* The terminal: a serial line drops what does not fit, a pty waits. *)
Queued == taken - EndOf(consumed)

Take ==
    /\ left > 0 /\ Len(out) < Room
    /\ batch = 0 => Queued < Queue
    /\ dropped' = (dropped \/ Queued >= Queue)
    /\ taken' = taken + 1 /\ left' = left - 1
    /\ out' = Append(out, "e")
    /\ UNCHANGED <<fixed, at, number, piece, consumed, buffer>>

(* The shell reads a line, when there is a whole one.                      *)
ReadLine ==
    /\ consumed < Len(lines) /\ taken >= EndOf(consumed + 1) /\ Len(out) < Room
    /\ consumed' = consumed + 1
    /\ out' = IF Acked(consumed + 1)
              THEN out \o <<"A", ToString(CHOOSE b \in DOMAIN groups: Last(groups[b]) = consumed + 1)>>
              ELSE out
    /\ UNCHANGED <<fixed, at, number, piece, left, taken, dropped, buffer>>

-----------------------------------------------------------------------------
(* `_prepare`, batch by batch.                                             *)
TypeBatch ==
    /\ at = "batch"
    /\ IF Pieces = <<>> THEN at' = "setup" /\ UNCHANGED <<piece, left>>
       ELSE at' = "write" /\ piece' = 1 /\ left' = Pieces[1]
    /\ UNCHANGED <<fixed, number, taken, dropped, consumed, out, buffer>>

Undrained == UNCHANGED out     \* Mutant: the echo is not read.
Drained == out' = <<>>

(* Between two pieces what was sent is read, and dropped; behind the last  *)
(* only before the command line.                                           *)
NextPiece ==
    /\ at = "write" /\ left = 0
    /\ IF piece < Len(Pieces)
       THEN at' = "write" /\ piece' = piece + 1 /\ left' = Pieces[piece + 1] /\ Drained
       ELSE /\ at' = IF Final THEN "setup" ELSE "acknowledge"
            /\ IF Final THEN Drained ELSE UNCHANGED out
            /\ UNCHANGED <<piece, left>>
    /\ buffer' = <<>>
    /\ UNCHANGED <<fixed, number, taken, dropped, consumed>>

Marker == <<"A", ToString(number)>>

(* `_acknowledged`: all but the marker and what follows it is dropped, and *)
(* what may be the beginning of it is kept.                                *)
HasMarker(s) == \E i \in 1 .. Len(s) - 1: SubSeq(s, i, i + 1) = Marker
Nothing(s) == <<>>     \* Mutant: a marker in two reads is not found.
Kept(s) == IF s = <<>> THEN <<>> ELSE <<Last(s)>>

Acknowledged ==
    /\ at = "acknowledge" /\ HasMarker(buffer)
    /\ at' = "batch" /\ number' = number + 1 /\ piece' = 0
    /\ UNCHANGED <<fixed, left, taken, dropped, consumed, out, buffer>>

Read(n) ==
    /\ at = "acknowledge" /\ ~HasMarker(buffer) /\ n <= Len(out)
    /\ buffer' = Kept(buffer) \o SubSeq(out, 1, n) /\ out' = SubSeq(out, n + 1, Len(out))
    /\ UNCHANGED <<fixed, at, number, piece, left, taken, dropped, consumed>>

(* The deadline is looked at before each read; ^C, and nothing was run.    *)
Expire ==
    /\ at = "acknowledge" /\ ~HasMarker(buffer) /\ deadline
    /\ at' = "expired"
    /\ UNCHANGED <<fixed, number, piece, left, taken, dropped, consumed, out, buffer>>

(* `_start`: the command line.                                             *)
Main ==
    /\ at = "setup"
    /\ at' = "main" /\ left' = Typed(Len(lines))
    /\ UNCHANGED <<fixed, number, piece, taken, dropped, consumed, out, buffer>>

Done ==
    /\ at = "main" /\ left = 0
    /\ at' = "typed"
    /\ UNCHANGED <<fixed, number, piece, left, taken, dropped, consumed, out, buffer>>

(* The stream fails: what it raises while it is written to or drained is a *)
(* decline, while an acknowledgement is awaited only a connection error    *)
(* is, and nothing is once the command line is being typed.                *)
DeclinesAny(fault) == TRUE     \* Mutant: a decline, whatever was typed.
Declines(fault) ==
    at \in {"write", "setup"} \/ (at = "acknowledge" /\ fault \in {"connection", "refused"})

Fail(fault) ==
    /\ at \in {"write", "acknowledge", "main"} \/ (at = "setup" /\ piece > 0)
    /\ at' = IF Declines(fault) THEN "declined" ELSE "failed"
    /\ left' = 0
    /\ UNCHANGED <<fixed, number, piece, taken, dropped, consumed, out, buffer>>

Profile == TypeBatch \/ NextPiece \/ Acknowledged \/ (\E n \in 1 .. Room + 2: Read(n)) \/ Main \/ Done
Terminal == Take \/ ReadLine

Next == Profile \/ Terminal \/ Expire \/ \E fault \in Faults: Fail(fault)

(* The shell and the terminal go on, and the profile's thread too.         *)
Spec == Init /\ [][Next]_vars /\ WF_vars(Profile) /\ WF_vars(Take) /\ WF_vars(ReadLine)

-----------------------------------------------------------------------------
Over == {"typed", "declined", "failed", "expired"}

TypeOK ==
    /\ at \in {"batch", "write", "acknowledge", "setup", "main"} \cup Over
    /\ number \in 1 .. Len(groups) /\ piece \in 0 .. Len(Pieces) /\ left \in 0 .. Write + AckRoom
    /\ consumed \in 0 .. Len(lines) /\ taken \in 0 .. EndOf(Len(lines))

(* Nothing typed is dropped by a queue that holds a batch: no more than    *)
(* one is ever on its way.                                                 *)
NothingDropped == ~dropped

(* The batches are the lines, in order; the command line is typed after    *)
(* every batch before it was acknowledged, and so is what it needs.        *)
InOrder ==
    /\ FlattenSeq(groups) = [i \in DOMAIN lines |-> i]
    /\ at \in {"main", "typed"} => consumed >= Len(lines) - Len(Last(groups))
    /\ at = "typed" => taken = EndOf(Len(lines))

(* Who declines, or reports a timeout of which nothing is left, has typed  *)
(* no unit of the command line.                                            *)
DeclinesBefore == at \in {"declined", "expired"} => taken <= EndOf(Len(lines) - 1)

(* What is typed arrives whole, and what is declined was not run.          *)
TypedWhole == TypeOK /\ NothingDropped /\ InOrder /\ DeclinesBefore
=============================================================================
