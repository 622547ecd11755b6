------------------------------- MODULE Consoles -------------------------------
(***************************************************************************)
(* The consoles that one process at a time may use, taken together: the    *)
(* serial console (SerialConsole), the console of a QEMU guest             *)
(* (QEMUConsole), and what the calls of several threads do to one serial   *)
(* port (SerialIO).  None knows of the others, so a behaviour is one of    *)
(* the three: its part says which.                                         *)
(***************************************************************************)
EXTENDS SerialConsole

CONSTANTS Callers, MaxUses,     \* QEMUConsole's threads, and the bound of their calls
          Users, MaxBytes,      \* SerialIO's
          MaxTransfers

VARIABLES part,
          kind, streams, stream, holder, over, claimed, procs, unmade, lock, th, used, strays,    \* QEMUConsole
          counts, settable, setting, io, spent, plugged, incoming, use,                   \* SerialIO
          crossed, raced

console == <<kind, streams, stream, holder, over, claimed, procs, unmade, lock, th, used, strays>>
lines == <<counts, settable, setting, io, spent, plugged, incoming, use, crossed, raced>>
all == <<part, vars, console, lines>>

Q == INSTANCE QEMUConsole WITH MaxCalls <- MaxUses, ended <- over, calls <- used
L == INSTANCE SerialIO WITH MaxUses <- MaxTransfers

ASSUME ConsolesAssumption == L!IOAssumption

(* A part that is not the behaviour's own stays as it is. *)
NoSerial == Init /\ ~injected
NoConsole ==
    /\ kind = 0 /\ streams = 0 /\ stream = 0 /\ holder = 0 /\ over = 0 /\ claimed = 0 /\ procs = 0
    /\ unmade = 0
    /\ lock = 0 /\ th = 0 /\ used = 0 /\ strays = 0
NoLines ==
    /\ counts = 0 /\ settable = 0 /\ setting = 0 /\ io = 0 /\ spent = 0 /\ plugged = 0 /\ incoming = 0
    /\ use = 0 /\ crossed = 0 /\ raced = 0

RunInit ==
    \/ part = "serial" /\ Init /\ NoConsole /\ NoLines
    \/ part = "qemu" /\ NoSerial /\ Q!Init /\ NoLines
    \/ part = "io" /\ NoSerial /\ NoConsole /\ L!Init

RunNext ==
    /\ UNCHANGED part
    /\ \/ part = "serial" /\ Next /\ UNCHANGED <<console, lines>>
       \/ part = "qemu" /\ Q!Next /\ UNCHANGED <<vars, lines>>
       \/ part = "io" /\ L!Next /\ UNCHANGED <<vars, console>>

Run == RunInit /\ [][RunNext]_all

(* One process has the console of a guest, and leaves it as it found it    *)
(* (QEMUConsole).                                                          *)
ConsoleSound == part = "qemu" => Q!ConsoleSound

(* The calls of two threads on one port, of one handle or of two, neither  *)
(* mix what they write nor wait under each other's limit (SerialIO).       *)
IOSound == part = "io" => L!IOSound
=============================================================================
