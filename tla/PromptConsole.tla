---------------------------- MODULE PromptConsole ----------------------------
(***************************************************************************)
(* `PromptConsoleProfile` (console/_profiles.py): commands sent to a       *)
(* network device one after the other on a console that merges echo,       *)
(* output, a status marker and the prompt into one stream, read directly   *)
(* or by the thread of `console_stream` (console/_stream.py).              *)
(*                                                                         *)
(* A symbol is "P" for what the prompt expression matches, "L" and "W" for *)
(* what the two login steps expect, "-" for the paging prompt, "m" with    *)
(* digits for the status marker, "n" for a line end, "c1" for the text of  *)
(* the first command, and "x" for anything else.  Command 0 is             *)
(* `paging_disable`.                                                       *)
(***************************************************************************)
EXTENDS Integers, Sequences, SequencesExt, FiniteSetsExt

CONSTANTS Banners,     \* what the device prints before it asks for a login
          Scripts,     \* what the two runs answer: pairs of [text, status]
          MaxPages,    \* `max_paging_pages`
          MaxBuffer    \* `max_buffer`

Digits == {"0", "1"}
Runs == {1, 2}         \* bound: the runs of a behaviour

(* What is taken for granted of the constants. *)
ProfileAssumption ==
    /\ MaxPages \in Nat /\ MaxBuffer \in Nat
    /\ \A s \in Scripts: \A k \in Runs: s[k].status # <<>> /\ ToSet(s[k].status) \subseteq Digits

VARIABLES echo, pumped, \* the profile's `echo`; whether a thread reads the process
          reply,        \* what each command answers
          phase,        \* where the device is: "user", "password", "shell", "gone"
          typed,        \* the lines it has not read yet
          rest,         \* what it is about to print
          waits         \* whether it waits at a paging prompt

VARIABLES wire, moving, \* what is in the process, and in the hands of the thread
          ready,        \* what a read returns
          ended,        \* `_ended`
          at,           \* what the profile is doing
          run,          \* the run it is at
          buffer, floor, pages,
          result        \* of each run: how it ended, its output and its status

(* History, which no guard reads. *)
VARIABLE late           \* runs sent while an earlier command had more to say

device == <<phase, typed, rest, waits>>
stream == <<wire, moving, ready, ended>>
reading == <<buffer, floor, pages>>
vars == <<echo, pumped, reply, device, stream, at, run, reading, result, late>>
fixed == <<echo, pumped, reply>>

-----------------------------------------------------------------------------
(* Searching; a position is how many symbols come before it. *)
Slice(s, from, to) == SubSeq(s, from + 1, to)
Found(s, symbol, from) == {i \in from .. Len(s) - 1: s[i + 1] = symbol}
MarkerAt(s, i) == s[i + 1] = "m" /\ i + 1 < Len(s) /\ s[i + 2] \in Digits
Markers(s, from) == {i \in from .. Len(s) - 1: MarkerAt(s, i)}
MarkerEnd(s, i) == Max({j \in i + 2 .. Len(s): ToSet(Slice(s, i + 1, j)) \subseteq Digits})

Text(k) == <<"c0", "c1", "c2">>[k + 1]

(* `_window`: behind the echo, once it is there. *)
NoWindow(s, k, from) == from     \* Mutant: the echo is not looked for.
Window(s, k, from) ==
    LET hits == Found(s, Text(k), from)
    IN  IF ~echo \/ hits = {} THEN from ELSE Min(hits) + 1

-----------------------------------------------------------------------------
Nothing == [how |-> "none", body |-> <<>>, status |-> <<>>]

(* From the start, with one run to come, or logged in, with two. *)
Init ==
    /\ echo \in BOOLEAN /\ pumped \in BOOLEAN
    /\ reply \in Scripts
    /\ typed = <<>> /\ waits = FALSE
    /\ \/ phase = "user" /\ at = "wakeup" /\ run = 1 /\ \E b \in Banners: rest = b \o <<"L">>
       \/ phase = "shell" /\ at = "idle" /\ run = 0 /\ rest = <<>>
    /\ wire = <<>> /\ moving = <<>> /\ ready = <<>> /\ ended = FALSE
    /\ buffer = <<>> /\ floor = 0 /\ pages = 0
    /\ result = [k \in Runs |-> Nothing] /\ late = {}

(* The device, as the profile drives it.  It prints what it has to, stops  *)
(* at a paging prompt, and then reads the next line.  What follows waits   *)
(* until the last piece was taken: a larger piece would have done as well. *)
Prints(n) ==
    /\ rest # <<>> /\ ~waits /\ n <= Len(rest)
    /\ \A i \in 1 .. n - 1: rest[i] # "-"
    /\ waits' = (rest[n] = "-")
    /\ IF pumped THEN wire = <<>> /\ wire' = SubSeq(rest, 1, n) /\ UNCHANGED ready
       ELSE ready = <<>> /\ ready' = SubSeq(rest, 1, n) /\ UNCHANGED wire
    /\ rest' = SubSeq(rest, n + 1, Len(rest))
    /\ UNCHANGED <<fixed, phase, typed, moving, ended, at, run, reading, result, late>>

Answer(k) ==
    (IF echo THEN <<Text(k), "n">> ELSE <<>>)
    \o (IF k = 0 THEN <<"x">> ELSE reply[k].text \o <<"m">> \o reply[k].status) \o <<"P">>

ReadLine ==
    /\ rest = <<>> /\ typed # <<>> /\ phase # "gone"
    /\ typed' = Tail(typed)
    /\ \/ phase = "user" /\ phase' = "password" /\ rest' = <<"W">>
       \/ phase = "password" /\ phase' = "shell" /\ rest' = <<"P">>
       \/ phase = "password" /\ phase' = "user" /\ rest' = <<"L">>
       \/ /\ phase = "shell" /\ UNCHANGED phase
          /\ rest' = IF \E k \in 0 .. 2: Head(typed) = Text(k)
                     THEN Answer(CHOOSE k \in 0 .. 2: Head(typed) = Text(k)) ELSE <<"P">>
    /\ UNCHANGED <<fixed, waits, stream, at, run, reading, result, late>>

Logout ==
    /\ phase = "shell" /\ rest = <<>> /\ typed = <<>> /\ run < Max(Runs) /\ at = "idle"
    /\ phase' = "user" /\ rest' = <<"L">>
    /\ UNCHANGED <<fixed, typed, waits, stream, at, run, reading, result, late>>

Drop ==
    /\ pumped /\ run > 0 /\ phase # "gone"
    /\ phase' = "gone" /\ rest' = <<>> /\ typed' = <<>> /\ waits' = FALSE
    /\ UNCHANGED <<fixed, stream, at, run, reading, result, late>>

(* `_pump`. *)
PumpTakes ==
    /\ pumped /\ moving = <<>> /\ wire # <<>>
    /\ moving' = wire /\ wire' = <<>>
    /\ UNCHANGED <<fixed, device, ready, ended, at, run, reading, result, late>>

PumpAdds ==
    /\ moving # <<>>
    /\ ready' = ready \o moving /\ moving' = <<>>
    /\ UNCHANGED <<fixed, device, wire, ended, at, run, reading, result, late>>

PumpEnds ==
    /\ pumped /\ phase = "gone" /\ wire = <<>> /\ moving = <<>> /\ ~ended
    /\ ended' = TRUE
    /\ UNCHANGED <<fixed, device, wire, moving, ready, at, run, reading, result, late>>

-----------------------------------------------------------------------------
(* `negotiate`: each step expects its pattern in all that was read so far. *)
Writes(line) == typed' = IF phase = "gone" THEN typed ELSE Append(typed, line)

Wakeup ==
    /\ at = "wakeup"
    /\ ready' = <<>> /\ at' = "login"
    /\ UNCHANGED <<fixed, device, wire, moving, ended, run, reading, result, late>>

Expected == CASE at = "login" -> "L" [] at = "secret" -> "W" [] OTHER -> "P"

Login ==
    /\ at \in {"login", "secret"} /\ Found(buffer, Expected, 0) # {}
    /\ Writes(at)
    /\ at' = IF at = "login" THEN "secret" ELSE "first"
    /\ UNCHANGED <<fixed, phase, rest, waits, stream, run, reading, result, late>>

(* The prompt; `paging_disable` is sent, and its answer not waited for.    *)
Negotiated ==
    /\ at = "first" /\ Found(buffer, "P", 0) # {}
    /\ Writes(Text(0))
    /\ at' = "idle" /\ buffer' = <<>>
    /\ UNCHANGED <<fixed, phase, rest, waits, stream, run, floor, pages, result, late>>

-----------------------------------------------------------------------------
(* What an earlier command has still to say, of those that end with a      *)
(* marker, or without an echo to tell them from this one.                  *)
Saying == wire # <<>> \/ moving # <<>> \/ rest # <<>> \/ typed # <<>>
Late == Saying /\ (~echo \/ \E k \in Runs: result[k].how \notin {"none", "done"})

(* `run`: the input is drained and the command sent.                       *)
KeepsInput == UNCHANGED ready     \* Mutant: nothing is drained.
Drain == ready' = <<>>

Run ==
    /\ at = "idle" /\ run < Max(Runs)
    /\ Drain
    /\ run' = run + 1 /\ at' = "send"
    /\ late' = IF Late THEN late \cup {run + 1} ELSE late
    /\ UNCHANGED <<fixed, device, wire, moving, ended, reading, result>>

Send ==
    /\ at = "send"
    /\ Writes(Text(run))
    /\ at' = "marker" /\ buffer' = <<>> /\ floor' = 0 /\ pages' = 0
    /\ UNCHANGED <<fixed, phase, rest, waits, stream, run, result, late>>

Ends(how, body, status) ==
    /\ at' = "idle" /\ buffer' = <<>> /\ floor' = 0 /\ pages' = 0
    /\ result' = [result EXCEPT ![run] = [how |-> how, body |-> body, status |-> status]]

(* `_read_until`: a page first, then the match, the limit, the deadline    *)
(* and the next read.  Where it looks from.                                *)
Looking == at \in {"marker", "prompt"}
From == IF at = "marker" THEN Window(buffer, run, floor) ELSE floor
Page == Looking /\ Found(buffer, "-", From) # {}
Match ==
    CASE at = "marker" -> Markers(buffer, From) # {}
      [] at = "prompt" -> Found(buffer, "P", From) # {}
      [] OTHER -> Found(buffer, Expected, 0) # {}

DropsPage(i) == Slice(buffer, i + 1, Len(buffer))     \* Mutant: the page goes with its prompt.
WithoutPrompt(i) == Slice(buffer, 0, i) \o Slice(buffer, i + 1, Len(buffer))

Continue ==
    /\ Page
    /\ IF pages >= MaxPages THEN Ends("protocol", <<>>, <<>>) /\ UNCHANGED waits
       ELSE /\ pages' = pages + 1 /\ waits' = FALSE
            /\ buffer' = WithoutPrompt(Min(Found(buffer, "-", From)))
            /\ UNCHANGED <<at, result, floor>>
    /\ UNCHANGED <<fixed, phase, typed, rest, stream, run, late>>

FirstMarker(s) == Min(Markers(s, Window(s, run, 0)))    \* Mutant: the first decides.
LastMarker(s) == Max(Markers(s, Window(s, run, 0)))

MarkerFound ==
    /\ at = "marker" /\ ~Page /\ Match
    /\ at' = "prompt" /\ pages' = 0
    /\ floor' = MarkerEnd(buffer, LastMarker(buffer))
    /\ UNCHANGED <<fixed, device, stream, run, buffer, result, late>>

LStrip(s) == LET kept == {i \in DOMAIN s: s[i] # "n"}
             IN  IF kept = {} THEN <<>> ELSE SubSeq(s, Min(kept), Len(s))

(* The output: between the echo, which may have come late, and the last    *)
(* marker, which may have come before it.                                  *)
Return ==
    /\ at = "prompt" /\ ~Page /\ Match
    /\ IF Markers(buffer, Window(buffer, run, 0)) = {} THEN Ends("protocol", <<>>, <<>>)
       ELSE LET m == LastMarker(buffer)
                body == Slice(buffer, Window(buffer, run, 0), m)
                own == IF echo /\ body # <<>> /\ Head(body) = Text(run) THEN Tail(body) ELSE body
            IN  Ends("done", LStrip(own), Slice(buffer, m + 1, MarkerEnd(buffer, m)))
    /\ UNCHANGED <<fixed, device, stream, run, late>>

Overflow ==
    /\ Looking /\ ~Page /\ ~Match /\ Len(buffer) > MaxBuffer
    /\ Ends("protocol", <<>>, <<>>)
    /\ UNCHANGED <<fixed, device, stream, run, late>>

(* The deadline of a run, or of a login step: the latter ends the session. *)
Expire ==
    /\ at \notin {"idle", "wakeup", "send", "failed"} /\ ~Page /\ ~Match
    /\ IF Looking
       THEN Ends(IF Found(buffer, "L", 0) \cup Found(buffer, "W", 0) # {}
                 THEN "login again" ELSE "expired", <<>>, <<>>)
       ELSE at' = "failed" /\ UNCHANGED <<reading, result>>
    /\ UNCHANGED <<fixed, device, stream, run, late>>

Read ==
    /\ at \notin {"idle", "wakeup", "send", "failed"} /\ ~Page /\ ~Match
    /\ Len(buffer) <= MaxBuffer
    /\ \/ /\ ready # <<>>
          /\ buffer' = buffer \o ready /\ ready' = <<>>
          /\ UNCHANGED <<at, result, floor, pages>>
       \/ /\ ready = <<>> /\ ended
          /\ IF Looking THEN Ends("lost", <<>>, <<>>) ELSE at' = "failed" /\ UNCHANGED <<reading, result>>
          /\ UNCHANGED ready
    /\ UNCHANGED <<fixed, device, wire, moving, ended, run, late>>

Next ==
    \/ (\E n \in 1 .. Len(rest): Prints(n)) \/ ReadLine \/ Logout \/ Drop \/ PumpTakes \/ PumpAdds \/ PumpEnds
    \/ Wakeup \/ Login \/ Negotiated \/ Run \/ Send
    \/ Continue \/ MarkerFound \/ Return \/ Overflow \/ Expire \/ Read

Spec == Init /\ [][Next]_vars

-----------------------------------------------------------------------------
TypeOK ==
    /\ phase \in {"user", "password", "shell", "gone"} /\ run \in 0 .. Max(Runs)
    /\ at \in {"wakeup", "login", "secret", "first", "idle", "send", "marker", "prompt", "failed"}
    /\ pages \in 0 .. MaxPages /\ floor \in 0 .. Len(buffer)
    /\ pumped \/ (wire = <<>> /\ moving = <<>>)

(* Output with the shape of a marker and then of a prompt ends the command *)
(* that prints it, if it is read before what follows.                      *)
Forges(s) == \E i \in Markers(s, 0): Found(s, "P", i) # {}

Output(k) == LStrip(SelectSeq(reply[k].text, LAMBDA c: c # "-"))

(* A run that returns gives its own command's output, every page of it,    *)
(* and its own status, whole, however the stream was cut and whatever a    *)
(* run before it left unread -- unless a command of a run that had given   *)
(* up went on printing after the drain, or its own output forges an end.   *)
OwnReply ==
    \A k \in Runs: result[k].how = "done" =>
        \/ result[k].body = Output(k) /\ result[k].status = reply[k].status
        \/ k \in late \/ Forges(reply[k].text)

(* The end of the stream is told after everything that came before it.     *)
NothingLost ==
    /\ ended => wire = <<>> /\ moving = <<>>
    /\ at = "idle" /\ run > 0 /\ result[run].how = "lost" => ended /\ ready = <<>>

(* Runs are told apart on a stream that does not tell them apart.          *)
RepliesOwn == TypeOK /\ OwnReply /\ NothingLost
=============================================================================
