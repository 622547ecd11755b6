---------------------------- MODULE ExecutorCall ----------------------------
(***************************************************************************)
(* One call of a `BufferedExecutor` or of a `StreamingExecutor`            *)
(* (executor.py): what is refused before the caller's input is read, where *)
(* the output goes as it arrives in pieces, and how the call ends.         *)
(*                                                                         *)
(* A byte is "c" (a character of its own), "h" and "t" (the halves of one  *)
(* of two bytes) or "x" (of none); in text, "?" stands for what could not  *)
(* be decoded.  A target is "wrapper" (a text stream over bytes, such as   *)
(* sys.stdout), "text" (one that has no bytes) or "binary".                *)
(***************************************************************************)
EXTENDS Integers, Sequences, SequencesExt

CONSTANTS Calls,       \* the calls: see CallAssumption
          Outputs      \* what commands output: sequences of pieces

Streams == {"stdout", "stderr"}
Targets == {"None", "PIPE", "DEVNULL", "binary", "text"}

(* What is taken for granted of the constants. *)
CallAssumption ==
    /\ \A c \in Calls:
           /\ {c.streaming, c.timed} \subseteq BOOLEAN
           /\ c.mode \in {"bytes", "strict", "replace"}     \* text, errors
           /\ c.capture \in {"True", "False"} \cup Streams
           /\ c.stdout \in Targets /\ c.stderr \in Targets \cup {"STDOUT"}
           /\ c.undeclared \in {"nothing", "option", "args", "cwd", "env", "input", "timeout"}
           /\ c.input \in {"none", "input", "stdin", "both", "PIPE"}
    /\ \A o \in Outputs: \A i \in DOMAIN o: o[i].stdout \o o[i].stderr \in Seq({"c", "h", "t", "x"})

VARIABLES call,       \* the call
          output,     \* what its command outputs
          at,         \* where the call is, or how it ended
          target,     \* the target of each stream, once resolved
          received,   \* how many pieces arrived
          captured,   \* what was collected for each stream, and at the end returned
          files,      \* what each target's file holds
          held,       \* whether a sink's decoder holds half a character
          read,       \* whether the caller's standard input was read
          stops       \* how often `_abandon` was called

vars == <<call, output, at, target, received, captured, files, held, read, stops>>
fixed == <<call, output>>

-----------------------------------------------------------------------------
(* Decoding: the text, whether a half is held, and whether it was bad.     *)
Decoding(half, bytes) ==
    FoldLeft(LAMBDA d, b:
        LET torn == IF d.half /\ b # "t" THEN <<"?">> ELSE <<>>
        IN  [text |-> d.text \o torn
                        \o (IF b = "c" THEN <<"c">> ELSE IF b = "h" THEN <<>>
                            ELSE IF b = "t" /\ d.half THEN <<"h", "t">> ELSE <<"?">>),
             half |-> b = "h",
             bad |-> d.bad \/ torn # <<>> \/ b = "x" \/ (b = "t" /\ ~d.half)],
        [text |-> <<>>, half |-> half, bad |-> FALSE], bytes)

(* The same at the end of the input, where a half is bad. *)
Decoded(half, bytes) ==
    LET d == Decoding(half, bytes)
    IN  IF d.half THEN [text |-> d.text \o <<"?">>, half |-> FALSE, bad |-> TRUE] ELSE d

(* `_in_mode`. *)
Lenient(bytes) == Decoded(FALSE, bytes).text
InMode(mode, bytes) == IF mode = "bytes" THEN bytes ELSE Lenient(bytes)
Undecodable(mode, bytes) == mode = "strict" /\ Decoded(FALSE, bytes).bad

(* `write_output`: bytes for a text stream go to its buffer, behind what   *)
(* the caller has written to it, or are decoded when it has none.          *)
OvertakesPending(file, kind, value, isText) ==    \* Mutant: the wrapper is not flushed first.
    IF kind = "text" /\ ~isText THEN file \o Lenient(value)
    ELSE IF kind = "wrapper" /\ ~isText /\ file = <<"pending">> THEN value \o file ELSE file \o value
WriteOutput(file, kind, value, isText) ==
    IF kind = "text" /\ ~isText THEN file \o Lenient(value) ELSE file \o value

(* `capture_streams`, which refuses a target for a stream that is captured. *)
Captures(c, s) ==
    \/ c.capture = s
    \/ c.capture = "True" /\ c[s] = "None"
Conflict(c) == c.capture \in Streams /\ c[c.capture] \notin {"None", "PIPE"}
TargetOf(c) == [s \in Streams |-> IF Captures(c, s) THEN "PIPE"
                                  ELSE IF c[s] = "None" THEN "wrapper" ELSE c[s]]

-----------------------------------------------------------------------------
Init ==
    /\ call \in Calls /\ output \in Outputs
    /\ at = "asked" /\ target = [s \in Streams |-> "None"]
    /\ received = 0 /\ captured = [s \in Streams |-> <<>>]
    /\ files = [s \in Streams |-> <<"pending">>]
    /\ held = [s \in Streams |-> FALSE]
    /\ read = FALSE /\ stops = 0

(* `__call__`, up to the dispatch.                                         *)
ReadsFirst ==     \* Mutant: the input is read before the call is looked at.
    /\ at = "asked"
    /\ read' = (call.input = "stdin")
    /\ target' = TargetOf(call)
    /\ at' = IF call.undeclared # "nothing" \/ call.input \in {"both", "PIPE"} \/ Conflict(call)
             THEN "refused" ELSE "sending"
    /\ UNCHANGED <<fixed, received, captured, files, held, stops>>
Ask ==
    /\ at = "asked"
    /\ IF call.undeclared # "nothing" \/ call.input \in {"both", "PIPE"} \/ Conflict(call)
       THEN at' = "refused" /\ UNCHANGED <<target, read>>
       ELSE at' = "sending" /\ target' = TargetOf(call) /\ read' = (call.input = "stdin")
    /\ UNCHANGED <<fixed, received, captured, files, held, stops>>

-----------------------------------------------------------------------------
Merges == target["stderr"] = "STDOUT"
Text == call.mode # "bytes"

(* A piece as the call takes it. *)
Piece(i) ==
    IF Merges THEN [stdout |-> output[i].stdout \o output[i].stderr, stderr |-> <<>>]
    ELSE output[i]
Whole(s, n) == FlattenSeq([i \in 1 .. n |-> Piece(i)[s]])

(* `BufferedExecutor._dispatch_request`: the streams come whole; merged,   *)
(* one after the other.                                                    *)
Stream(s) == FlattenSeq([i \in DOMAIN output |-> output[i][s]])
Bad(s) == Undecodable(call.mode, Stream(s))
Value(s) ==
    LET own == InMode(call.mode, Stream(s))
    IN  IF ~Merges THEN own
        ELSE IF s = "stdout" THEN own \o InMode(call.mode, Stream("stderr")) ELSE <<>>

DispatchOutput ==
    /\ captured' = [s \in Streams |-> IF target[s] = "PIPE" THEN Value(s) ELSE <<>>]
    /\ files' = [s \in Streams |-> IF target[s] \in {"PIPE", "DEVNULL", "STDOUT"} THEN files[s]
                                   ELSE WriteOutput(files[s], target[s], Value(s), Text)]

(* What the exchange raises goes on as it is: the transport alone can tell *)
(* whether anything was sent.                                              *)
Exchange ==
    /\ ~call.streaming /\ at = "sending"
    /\ IF \E s \in Streams: Bad(s)
       THEN at' = "failed" /\ UNCHANGED <<captured, files>>
       ELSE at' = "returned" /\ DispatchOutput
    /\ received' = Len(output)
    /\ UNCHANGED <<fixed, target, held, read, stops>>

ExchangeFails(how) ==
    /\ ~call.streaming /\ at = "sending"
    /\ how = "expired" => call.timed
    /\ at' = how
    /\ UNCHANGED <<fixed, target, received, captured, files, held, read, stops>>

-----------------------------------------------------------------------------
(* `StreamingExecutor._dispatch_request`.                                  *)
Send ==
    /\ call.streaming /\ at = "sending"
    /\ at' = "receiving"
    /\ UNCHANGED <<fixed, target, received, captured, files, held, read, stops>>

Stop == stops' = stops + 1

(* A refusal of `_send` is a decline; anything else may have sent some.    *)
SendFails(how) ==
    /\ call.streaming /\ at = "sending"
    /\ how = "expired" => call.timed
    /\ at' = how
    /\ IF how = "declined" THEN UNCHANGED stops ELSE Stop
    /\ UNCHANGED <<fixed, target, received, captured, files, held, read>>

(* What a sink writes of a piece, and whether its decoder then holds half. *)
SinkPerPiece(s, bytes, final) ==     \* Mutant: each piece is decoded by itself.
    IF ~Text \/ target[s] = "DEVNULL" THEN [text |-> bytes, half |-> FALSE, bad |-> FALSE]
    ELSE Decoded(FALSE, bytes)
Sink(s, bytes, final) ==
    IF ~Text \/ target[s] = "DEVNULL" THEN [text |-> bytes, half |-> FALSE, bad |-> FALSE]
    ELSE IF final THEN Decoded(held[s], bytes) ELSE Decoding(held[s], bytes)

Fails(s, bytes, final) == call.mode = "strict" /\ Sink(s, bytes, final).bad

Sinks == {s \in Streams: target[s] \notin {"PIPE", "STDOUT"}}

Written(s, bytes, final) ==
    IF s \notin Sinks \/ target[s] = "DEVNULL" THEN files[s]
    ELSE WriteOutput(files[s], target[s], Sink(s, bytes, final).text, Text)

(* `_receive`: the next piece is collected or written, stdout first.  A    *)
(* sink may raise.                                                         *)
Receive ==
    /\ at = "receiving" /\ received < Len(output)
    /\ received' = received + 1
    /\ LET piece == Piece(received + 1)
           failed == {s \in Sinks: Fails(s, piece[s], FALSE)}
       IN  /\ captured' = [s \in Streams |->
                  IF target[s] = "PIPE" /\ (s = "stdout" \/ "stdout" \notin failed)
                  THEN captured[s] \o piece[s] ELSE captured[s]]
           /\ files' = [s \in Streams |-> IF s \in failed \/ "stdout" \in failed THEN files[s]
                                          ELSE Written(s, piece[s], FALSE)]
           /\ held' = [s \in Streams |-> s \in Sinks /\ Sink(s, piece[s], FALSE).half]
           /\ IF failed # {} THEN at' = "failed" /\ Stop ELSE UNCHANGED <<at, stops>>
    /\ UNCHANGED <<fixed, target, read>>

(* The stream fails, or says that nothing was sent: by now that is a       *)
(* connection error.                                                       *)
StaysDeclined(how) ==     \* Mutant: a refusal is a decline whenever it comes.
    /\ at = "receiving"
    /\ at' = how /\ Stop
    /\ UNCHANGED <<fixed, target, received, captured, files, held, read>>
ReceiveFails(how) ==
    /\ at = "receiving"
    /\ at' = "failed" /\ Stop
    /\ UNCHANGED <<fixed, target, received, captured, files, held, read>>

(* The timeout carries what was captured; a decoder drops its half.        *)
Expire ==
    /\ at = "receiving" /\ call.timed
    /\ at' = "expired" /\ Stop
    /\ captured' = [s \in Streams |-> InMode(call.mode, captured[s])]
    /\ UNCHANGED <<fixed, target, received, files, held, read>>

(* The status: the sinks are flushed, and what was captured is decoded.    *)
FlushesNot(s) == files[s]     \* Mutant: the end is not told to the decoder.
Flushes(s) == Written(s, <<>>, TRUE)

Finish ==
    /\ at = "receiving" /\ received = Len(output)
    /\ LET bad == {s \in Streams: IF target[s] = "PIPE" THEN Undecodable(call.mode, captured[s])
                                  ELSE s \in Sinks /\ Fails(s, <<>>, TRUE)}
       IN  IF bad # {}
           THEN at' = "failed" /\ UNCHANGED <<captured, files, held>>
           ELSE /\ at' = "returned"
                /\ captured' = [s \in Streams |-> InMode(call.mode, captured[s])]
                /\ files' = [s \in Streams |-> Flushes(s)]
                /\ held' = [s \in Streams |-> FALSE]
    /\ UNCHANGED <<fixed, target, received, read, stops>>

Next ==
    \/ Ask \/ Exchange \/ Send \/ Receive \/ Expire \/ Finish
    \/ \E how \in {"declined", "failed", "expired"}: ExchangeFails(how) \/ SendFails(how)
    \/ \E how \in {"declined", "failed"}: ReceiveFails(how)

Spec == Init /\ [][Next]_vars

-----------------------------------------------------------------------------
TypeOK ==
    /\ at \in {"asked", "refused", "sending", "receiving", "declined", "failed",
               "expired", "returned"}
    /\ received \in 0 .. Len(output) /\ stops \in 0 .. 1
    /\ \A s \in Streams: target[s] \in Targets \cup {"STDOUT", "wrapper"}

(* A text stream without bytes is given bytes piece by piece: what a piece *)
(* cuts there is torn.                                                     *)
Torn(s) == target[s] = "text" /\ ~Text

(* What a stream is worth once n pieces are in, in the call's mode: merged *)
(* where that is asked for, by a transport that has them whole one after   *)
(* the other.                                                              *)
Due(s, n) ==
    IF call.streaming THEN InMode(call.mode, Whole(s, n))
    ELSE IF ~Merges THEN InMode(call.mode, Stream(s))
    ELSE IF s = "stdout" THEN InMode(call.mode, Stream("stdout")) \o InMode(call.mode, Stream("stderr"))
    ELSE <<>>

(* However the output is cut into pieces, what is returned and what its    *)
(* target gets is all of it, once, in its order and behind what the caller *)
(* had written there: as bytes, or as the text of the whole.  A call that  *)
(* expires returns what was captured, a torn character included.           *)
AllDelivered ==
    \A s \in Streams:
        /\ at \in {"returned", "expired"} /\ (at = "expired" => call.streaming) =>
               captured[s] = IF target[s] = "PIPE" THEN Due(s, received) ELSE <<>>
        /\ at = "returned" /\ ~Torn(s) =>
               files[s] = IF target[s] \in {"wrapper", "binary", "text"}
                          THEN <<"pending">> \o Due(s, received)
                          ELSE <<"pending">>

(* A call that is refused has read nothing of the caller's input.  One     *)
(* that is declined has received nothing, so that it may be tried          *)
(* elsewhere; and once a command was sent, a call that does not return its *)
(* status has tried to stop it, once.                                      *)
EndsHonestly ==
    /\ at = "refused" => ~read
    /\ at = "declined" => received = 0 /\ stops = 0
    /\ call.streaming /\ at \in {"failed", "expired"} /\ received < Len(output) => stops = 1
    /\ at = "returned" => stops = 0

(* What a caller is given of its command is true, however the call ends.   *)
Delivered == TypeOK /\ AllDelivered /\ EndsHonestly
=============================================================================
