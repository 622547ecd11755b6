---------------------------- MODULE ConsoleFrame ----------------------------
(***************************************************************************)
(* `_Frame` (console/_posix.py): how one command's output is cut out of a  *)
(* console's byte stream, which arrives in pieces of any size.             *)
(*                                                                         *)
(* The stream is noise (echo, prompts), the start marker, what the command *)
(* wrote to stdout, the middle marker, what it wrote to stderr, and the    *)
(* end marker around its status.  A marker carries a random token, so it   *)
(* stands nowhere else; but what it begins with may, and a piece may end   *)
(* inside one.                                                             *)
(***************************************************************************)
EXTENDS Integers, Sequences, SequencesExt, FiniteSetsExt

CONSTANTS StartMark, MidMark, EndPrefix, EndSuffix,    \* the markers
          Digits,                                      \* what a status is of
          Noises, Outs, Errs, Statuses, Tails,         \* what a stream is of
          MaxChunk,      \* bound: bytes one read returns
          Keep           \* `_KEEP`

(* What is taken for granted of the constants. *)
FrameAssumption ==
    /\ MaxChunk \in Nat \ {0} /\ Keep \in Nat
    /\ \A s \in Statuses: s # <<>> /\ ToSet(s) \subseteq Digits
    /\ StartMark # <<>> /\ MidMark # <<>>
    /\ EndSuffix # <<>> /\ EndSuffix[1] \notin Digits

VARIABLES sent,     \* what the console sends for the command, in its parts
          fed,      \* how much of it has been read
          frame     \* the parser

vars == <<sent, fed, frame>>

-----------------------------------------------------------------------------
(* Python's text searching; a position is how many bytes come before it. *)
Hits(s, mark, from) ==
    {i \in from .. Len(s) - Len(mark): SubSeq(s, i + 1, i + Len(mark)) = mark}

Slice(s, from, to) == SubSeq(s, from + 1, to)

(* The longest suffix of s after `from` that begins the mark. *)
PartialNone(s, mark, from) == 0    \* Mutant: a split marker is not looked for.

Partial(s, mark, from) ==
    Max({0} \cup {n \in 1 .. Min({Len(mark) - 1, Len(s) - from}):
                     IsSuffix(SubSeq(mark, 1, n), s)})

(* The end marker at i, around n digits: the regular expression's match. *)
EndsAt(s, i, n) ==
    LET digits == i + Len(EndPrefix)
        suffix == digits + n
    IN  /\ i \in Hits(s, EndPrefix, i)
        /\ suffix + Len(EndSuffix) <= Len(s)
        /\ ToSet(Slice(s, digits, suffix)) \subseteq Digits
        /\ Slice(s, suffix, suffix + Len(EndSuffix)) = EndSuffix

-----------------------------------------------------------------------------
NewFrame == [state |-> "wait", buffer |-> <<>>, pos |-> 0, scan |-> 0,
             out |-> <<>>, err |-> <<>>, returncode |-> <<>>]

(* Before the frame only what could begin the start marker is kept. *)
FindStart(f) ==
    LET hits == Hits(f.buffer, StartMark, f.scan)
        keep == Min({Len(f.buffer), Len(StartMark) - 1})
    IN  IF f.state # "wait" THEN f
        ELSE IF hits = {}
        THEN [f EXCEPT !.buffer = Slice(@, Len(@) - keep, Len(@)), !.scan = 0]
        ELSE [f EXCEPT !.state = "out", !.pos = Min(hits) + Len(StartMark),
                       !.scan = Min(hits) + Len(StartMark)]

(* stdout, up to the middle marker or what may be the beginning of it. *)
FindMidWhole(f) ==    \* Mutant: nothing is emitted before the marker is found.
    LET hits == Hits(f.buffer, MidMark, f.scan)
    IN  IF f.state # "out" \/ hits = {} THEN f
        ELSE [f EXCEPT !.out = @ \o Slice(f.buffer, f.pos, Min(hits)),
                       !.state = "err", !.pos = Min(hits) + Len(MidMark),
                       !.scan = Min(hits) + Len(MidMark)]

FindMid(f) ==
    LET hits == Hits(f.buffer, MidMark, f.scan)
        safe == Len(f.buffer) - Partial(f.buffer, MidMark, f.pos)
    IN  IF f.state # "out" THEN f
        ELSE IF hits = {}
        THEN [f EXCEPT !.out = @ \o Slice(f.buffer, f.pos, safe),
                       !.pos = safe, !.scan = safe]
        ELSE [f EXCEPT !.out = @ \o Slice(f.buffer, f.pos, Min(hits)),
                       !.state = "err", !.pos = Min(hits) + Len(MidMark),
                       !.scan = Min(hits) + Len(MidMark)]

(* stderr likewise; an end marker whose status has not all arrived is held *)
(* back from its first byte.                                               *)
FindEndUnheld(f) ==    \* Mutant: only a marker's beginning is held back.
    LET ends == {i \in f.scan .. Len(f.buffer): \E n \in 1 .. Len(f.buffer): EndsAt(f.buffer, i, n)}
        safe == Len(f.buffer) - Partial(f.buffer, EndPrefix, f.pos)
    IN  IF f.state # "err" THEN f
        ELSE IF ends = {}
        THEN [f EXCEPT !.err = @ \o Slice(f.buffer, f.pos, safe),
                       !.pos = safe, !.scan = safe]
        ELSE LET first == Min(ends)
                 n == CHOOSE n \in 1 .. Len(f.buffer): EndsAt(f.buffer, first, n)
                 digits == first + Len(EndPrefix)
             IN  [f EXCEPT !.err = @ \o Slice(f.buffer, f.pos, first),
                           !.returncode = Slice(f.buffer, digits, digits + n),
                           !.state = "done"]

FindEnd(f) ==
    LET ends == {i \in f.scan .. Len(f.buffer): \E n \in 1 .. Len(f.buffer): EndsAt(f.buffer, i, n)}
        tails == Hits(f.buffer, EndPrefix, f.pos)
        safe == IF tails # {} THEN Max(tails)
                ELSE Len(f.buffer) - Partial(f.buffer, EndPrefix, f.pos)
    IN  IF f.state # "err" THEN f
        ELSE IF ends = {}
        THEN [f EXCEPT !.err = @ \o Slice(f.buffer, f.pos, safe),
                       !.pos = safe, !.scan = safe]
        ELSE LET first == Min(ends)
                 n == CHOOSE n \in 1 .. Len(f.buffer): EndsAt(f.buffer, first, n)
                 digits == first + Len(EndPrefix)
             IN  [f EXCEPT !.err = @ \o Slice(f.buffer, f.pos, first),
                           !.returncode = Slice(f.buffer, digits, digits + n),
                           !.state = "done"]

TrimNever(f) == f    \* Mutant: the buffer grows with the output.

(* Mutant: the position searched from is not moved with the buffer. *)
TrimUnscanned(f) ==
    IF f.pos > Keep
    THEN [f EXCEPT !.buffer = Slice(@, f.pos, Len(@)), !.pos = 0]
    ELSE f

Trim(f) ==
    IF f.pos > Keep
    THEN [f EXCEPT !.buffer = Slice(@, f.pos, Len(@)), !.scan = @ - f.pos, !.pos = 0]
    ELSE f

(* The states follow each other, so one pass over them is the loop. *)
Fed(f, data) == Trim(FindEnd(FindMid(FindStart([f EXCEPT !.buffer = @ \o data]))))

-----------------------------------------------------------------------------
EndMark(status) == EndPrefix \o status \o EndSuffix

Stream(s) == s.noise \o StartMark \o s.out \o MidMark \o s.err \o EndMark(s.status) \o s.tail

(* No part but the marker itself makes a marker: its token is random. *)
Unambiguous(s) ==
    /\ Hits(s.noise \o StartMark, StartMark, 0) = {Len(s.noise)}
    /\ Hits(s.out \o MidMark, MidMark, 0) = {Len(s.out)}
    /\ Hits(s.err \o EndPrefix, EndPrefix, 0) = {Len(s.err)}

Init ==
    /\ sent \in {s \in [noise: Noises, out: Outs, err: Errs, status: Statuses, tail: Tails]:
                    Unambiguous(s)}
    /\ fed = 0
    /\ frame = NewFrame

(* One read of the console: `feed(chunk)`.  `execute` reads until the      *)
(* frame is done; a session reads on.                                      *)
Feed(n) ==
    /\ fed + n <= Len(Stream(sent))
    /\ frame' = Fed(frame, Slice(Stream(sent), fed, fed + n))
    /\ fed' = fed + n
    /\ UNCHANGED sent

Next == \E n \in 1 .. MaxChunk: Feed(n)

Spec == Init /\ [][Next]_vars

-----------------------------------------------------------------------------
TypeOK ==
    /\ fed \in 0 .. Len(Stream(sent))
    /\ frame.state \in {"wait", "out", "err", "done"}
    /\ 0 <= frame.scan
    /\ frame.pos <= frame.scan /\ frame.scan <= Len(frame.buffer)

(* However the stream was cut into pieces, what is emitted is the          *)
(* command's own output in order: never echo, a byte of a marker, stderr   *)
(* as stdout, or a byte twice.                                             *)
OwnOutput == IsPrefix(frame.out, sent.out) /\ IsPrefix(frame.err, sent.err)

(* Where the parts of the stream end. *)
OutFrom == Len(sent.noise) + Len(StartMark)
ErrFrom == OutFrom + Len(sent.out) + Len(MidMark)
EndFrom == ErrFrom + Len(sent.err)
DoneAt == EndFrom + Len(EndMark(sent.status))

(* The frame is done exactly when the last byte of the end marker has been *)
(* read, and then has every byte and the status.                           *)
Complete ==
    /\ frame.state = "done" <=> fed >= DoneAt
    /\ frame.state = "done" => /\ frame.out = sent.out /\ frame.err = sent.err
                               /\ frame.returncode = sent.status

(* Output is emitted as it arrives: no more of it is held back than could  *)
(* be the beginning of the next marker ("bytes now safe to emit").         *)
Prompt ==
    /\ Len(frame.out) >= Min({fed - OutFrom - (Len(MidMark) - 1), Len(sent.out)})
    /\ Len(frame.err) >= Min({fed - ErrFrom - (Len(EndPrefix) - 1), Len(sent.err)})

(* What is kept of the stream is bounded while the frame is open, however  *)
(* much noise or output there is.                                          *)
Bounded ==
    frame.state # "done" =>
        Len(frame.buffer) <= Keep + Max({Len(StartMark), Len(MidMark),
                                         Len(EndMark(sent.status))}) + MaxChunk
=============================================================================
