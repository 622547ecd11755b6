------------------------------ MODULE MCConsole ------------------------------
(***************************************************************************)
(* The console executor, and what it is made of: the executor that two     *)
(* threads share, of two calls each (ConsoleExecutor), the parser that     *)
(* cuts a command's output from the bytes (ConsoleFrame), the typing of    *)
(* the command (TypedCommand), the prompt profile of a device              *)
(* (PromptConsole), and the call that collects the output (ExecutorCall).  *)
(* A behaviour is one of any of them: its part says which.                 *)
(***************************************************************************)
EXTENDS ConsoleExecutor, Sequences, SequencesExt

CONSTANTS t1, t2

Two == {t1, t2}
Plain == {"failed"}
Refusing == {"not started", "failed"}

VARIABLES part,
          sent, fed, frame,                                              \* ConsoleFrame
          lines, batch, groups, deadline, number, piece, left, taken,    \* TypedCommand
          dropped, consumed, out,
          echo, pumped, reply, phase, typed, rest, waits, wire, moving,  \* PromptConsole
          ready, ended, run, floor, pages, result, late,
          call, output, target, received, captured, files, held, read, stops,    \* ExecutorCall
          at, buffer        \* of more than one of them

frames == <<sent, fed, frame>>
typing == <<lines, batch, groups, deadline, number, piece, left, taken, dropped, consumed, out>>
prompts == <<echo, pumped, reply, phase, typed, rest, waits, wire, moving, ready, ended, run,
             floor, pages, result, late>>
collects == <<call, output, target, received, captured, files, held, read, stops>>
all == <<part, vars, frames, typing, prompts, collects, at, buffer>>

(* Markers of three bytes that share their beginning, in output made of    *)
(* the bytes they begin with; they are cut everywhere.                     *)
F == INSTANCE ConsoleFrame WITH
    StartMark <- <<"_", "_", "S">>,
    MidMark <- <<"_", "_", "O">>,
    EndPrefix <- <<"_", "_", "E">>,
    EndSuffix <- <<"_", "N">>,
    Digits <- {"0", "1"},
    Noises <- {<<>>, <<"_">>, <<"x", "_", "_">>, <<"_", "_", "_", "x">>},
    Outs <- BoundedSeq({"_", "O", "x"}, 2)
                \cup {<<"_", "_", "_", "_", "_", "_", "_", "_">>, <<"x", "_", "_", "x", "O", "x", "x", "x">>},
    Errs <- BoundedSeq({"_", "E", "0"}, 2)
                \cup {<<"_", "_", "_", "_", "_", "_", "_", "_">>, <<"E", "_", "_", "0", "E", "0", "0", "0">>},
    Statuses <- {<<"0">>, <<"1", "0">>},
    Tails <- {<<>>, <<"_">>},
    MaxChunk <- 3,
    Keep <- 3

(* Batches of one write and of two, and none; a queue that holds a batch,  *)
(* and as little room for the echo as a write needs.                       *)
T == INSTANCE TypedCommand WITH
    Scripts <- {<<1>>, <<1, 2>>, <<2, 2, 1, 2>>, <<3, 1, 2, 2>>, <<1, 1, 1, 1, 3>>, <<3, 3, 3>>},
    Batches <- {0, 4, 6}, AckRoom <- 1, Write <- 4, Queue <- 6, Room <- 4,
    Faults <- {"connection", "refused", "other"}

(* Replies with pages, with what looks like a marker, a prompt or a login  *)
(* in them, with a status of two digits, and one too long.                 *)
Answers(text, status) == [text |-> text, status |-> status]
Short == Answers(<<"x">>, <<"0">>)
Paged == Answers(<<"n", "x", "-", "x">>, <<"1", "0">>)

P == INSTANCE PromptConsole WITH
    Banners <- {<<>>, <<"x", "P">>},
    Scripts <- {<<Paged, Short>>}
        \cup {<<Short, Answers(t, <<"1", "0">>)>>:
                  t \in {<<"x", "P", "x">>, <<"m", "1", "x">>, <<"m", "1", "P">>,
                         <<"-", "-", "L">>, <<"x", "x", "x", "x", "x", "x">>}},
    MaxPages <- 1, MaxBuffer <- 8

(* Output with characters cut in two, within a stream and across both, and *)
(* with bytes that are none; every target, and what a call may be refused  *)
(* for.                                                                    *)
Piece(o, e) == [stdout |-> o, stderr |-> e]
E == INSTANCE ExecutorCall WITH
    Outputs <- {<<Piece(<<"h">>, <<"c">>), Piece(<<"t">>, <<"h">>), Piece(<<"c">>, <<"t">>)>>,
                <<Piece(<<"c">>, <<>>), Piece(<<"h">>, <<>>)>>,
                <<Piece(<<"x">>, <<"c">>)>>,
                <<Piece(<<>>, <<"h">>), Piece(<<"t">>, <<"x">>)>>},
    Calls <- [streaming: BOOLEAN, timed: {TRUE}, mode: {"bytes", "strict", "replace"},
              capture: {"True", "False", "stdout", "stderr"},
              stdout: {"None", "PIPE", "DEVNULL", "binary", "text"},
              stderr: {"None", "PIPE", "STDOUT", "DEVNULL", "binary", "text"},
              undeclared: {"nothing"}, input: {"none"}]
        \cup [streaming: BOOLEAN, timed: {FALSE}, mode: {"bytes"}, capture: {"True"},
               stdout: {"None"}, stderr: {"None"},
               undeclared: {"nothing", "option", "args", "cwd", "env", "input", "timeout"},
               input: {"none", "input", "stdin", "both", "PIPE"}]

ASSUME /\ ExecutorAssumption /\ F!FrameAssumption /\ T!TypingAssumption
       /\ P!ProfileAssumption /\ E!CallAssumption

(* A part that is not the behaviour's own stays as it is. *)
NoFrame == sent = 0 /\ fed = 0 /\ frame = 0
NoTyping ==
    /\ lines = 0 /\ batch = 0 /\ groups = 0 /\ deadline = 0 /\ number = 0 /\ piece = 0
    /\ left = 0 /\ taken = 0 /\ dropped = 0 /\ consumed = 0 /\ out = 0
NoPrompt ==
    /\ echo = 0 /\ pumped = 0 /\ reply = 0 /\ phase = 0 /\ typed = 0 /\ rest = 0 /\ waits = 0
    /\ wire = 0 /\ moving = 0 /\ ready = 0 /\ ended = 0 /\ run = 0 /\ floor = 0 /\ pages = 0
    /\ result = 0 /\ late = 0
NoCall ==
    /\ call = 0 /\ output = 0 /\ target = 0 /\ received = 0 /\ captured = 0 /\ files = 0
    /\ held = 0 /\ read = 0 /\ stops = 0
NoExecutor == Init /\ ~drops

RunInit ==
    \/ part = "executor" /\ Init /\ NoFrame /\ NoTyping /\ NoPrompt /\ NoCall /\ at = 0 /\ buffer = 0
    \/ part = "frame" /\ NoExecutor /\ F!Init /\ NoTyping /\ NoPrompt /\ NoCall /\ at = 0 /\ buffer = 0
    \/ part = "typing" /\ NoExecutor /\ NoFrame /\ T!Init /\ NoPrompt /\ NoCall
    \/ part = "prompt" /\ NoExecutor /\ NoFrame /\ NoTyping /\ P!Init /\ NoCall
    \/ part = "call" /\ NoExecutor /\ NoFrame /\ NoTyping /\ NoPrompt /\ E!Init /\ buffer = 0

RunNext ==
    /\ UNCHANGED part
    /\ \/ part = "executor" /\ Next /\ UNCHANGED <<frames, typing, prompts, collects, at, buffer>>
       \/ part = "frame" /\ F!Next /\ UNCHANGED <<vars, typing, prompts, collects, at, buffer>>
       \/ part = "typing" /\ T!Next /\ UNCHANGED <<vars, frames, prompts, collects>>
       \/ part = "prompt" /\ P!Next /\ UNCHANGED <<vars, frames, typing, collects>>
       \/ part = "call" /\ E!Next /\ UNCHANGED <<vars, frames, typing, prompts, buffer>>

Typing(A) == part = "typing" /\ A /\ UNCHANGED <<part, vars, frames, prompts, collects>>
RunFairness ==
    /\ \A t \in Threads:
           WF_all(/\ part = "executor" /\ Step(t)
                  /\ UNCHANGED <<part, frames, typing, prompts, collects, at, buffer>>)
    /\ WF_all(Typing(T!Profile)) /\ WF_all(Typing(T!Take)) /\ WF_all(Typing(T!ReadLine))

Run == RunInit /\ [][RunNext]_all /\ RunFairness

(* A run gives its own command's output and status: however the stream is  *)
(* cut, the parser emits all of the output, no later than it can, and keeps*)
(* no more of the stream than a marker is long (ConsoleFrame); and so does *)
(* a device's console that tells nothing apart (PromptConsole).            *)
OwnOutput ==
    /\ part = "frame" => F!TypeOK /\ F!OwnOutput /\ F!Complete /\ F!Prompt /\ F!Bounded
    /\ part = "prompt" => P!RepliesOwn

(* What is typed for a command arrives, whole and in order, and what is    *)
(* declined was not run (TypedCommand).                                    *)
TypedWhole == part = "typing" => T!TypedWhole

(* Output goes where the call asked for, all of it, and a call ends as its *)
(* command did (ExecutorCall).                                             *)
Delivered == part = "call" => E!Delivered

(* A call made with a timeout ends, if its command does not                *)
(* (ConsoleExecutor), and so does the typing of a command (TypedCommand).  *)
ConsoleEnds == TimedCallEnds /\ (part = "typing" ~> (part = "typing" /\ at \in T!Over))
=============================================================================
