-------------------------------- MODULE FanOut --------------------------------
(***************************************************************************)
(* `hostctl run` on the hosts its operands name (cli/_fanout.py, run.py,   *)
(* _common.py): `parallel` of them at once, each opened, worked on, closed *)
(* and then reported under one output lock.  They share one password,      *)
(* which is given, or asked for on the terminal the first time a host's    *)
(* connection calls for it, or refused where there is no terminal.  An     *)
(* interrupt is no host's failure.  The pool that runs them, and learns of *)
(* the interrupt, is `duho`'s.                                             *)
(***************************************************************************)
EXTENDS Integers, Sequences, FiniteSets

CONSTANTS Hosts,       \* what the operands name
          Parallel,    \* `--parallel`
          Statuses,    \* what a remote command may exit with
          Failures,    \* what a host may fail with: of ERRORS, and 1 for the rest
          MaxAsks,     \* bound: times a connection calls for the password
          MaxCuts      \* bound: hosts whose work is interrupted

Nobody == 0

(* What is taken for granted of the constants. *)
FanOutAssumption ==
    /\ Hosts \subseteq Nat \ {0} /\ Parallel \in Nat \ {0}
    /\ Statuses \subseteq Int /\ Failures \subseteq {1, 125, 126, 127}
    /\ MaxAsks \in Nat /\ MaxCuts \in Nat

VARIABLES named,       \* the hosts of this run
          source,      \* the password: "given", "terminal" or "none"
          wants,       \* the hosts whose connections call for it
          phase,       \* phase[h]
          code,        \* code[h]: what the host's run came to
          asks,        \* asks[h]: times it has called for the password
          asking,      \* the host that holds the prompt's lock, or Nobody
          asked,       \* `_asked`
          printing,    \* the host that holds the output's lock, or Nobody
          told,        \* told[h]: how many of its records the host has written
          screen,      \* what was written: <<host, what>>
          interrupt,   \* "none", "raised" in a host's work, or "cancelled": known to the pool
          exit         \* the command's own status, in a set: none until it ends

(* History, which no guard reads. *)
VARIABLES prompts,     \* times the user was asked since they last answered
          answers,     \* times they did
          ended,       \* hosts whose command ended
          lost         \* of these, the ones whose close failed

given == <<named, source, wants>>
password == <<asks, asking, asked>>
report == <<printing, told, screen, interrupt, exit>>
history == <<prompts, answers, ended, lost>>
vars == <<given, phase, code, password, report, history>>

Init ==
    /\ named \in SUBSET Hosts \ {{}} /\ wants \in SUBSET named
    /\ source \in {"given", "terminal", "none"}
    /\ phase = [h \in Hosts |-> "waiting"]
    /\ code = [h \in Hosts |-> -1] /\ asks = [h \in Hosts |-> 0]
    /\ asking = Nobody /\ asked = FALSE /\ printing = Nobody
    /\ told = [h \in Hosts |-> 0] /\ screen = <<>> /\ exit = {} /\ interrupt = "none"
    /\ prompts = 0 /\ answers = 0 /\ ended = {} /\ lost = {}

Several == Cardinality(named) > 1
In(h, p) == phase[h] = p
To(h, p) == phase' = [phase EXCEPT ![h] = p]
Running == {h \in named: phase[h] \notin {"waiting", "done", "cut"}}

Begin(h) ==
    /\ In(h, "waiting") /\ Cardinality(Running) < Parallel /\ interrupt # "cancelled"
    /\ To(h, "connect")
    /\ UNCHANGED <<given, code, password, report, history>>

(* A host fails with the status its exception is listed under.             *)
Fails(h, status) ==
    /\ code' = [code EXCEPT ![h] = status]
    /\ To(h, "failed")

-----------------------------------------------------------------------------
(* Connecting, which may call for the password, more than once.            *)
Call(h) ==
    /\ In(h, "connect") /\ h \in wants /\ source # "given" /\ asks[h] < MaxAsks
    /\ asks' = [asks EXCEPT ![h] = @ + 1]
    /\ To(h, "call")
    /\ UNCHANGED <<given, code, asking, asked, report, history>>

(* `no_password`: raised while connecting, so it arrives as the refusal of *)
(* every provider, and is reported as what it is.                          *)
NoTerminal(h) ==
    /\ In(h, "call") /\ source = "none"
    /\ Fails(h, 126)
    /\ UNCHANGED <<given, password, report, history>>

(* `PasswordPrompt`: one thread at a time asks, unless it was answered.    *)
AsksAgain(h) == "prompt"               \* Mutant: whoever gets the lock asks.
AfterLock(h) == IF asked THEN "answered" ELSE "prompt"

Prompt(h) ==
    /\ In(h, "call") /\ source = "terminal" /\ asking = Nobody
    /\ asking' = h
    /\ To(h, AfterLock(h))
    /\ prompts' = prompts + (IF AfterLock(h) = "prompt" THEN 1 ELSE 0)
    /\ UNCHANGED <<given, code, asks, asked, report, answers, ended, lost>>

Answer(h) ==
    /\ In(h, "prompt") /\ asked' = TRUE /\ answers' = answers + 1 /\ prompts' = 0
    /\ To(h, "answered")
    /\ UNCHANGED <<given, code, asks, asking, report, ended, lost>>

(* An end of input is no answer: the host fails, and the next one asks.    *)
NoAnswer(h) ==
    /\ In(h, "prompt") /\ asking' = Nobody /\ prompts' = 0
    /\ Fails(h, 1)
    /\ UNCHANGED <<given, asks, asked, report, answers, ended, lost>>

Answered(h) ==
    /\ In(h, "answered") /\ asking' = Nobody
    /\ To(h, "connect")
    /\ UNCHANGED <<given, code, asks, asked, report, history>>

Connected(h) ==
    /\ In(h, "connect") /\ (h \in wants /\ source # "given" => asks[h] > 0)
    /\ To(h, "work")
    /\ UNCHANGED <<given, code, password, report, history>>

Refused(h) ==
    /\ In(h, "connect") \/ In(h, "work")
    /\ \E status \in Failures: Fails(h, status)
    /\ UNCHANGED <<given, password, report, history>>

Work(h) ==
    /\ In(h, "work")
    /\ \E status \in Statuses: code' = [code EXCEPT ![h] = status]
    /\ ended' = ended \cup {h}
    /\ To(h, "close")
    /\ UNCHANGED <<given, password, report, prompts, answers, lost>>

(* The host is closed before its result is shown: a close that fails takes *)
(* the result with it, and the host fails with whatever that raised.       *)
Close(h) ==
    /\ In(h, "close")
    /\ \/ To(h, "worked") /\ UNCHANGED <<code, lost>>
       \/ (\E status \in Failures: Fails(h, status)) /\ lost' = lost \cup {h}
    /\ UNCHANGED <<given, password, report, prompts, answers, ended>>

-----------------------------------------------------------------------------
(* Its report: the output of a command that ended, and a line for a status *)
(* that is not zero, under one lock.                                       *)
Records(h) ==
    (IF In(h, "worked") THEN <<"stdout", "stderr">> ELSE <<>>)
    \o (IF Several /\ code[h] # 0 THEN <<"status">> ELSE <<>>)
Due(h) == told[h] < Len(Records(h))

NoLock(h) ==           \* Mutant: a report does not wait for another.
    /\ phase[h] \in {"failed", "worked"} /\ printing # h /\ Due(h)
    /\ printing' = h
    /\ UNCHANGED <<given, phase, code, password, told, screen, interrupt, exit, history>>
Take(h) ==
    /\ phase[h] \in {"failed", "worked"} /\ printing = Nobody
    /\ printing' = h
    /\ UNCHANGED <<given, phase, code, password, told, screen, interrupt, exit, history>>

Write(h) ==
    /\ printing = h /\ Due(h)
    /\ screen' = Append(screen, <<h, Records(h)[told[h] + 1]>>)
    /\ told' = [told EXCEPT ![h] = @ + 1]
    /\ UNCHANGED <<given, phase, code, password, printing, interrupt, exit, history>>

Leave(h) ==
    /\ printing = h /\ ~Due(h)
    /\ printing' = Nobody /\ To(h, "done")
    /\ UNCHANGED <<given, code, password, told, screen, interrupt, exit, history>>

-----------------------------------------------------------------------------
(* `KeyboardInterrupt`, which no `except` of a host's catches.  Raised in  *)
(* its work it closes the host and lets go of the locks, with nothing      *)
(* reported; the pool learns of it when it collects that host.  Or the     *)
(* thread that waits for the hosts is the one interrupted.  The hosts      *)
(* still queued are cancelled; the others go on.                           *)
Interrupted(h) ==
    /\ h \in Running /\ Cardinality({g \in named: In(g, "cut")}) < MaxCuts
    /\ To(h, "cut")
    /\ asking' = (IF asking = h THEN Nobody ELSE asking)
    /\ printing' = (IF printing = h THEN Nobody ELSE printing)
    /\ prompts' = (IF In(h, "prompt") THEN 0 ELSE prompts)
    /\ interrupt' = (IF interrupt = "none" THEN "raised" ELSE interrupt)
    /\ UNCHANGED <<given, code, asks, asked, told, screen, exit, answers, ended, lost>>

Cancelled ==
    /\ exit = {} /\ interrupt # "cancelled" /\ (Several \/ interrupt = "raised")
    /\ interrupt' = "cancelled"
    /\ UNCHANGED <<given, phase, code, password, printing, told, screen, exit, history>>

(* `worst`: 130, then the command line's own, then the largest by          *)
(* magnitude, of which there may be two: whichever ended first.            *)
Rank(c) == IF c = 130 THEN <<3, 0>> ELSE IF c \in {125, 126, 127} THEN <<2, c>>
           ELSE <<IF c = 0 THEN 0 ELSE 1, IF c < 0 THEN -c ELSE c>>
Least(c, d) == Rank(c)[1] < Rank(d)[1] \/ (Rank(c)[1] = Rank(d)[1] /\ Rank(c)[2] <= Rank(d)[2])

Largest(codes) == {c \in codes: \A d \in codes: d <= c}      \* Mutant: the largest status.
Worst(codes) == {c \in codes: \A d \in codes: Least(d, c)}

Exit ==
    /\ exit = {}
    /\ \/ /\ interrupt # "cancelled" /\ \A h \in named: In(h, "done")
          /\ \E c \in Worst({code[h]: h \in named}): exit' = {c}
       \/ interrupt = "cancelled" /\ exit' = {130}
    /\ UNCHANGED <<given, phase, code, password, printing, told, screen, interrupt, history>>

Step(h) ==
    \/ Begin(h) \/ Call(h) \/ NoTerminal(h) \/ Prompt(h) \/ Answer(h)
    \/ NoAnswer(h) \/ Answered(h) \/ Connected(h) \/ Refused(h) \/ Work(h) \/ Close(h)
    \/ Take(h) \/ Write(h) \/ Leave(h) \/ Interrupted(h)

Next == Exit \/ Cancelled \/ \E h \in named: Step(h)

Spec == Init /\ [][Next]_vars

-----------------------------------------------------------------------------
(* A host's records stand together on the screen, however many hosts end   *)
(* at once, and none is there twice.  A host that is done has told what is *)
(* due and nothing else: the output of a command that ended, but not when  *)
(* its close failed, and a status that is not zero: that of the failure    *)
(* then, not its own.                                                      *)
Told(h, what) == \E i \in 1 .. Len(screen): screen[i] = <<h, what>>

RecordsWhole ==
    /\ \A i, j, k \in 1 .. Len(screen):
           i < j /\ j < k /\ screen[i][1] = screen[k][1] => screen[j][1] = screen[i][1]
    /\ \A i, j \in 1 .. Len(screen): screen[i] = screen[j] => i = j
    /\ \A h \in named: In(h, "done") =>
           /\ Told(h, "stdout") <=> h \in ended \ lost
           /\ Told(h, "stderr") <=> h \in ended \ lost
           /\ Told(h, "status") <=> Several /\ code[h] # 0
           /\ h \in lost => code[h] \in Failures

(* The user is asked by one host at a time, and answers at most once.      *)
AskedOnce ==
    /\ prompts <= 1 /\ answers <= 1
    /\ \A g, h \in named: In(g, "prompt") /\ In(h, "prompt") => g = h
    /\ \A h \in named: In(h, "work") /\ asks[h] > 0 => answers = 1

(* The command's own status: 130 when any host was interrupted or exited   *)
(* so, else that of a host that was not reached over what remote commands  *)
(* exit with, and zero only when every host's is.                          *)
ExitIsWorst ==
    \A e \in exit:
        LET codes == {code[h]: h \in named}
        IN  \/ e = 130 /\ (Several \/ \E h \in named: In(h, "cut") \/ code[h] = 130)
            \/ /\ \A h \in named: In(h, "done")
               /\ e \in codes /\ 130 \notin codes
               /\ codes \cap {125, 126, 127} # {} => e \in {125, 126, 127}
               /\ e = 0 => codes = {0}

FannedOut == RecordsWhole /\ AskedOnce /\ ExitIsWorst
=============================================================================
