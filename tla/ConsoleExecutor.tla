-------------------------- MODULE ConsoleExecutor --------------------------
(***************************************************************************)
(* `ConsoleExecutor` (console/_executor.py) under the loop of              *)
(* `StreamingExecutor` (executor.py): commands of several threads typed    *)
(* into one console, which one of them holds at a time.                    *)
(*                                                                         *)
(* A command is named by the thread that runs it and which of its calls it *)
(* is; it may go on running when its call is over.  What it outputs is     *)
(* left out (ConsoleFrame says how it is cut from the console's bytes).    *)
(* The stream may fail whenever it is used.                                *)
(***************************************************************************)
EXTENDS Integers

CONSTANTS Threads,     \* the threads sharing the executor
          Nobody,      \* the holder of a free terminal
          WriteErrors, \* what the stream raises when the command line is typed
          ReadErrors,  \* what it raises when its output is read
          MaxCalls     \* bound: calls a thread makes

Commands == Threads \X (1 .. MaxCalls)

(* What is taken for granted of the constants. *)
ASSUME ExecutorAssumption ==
    /\ Nobody \notin Threads /\ MaxCalls \in Nat
    /\ WriteErrors \cup ReadErrors \subseteq {"not started", "failed"}

VARIABLES drops,      \* an `_abandon` override drops the stream's session
          running,    \* the thread of `_running`, which holds the terminal
          started,    \* `_running.started`
          pc,         \* where each thread's call is
          timed,      \* the calls that have a deadline
          verdict,    \* what the call is about to raise
          calls,      \* calls each thread has started
          alive       \* the commands running, or about to, in the console

(* History, which no action's guard reads. *)
VARIABLES settled     \* commands of which a call said nothing is left running

vars == <<drops, running, started, pc, timed, verdict, calls, alive, settled>>

Init ==
    /\ drops \in BOOLEAN
    /\ running = Nobody
    /\ started = FALSE
    /\ pc = [t \in Threads |-> "idle"]
    /\ timed = {}
    /\ verdict = [t \in Threads |-> "done"]
    /\ calls = [t \in Threads |-> 0]
    /\ alive = {}
    /\ settled = {}

Command(t) == <<t, calls[t]>>

Goto(t, where) == pc' = [pc EXCEPT ![t] = where]

(* The call is over; a result, a decline and a timeout that reports no     *)
(* orphan say that nothing of the command runs.                            *)
Leave(t, outcome) ==
    /\ Goto(t, "idle")
    /\ timed' = timed \ {t}
    /\ verdict' = [verdict EXCEPT ![t] = "done"]
    /\ settled' = IF outcome \in {"done", "declined", "expired"}
                  THEN settled \cup {Command(t)} ELSE settled

(* `_release`, of the terminal's holder only. *)
Free(t) ==
    IF running = t THEN running' = Nobody /\ started' = FALSE
                   ELSE UNCHANGED <<running, started>>

-----------------------------------------------------------------------------
Call(t, deadline) ==
    /\ pc[t] = "idle" /\ calls[t] < MaxCalls
    /\ calls' = [calls EXCEPT ![t] = @ + 1]
    /\ timed' = IF deadline THEN timed \cup {t} ELSE timed
    /\ Goto(t, "waiting")
    /\ UNCHANGED <<drops, running, started, verdict, alive, settled>>

(* _send: the terminal, within the call's own timeout, and then a stream.  *)
Hold(t) ==
    /\ pc[t] = "waiting" /\ running = Nobody
    /\ running' = t
    /\ Goto(t, "opening")
    /\ UNCHANGED <<drops, started, timed, verdict, calls, alive, settled>>

WaitExpiresNever(t) == FALSE    \* Mutant: the wait has no timeout.

WaitExpires(t) ==
    /\ pc[t] = "waiting" /\ t \in timed
    /\ Goto(t, "stopping")
    /\ verdict' = [verdict EXCEPT ![t] = "expired"]
    /\ UNCHANGED <<drops, running, started, timed, calls, alive, settled>>

Open(t) ==
    /\ pc[t] = "opening"
    /\ Goto(t, "preparing")
    /\ UNCHANGED <<drops, running, started, timed, verdict, calls, alive, settled>>

(* The factory's refusal, `OSError` and `TimeoutError` decline; another    *)
(* error of it goes on through `_stop`, which finds nothing to stop.       *)
OpenFails(t, outcome) ==
    /\ pc[t] = "opening"
    /\ Free(t)
    /\ Leave(t, outcome)
    /\ UNCHANGED <<drops, calls, alive>>

(* _prepare: what comes before the command line is typed.  A failure of    *)
(* the stream declines; the deadline passes waiting for the shell; another *)
(* error is raised.                                                        *)
Prepare(t) ==
    /\ pc[t] = "preparing"
    /\ Goto(t, "typing")
    /\ UNCHANGED <<drops, running, started, timed, verdict, calls, alive, settled>>

PrepareFailsHeld(t, outcome) ==    \* Mutant: the terminal is not let go.
    /\ pc[t] = "preparing"
    /\ outcome = "expired" => t \in timed
    /\ Leave(t, outcome)
    /\ UNCHANGED <<drops, running, started, calls, alive>>

PrepareFailsRaw(t, outcome) ==    \* Mutant: the profile's own timeout is raised.
    /\ pc[t] = "preparing"
    /\ outcome = "expired" => t \in timed
    /\ Goto(t, "stopping")
    /\ verdict' = [verdict EXCEPT ![t] = IF outcome = "expired" THEN "timeout" ELSE outcome]
    /\ UNCHANGED <<drops, running, started, timed, calls, alive, settled>>

PrepareFails(t, outcome) ==
    /\ pc[t] = "preparing"
    /\ outcome = "expired" => t \in timed
    /\ Goto(t, "stopping")
    /\ verdict' = [verdict EXCEPT ![t] = outcome]
    /\ UNCHANGED <<drops, running, started, timed, calls, alive, settled>>

(* The command line is typed. *)
Type(t) ==
    /\ pc[t] = "typing"
    /\ started' = TRUE
    /\ alive' = alive \cup {Command(t)}
    /\ Goto(t, "receiving")
    /\ UNCHANGED <<drops, running, timed, verdict, calls, settled>>

TypeFailsDeclined(t, error, partly) ==    \* Mutant: any failure is a decline.
    /\ pc[t] = "typing"
    /\ started' = TRUE
    /\ alive' = IF partly THEN alive \cup {Command(t)} ELSE alive
    /\ Goto(t, "stopping")
    /\ verdict' = [verdict EXCEPT ![t] = "declined"]
    /\ UNCHANGED <<drops, running, timed, calls, settled>>

(* Writing it fails, perhaps with all of it typed.  An error that says     *)
(* nothing was sent is believed, and then nothing is stopped.              *)
TypeFails(t, error, partly) ==
    /\ pc[t] = "typing"
    /\ started' = TRUE
    /\ alive' = IF partly THEN alive \cup {Command(t)} ELSE alive
    /\ IF error = "not started"
       THEN Leave(t, "declined")
       ELSE /\ Goto(t, "stopping")
            /\ verdict' = [verdict EXCEPT ![t] = "failed"]
            /\ UNCHANGED <<timed, settled>>
    /\ UNCHANGED <<drops, running, calls>>

-----------------------------------------------------------------------------
(* The command ends by itself. *)
CommandEnds(c) ==
    /\ c \in alive
    /\ alive' = alive \ {c}
    /\ UNCHANGED <<drops, running, started, pc, timed, verdict, calls, settled>>

(* _receive: the status arrives, the terminal is let go, and the last      *)
(* output is written to the caller's targets -- which may fail.            *)
Receive(t) ==
    /\ pc[t] = "receiving"
    /\ Command(t) \notin alive
    /\ Free(t)
    /\ Goto(t, "collecting")
    /\ UNCHANGED <<drops, timed, verdict, calls, alive, settled>>

Collect(t) ==
    /\ pc[t] = "collecting"
    /\ Leave(t, "done")
    /\ UNCHANGED <<drops, running, started, calls, alive>>

CollectFails(t) ==
    /\ pc[t] \in {"receiving", "collecting"}
    /\ Goto(t, "stopping")
    /\ verdict' = [verdict EXCEPT ![t] = "failed"]
    /\ UNCHANGED <<drops, running, started, timed, calls, alive, settled>>

(* The stream fails; a refusal is a connection error by now. *)
ReceiveFailsRefused(t, error) ==    \* Mutant: a refusal still declines.
    /\ pc[t] = "receiving"
    /\ Goto(t, "stopping")
    /\ verdict' = [verdict EXCEPT ![t] = IF error = "failed" THEN error ELSE "declined"]
    /\ UNCHANGED <<drops, running, started, timed, calls, alive, settled>>

ReceiveFails(t, error) ==
    /\ pc[t] = "receiving"
    /\ Goto(t, "stopping")
    /\ verdict' = [verdict EXCEPT ![t] = "failed"]
    /\ UNCHANGED <<drops, running, started, timed, calls, alive, settled>>

Expire(t) ==
    /\ pc[t] = "receiving" /\ t \in timed
    /\ Goto(t, "stopping")
    /\ verdict' = [verdict EXCEPT ![t] = "expired"]
    /\ UNCHANGED <<drops, running, started, timed, calls, alive, settled>>

-----------------------------------------------------------------------------
(* _stop: a call that does not hold the terminal has nothing to stop. *)
StopAny(t) ==    \* Mutant: whoever holds the terminal by now.
    /\ pc[t] = "stopping"
    /\ Goto(t, "interrupting")
    /\ UNCHANGED <<drops, running, started, timed, verdict, calls, alive, settled>>

Stop(t) ==
    /\ pc[t] = "stopping"
    /\ IF running = t
       THEN Goto(t, "interrupting") /\ UNCHANGED <<timed, verdict, settled>>
       ELSE Leave(t, verdict[t])
    /\ UNCHANGED <<drops, running, started, calls, alive>>

(* ^C reaches whatever the console runs, and stops what heeds it; an       *)
(* override that drops the session ends all of it.  Typing it may fail.    *)
Interrupt(t, heeding) ==
    /\ pc[t] = "interrupting"
    /\ drops => heeding = alive
    /\ alive' = alive \ heeding
    /\ Goto(t, "releasing")
    /\ UNCHANGED <<drops, running, started, timed, verdict, calls, settled>>

(* A timeout reports an orphan once the command line was typed, unless the *)
(* session is gone.                                                        *)
OrphanedNever(t) == FALSE    \* Mutant: no timeout reports one.

Orphaned(t) == started /\ ~drops

Release(t) ==
    /\ pc[t] = "releasing"
    /\ Leave(t, IF verdict[t] = "expired" /\ Orphaned(t) THEN "orphaned" ELSE verdict[t])
    /\ Free(t)
    /\ UNCHANGED <<drops, calls, alive>>

Step(t) ==
    \/ Hold(t) \/ WaitExpires(t) \/ Open(t) \/ Prepare(t) \/ Type(t)
    \/ Receive(t) \/ Collect(t) \/ Expire(t)
    \/ Stop(t) \/ Release(t)
    \/ \E heeding \in SUBSET alive: Interrupt(t, heeding)

Fail(t) ==
    \/ \E outcome \in {"declined", "failed"}: OpenFails(t, outcome)
    \/ \E outcome \in {"declined", "failed", "expired"}: PrepareFails(t, outcome)
    \/ \E error \in WriteErrors, partly \in BOOLEAN: TypeFails(t, error, partly)
    \/ \E error \in ReadErrors: ReceiveFails(t, error)
    \/ CollectFails(t)

Next == \E t \in Threads:
    \/ \E deadline \in BOOLEAN: Call(t, deadline)
    \/ Step(t) \/ Fail(t)
    \/ \E n \in 1 .. MaxCalls: CommandEnds(<<t, n>>)

(* A thread in a call is scheduled again: the stream's calls return, a     *)
(* wait ends with the terminal or its timeout.  No command has to end.     *)
Fairness == \A t \in Threads: WF_vars(Step(t))

Spec == Init /\ [][Next]_vars
FairSpec == Spec /\ Fairness

-----------------------------------------------------------------------------
TypeOK ==
    /\ drops \in BOOLEAN
    /\ running \in Threads \cup {Nobody}
    /\ started \in BOOLEAN
    /\ pc \in [Threads -> {"idle", "waiting", "opening", "preparing", "typing",
                           "receiving", "collecting", "stopping", "interrupting",
                           "releasing"}]
    /\ timed \subseteq Threads
    /\ verdict \in [Threads -> {"done", "declined", "failed", "expired"}]
    /\ calls \in [Threads -> 0 .. MaxCalls]
    /\ alive \subseteq Commands
    /\ settled \subseteq Commands

(* A ^C is typed while no other call's command is in the console: not by a *)
(* call that has let the terminal go and fails after that, nor by one that *)
(* never had it (`_stop`, `_release`).                                     *)
InterruptsOwn ==
    \A t, u \in Threads:
        pc[t] = "interrupting" /\ pc[u] = "receiving" /\ u # t => Command(u) \notin alive

(* Whatever way a call ends, it does not keep the terminal. *)
TerminalLetGo == \A t \in Threads: pc[t] = "idle" => running # t

(* A call that declines lets another provider run the command, and one     *)
(* that reports no orphan says it stopped: then it is not running.         *)
SettledIsOver == alive \cap settled = {}

(* A call leaves the console as the next one may find it, and says no more *)
(* of its command than it knows.                                           *)
ExecutorSafe == TypeOK /\ InterruptsOwn /\ TerminalLetGo /\ SettledIsOver

(* A call made with a timeout ends, even if no command ever does: it waits *)
(* for the terminal, too, within its own timeout (`_send`).                *)
TimedCallEnds == \A t \in Threads: t \in timed ~> t \notin timed
=============================================================================
