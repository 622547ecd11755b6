---------------------------- MODULE SerialConsole ----------------------------
(***************************************************************************)
(* A serial console shared by threads: `SerialHost` (serial/_host.py) over *)
(* `SerialExecutor` (serial/_executor.py), whose one connection is lent to *)
(* one `SerialProcess` at a time through a `StreamLease` (executor.py).    *)
(*                                                                         *)
(* The lease is guarded by a lock, and so is one `connect` of the port     *)
(* from another; the host's operations and a close are not, and are split  *)
(* here at every read and write of what they share.  A port is its number  *)
(* in the order they were opened.  The console has a login exchange.  A    *)
(* process is closed by the thread it was given to, so the claim that      *)
(* tells two threads closing one process apart has nothing to decide.      *)
(***************************************************************************)
EXTENDS Integers

CONSTANTS Threads,     \* the threads sharing the host
          NoPort,      \* `None`
          NoToken,     \* the holder of a free lease
          Does,        \* Does[t]: the operations thread t makes
          MaxPorts,    \* bound: ports ever opened
          MaxCalls     \* MaxCalls[t], a bound: operations thread t starts

Operations == {"connect", "run", "spawn", "type", "closeSession",
               "closeHost", "closeExecutor"}

(* A thread has at most two processes, that of the operation it is in and  *)
(* the session `spawn` gave it; each is its lease's token.                 *)
Tokens == Threads \X {"call", "session"}
Ports == 1 .. MaxPorts

ASSUME ConsoleAssumption == /\ NoPort \notin Ports
                            /\ NoToken \notin Tokens
                            /\ Does \in [Threads -> SUBSET Operations]
                            /\ MaxPorts \in Nat \ {0}
                            /\ MaxCalls \in [Threads -> Nat]

VARIABLES injected,    \* `_injected`: the caller gave the port, and owns it
          serial,      \* `SerialExecutor._serial`
          opened,      \* how many ports there have been
          open,        \* those that are open
          lease,       \* `StreamLease._current`
          ended,       \* the tokens that have ended, or were never acquired
          attached,    \* attached[k]: the port k's process works on
          negotiated,  \* `SerialHost._negotiated_on`
          pc,          \* where each thread is
          op,          \* the operation it is in
          stage,       \* whether that operation has yet to log in
          port,        \* the port its `connect` looked at
          seen,        \* the port its `close` read
          session,     \* the threads that hold a session
          calls        \* operations each has started

(* History, which no action's guard reads. *)
VARIABLES loggedIn,    \* ports a login exchange completed on
          switched,    \* tokens whose port is not the one `connect` looked at
          dropped,     \* ports a `close` dropped that had read another one
          unclosed,    \* dropped ports whose own `close` raised
          abandoned    \* tokens acquired by a `spawn` that never made its process

ports == <<injected, serial, opened, open>>
processes == <<lease, ended, attached>>
local == <<pc, op, stage, port, seen, session, calls>>
history == <<loggedIn, switched, dropped, unclosed, abandoned>>
vars == <<ports, processes, negotiated, local, history>>

Init ==
    /\ injected \in BOOLEAN
    /\ IF injected THEN serial = 1 /\ opened = 1 /\ open \in {{}, {1}}
                   ELSE serial = NoPort /\ opened = 0 /\ open = {}
    /\ lease = NoToken
    /\ ended = Tokens
    /\ attached = [k \in Tokens |-> NoPort]
    /\ negotiated = NoPort
    /\ pc = [t \in Threads |-> "idle"]
    /\ op = [t \in Threads |-> "connect"]
    /\ stage = [t \in Threads |-> "login"]
    /\ port = [t \in Threads |-> NoPort]
    /\ seen = [t \in Threads |-> NoPort]
    /\ session = {}
    /\ calls = [t \in Threads |-> 0]
    /\ loggedIn = {}
    /\ switched = {}
    /\ dropped = {}
    /\ unclosed = {}
    /\ abandoned = {}

Goto(t, where) == pc' = [pc EXCEPT ![t] = where]

(* The process the thread is working with. *)
Token(t) ==
    <<t, IF op[t] \in {"spawn", "type", "closeSession"} /\ stage[t] = "use"
         THEN "session" ELSE "call">>

(* I/O is refused by a process that has ended or whose port is closed. *)
Usable(k) == k \notin ended /\ attached[k] \in open

(* Back to the caller. *)
Leave(t) ==
    /\ Goto(t, "idle")
    /\ op' = [op EXCEPT ![t] = "connect"]
    /\ stage' = [stage EXCEPT ![t] = "login"]
    /\ port' = [port EXCEPT ![t] = NoPort]
    /\ seen' = [seen EXCEPT ![t] = NoPort]

-----------------------------------------------------------------------------
Begin(t, o) ==
    /\ pc[t] = "idle" /\ calls[t] < MaxCalls[t]
    /\ o \in Does[t]
    /\ o = "spawn" => t \notin session
    /\ o \in {"type", "closeSession"} => t \in session
    /\ calls' = [calls EXCEPT ![t] = @ + 1]
    /\ op' = [op EXCEPT ![t] = o]
    /\ stage' = [stage EXCEPT ![t] =
                    IF o \in {"connect", "run", "spawn"} THEN "login" ELSE "use"]
    /\ Goto(t, CASE o \in {"connect", "run", "spawn"} -> "connect"
                 [] o = "type" -> "use"
                 [] o = "closeSession" -> "close"
                 [] o \in {"closeHost", "closeExecutor"} -> "read")
    /\ negotiated' = IF o = "closeHost" THEN NoPort ELSE negotiated
    /\ UNCHANGED <<ports, processes, port, seen, session, history>>

(* SerialExecutor.connect, in its lock, which a close does not take: it    *)
(* returns the port there is, which it has just seen open, or opens a new  *)
(* one.  Opening one may fail; a port the caller gave is not replaced.     *)
Connected == serial # NoPort /\ serial \in open

Unlocked == \A t \in Threads: pc[t] \notin {"take", "takeAgain"}

ConnectAgain(p) ==    \* Mutant: the open port there is is not looked for.
    /\ Unlocked /\ ~injected /\ opened < MaxPorts
    /\ p = opened + 1
    /\ serial' = p /\ opened' = p /\ open' = open \cup {p}
    /\ UNCHANGED injected

ConnectUnnumbered(p) ==    \* Mutant: a new port is not counted.
    /\ Unlocked /\ ~Connected
    /\ ~injected /\ opened < MaxPorts
    /\ serial' = opened /\ opened' = opened + 1 /\ open' = open \cup {p}
    /\ UNCHANGED injected

Connect(p) ==
    /\ Unlocked /\ ~Connected
    /\ ~injected /\ opened < MaxPorts
    /\ p = opened + 1
    /\ serial' = p /\ opened' = p /\ open' = open \cup {p}
    /\ UNCHANGED injected

-----------------------------------------------------------------------------
(* SerialHost.connect, of which run and spawn are the continuation. *)
HostConnects(t, p) ==
    /\ pc[t] = "connect"
    /\ Connect(p)
    /\ port' = [port EXCEPT ![t] = p]
    /\ Goto(t, "check")
    /\ UNCHANGED <<processes, negotiated, op, stage, seen, session, calls, history>>

(* The port is seen to be open, and then read again: a close may have left *)
(* `None` there.                                                           *)
SeesPort(t) ==
    /\ pc[t] \in {"connect", "attach"}
    /\ Unlocked /\ Connected
    /\ Goto(t, IF pc[t] = "connect" THEN "take" ELSE "takeAgain")
    /\ UNCHANGED <<ports, processes, negotiated, op, stage, port, seen, session, calls,
                   history>>

HostTakes(t) ==
    /\ pc[t] = "take"
    /\ port' = [port EXCEPT ![t] = serial]
    /\ Goto(t, "check")
    /\ UNCHANGED <<ports, processes, negotiated, op, stage, seen, session, calls, history>>

ConnectFails(t) ==
    /\ pc[t] = "connect" /\ Unlocked /\ ~Connected
    /\ Leave(t)
    /\ UNCHANGED <<ports, processes, negotiated, session, calls, history>>

(* On to the operation proper; `connect` has none. *)
Proceed(t) ==
    IF op[t] = "connect"
    THEN Leave(t)
    ELSE /\ stage' = [stage EXCEPT ![t] = "use"]
         /\ Goto(t, "acquire")
         /\ UNCHANGED <<op, port, seen>>

CheckFlag(t) ==    \* Mutant: a login on any port counts.
    /\ pc[t] = "check"
    /\ IF negotiated # NoPort
       THEN Proceed(t)
       ELSE Goto(t, "acquire") /\ UNCHANGED <<op, stage, port, seen>>
    /\ UNCHANGED <<ports, processes, negotiated, session, calls, history>>

Check(t) ==
    /\ pc[t] = "check"
    /\ IF negotiated = port[t]
       THEN Proceed(t)
       ELSE Goto(t, "acquire") /\ UNCHANGED <<op, stage, port, seen>>
    /\ UNCHANGED <<ports, processes, negotiated, session, calls, history>>

-----------------------------------------------------------------------------
(* SerialExecutor.open: the lease first, then the port. *)
Acquire(t) ==
    /\ pc[t] = "acquire" /\ lease = NoToken
    /\ lease' = Token(t)
    /\ ended' = ended \ {Token(t)}
    /\ abandoned' = abandoned \ {Token(t)}
    /\ Goto(t, "attach")
    /\ UNCHANGED <<ports, attached, negotiated, op, stage, port, seen, session, calls,
                   loggedIn, switched, dropped, unclosed>>

Busy(t) ==
    /\ pc[t] = "acquire" /\ lease # NoToken
    /\ Leave(t)
    /\ UNCHANGED <<ports, processes, negotiated, session, calls, history>>

Works(t, p) ==    \* The process is made, to work on port p.
    /\ attached' = [attached EXCEPT ![Token(t)] = p]
    /\ switched' = IF p = port[t] THEN switched \ {Token(t)} ELSE switched \cup {Token(t)}
    /\ Goto(t, CASE stage[t] = "login" -> "login"
                 [] stage[t] = "use" -> IF op[t] = "run" THEN "use" ELSE "setup")
    /\ UNCHANGED <<lease, ended, negotiated, op, stage, port, seen, session, calls,
                   loggedIn, dropped, unclosed, abandoned>>

Attach(t, p) ==
    /\ pc[t] = "attach"
    /\ Connect(p)
    /\ Works(t, p)

AttachTaken(t) ==
    /\ pc[t] = "takeAgain"
    /\ Works(t, serial)
    /\ UNCHANGED ports

AttachFailsHeld(t) ==    \* Mutant: the lease is not given back.
    /\ pc[t] = "attach" /\ Unlocked /\ ~Connected
    /\ Leave(t)
    /\ UNCHANGED <<ports, processes, negotiated, session, calls, history>>

AttachFails(t) ==
    /\ pc[t] = "attach" /\ Unlocked /\ ~Connected
    /\ Goto(t, "release")
    /\ UNCHANGED <<ports, processes, negotiated, op, stage, port, seen, session, calls,
                   history>>

(* StreamLease.release: whoever holds the lease by now keeps it. *)
ReleaseAny(t) ==    \* Mutant: the lease is freed whoever holds it.
    /\ pc[t] = "release"
    /\ ended' = ended \cup {Token(t)}
    /\ lease' = NoToken
    /\ IF stage[t] = "loggedIn" THEN Proceed(t) ELSE Leave(t)
    /\ session' = IF op[t] = "closeSession" THEN session \ {t} ELSE session
    /\ UNCHANGED <<ports, attached, negotiated, calls, history>>

Release(t) ==
    /\ pc[t] = "release"
    /\ ended' = ended \cup {Token(t)}
    /\ lease' = IF lease = Token(t) THEN NoToken ELSE lease
    /\ IF stage[t] = "loggedIn" THEN Proceed(t) ELSE Leave(t)
    /\ session' = IF op[t] = "closeSession" THEN session \ {t} ELSE session
    /\ UNCHANGED <<ports, attached, negotiated, calls, history>>

(* The process is closed, unless its lease has been revoked. *)
CloseProcess(t) ==
    /\ pc[t] = "close"
    /\ IF Token(t) \notin ended
       THEN Goto(t, "release") /\ UNCHANGED <<op, stage, port, seen, session>>
       ELSE /\ IF stage[t] = "loggedIn" THEN Proceed(t) ELSE Leave(t)
            /\ session' = IF op[t] = "closeSession" THEN session \ {t} ELSE session
    /\ UNCHANGED <<ports, processes, negotiated, calls, history>>

-----------------------------------------------------------------------------
(* The login exchange, on the process and not on the port that was checked.*)
LogIn(t) ==
    /\ pc[t] = "login"
    /\ Usable(Token(t))
    /\ loggedIn' = loggedIn \cup {attached[Token(t)]}
    /\ stage' = [stage EXCEPT ![t] = "loggedIn"]
    /\ Goto(t, "note")
    /\ UNCHANGED <<ports, processes, negotiated, op, port, seen, session, calls, switched,
                   dropped, unclosed, abandoned>>

LoginFailsNoted(t) ==    \* Mutant: a login that failed is noted as well.
    /\ pc[t] = "login"
    /\ Goto(t, "note")
    /\ UNCHANGED <<ports, processes, negotiated, op, stage, port, seen, session, calls,
                   history>>

LoginFails(t) ==
    /\ pc[t] = "login"
    /\ Goto(t, "close")
    /\ UNCHANGED <<ports, processes, negotiated, op, stage, port, seen, session, calls,
                   history>>

NoteLogin(t) ==
    /\ pc[t] = "note"
    /\ negotiated' = port[t]
    /\ Goto(t, "close")
    /\ UNCHANGED <<ports, processes, op, stage, port, seen, session, calls, history>>

(* spawn sizes the terminal and hands the session over, or closes it. *)
Spawned(t) ==
    /\ pc[t] = "setup"
    /\ session' = session \cup {t}
    /\ Leave(t)
    /\ UNCHANGED <<ports, processes, negotiated, calls, history>>

SetupFails(t) ==
    /\ pc[t] = "setup"
    /\ Goto(t, "close")
    /\ UNCHANGED <<ports, processes, negotiated, op, stage, port, seen, session, calls,
                   history>>

(* The process is built last, in no `try`: when that raises, as it does of *)
(* an encoding nobody knows, the lease stays with a process no one has.    *)
Unmade(t) ==
    /\ pc[t] = "setup"
    /\ abandoned' = abandoned \cup {Token(t)}
    /\ Leave(t)
    /\ UNCHANGED <<ports, processes, negotiated, session, calls, loggedIn, switched, dropped,
                   unclosed>>

(* A command is typed, by `run` or in a session: `_require_open`, and then *)
(* the write.  `run` closes its process whatever came of it.               *)
Typed(t) ==
    IF op[t] = "run" THEN Goto(t, "close") /\ UNCHANGED <<op, stage, port, seen>>
                     ELSE Leave(t)

RequireOpen(t) ==
    /\ pc[t] = "use"
    /\ IF Usable(Token(t)) THEN Goto(t, "write") /\ UNCHANGED <<op, stage, port, seen>>
                           ELSE Typed(t)
    /\ UNCHANGED <<ports, processes, negotiated, session, calls, history>>

Write(t) ==
    /\ pc[t] = "write"
    /\ Typed(t)
    /\ UNCHANGED <<ports, processes, negotiated, session, calls, history>>

-----------------------------------------------------------------------------
(* SerialExecutor.close, under no lock of its own: the port is read, the   *)
(* lease revoked, and then that port, if it is the executor's, is dropped  *)
(* and closed.                                                             *)
ReadPort(t) ==
    /\ pc[t] = "read"
    /\ seen' = [seen EXCEPT ![t] = serial]
    /\ Goto(t, "revoke")
    /\ UNCHANGED <<ports, processes, negotiated, op, stage, port, session, calls, history>>

Revoke(t) ==
    /\ pc[t] = "revoke"
    /\ ended' = ended \cup ({lease} \cap Tokens)
    /\ lease' = NoToken
    /\ IF seen[t] # NoPort /\ ~injected
       THEN Goto(t, "drop") /\ UNCHANGED <<op, stage, port, seen>>
       ELSE Leave(t)
    /\ UNCHANGED <<ports, attached, negotiated, session, calls, history>>

DropPort(t) ==
    /\ pc[t] = "drop"
    /\ serial' = NoPort
    /\ dropped' = dropped \cup ({serial} \ {seen[t], NoPort})
    /\ Goto(t, "shut")
    /\ UNCHANGED <<injected, opened, open, processes, negotiated, op, stage, port, seen,
                   session, calls, loggedIn, switched, unclosed, abandoned>>

ShutPort(t) ==
    /\ pc[t] = "shut"
    /\ open' = open \ {seen[t]}
    /\ Leave(t)
    /\ UNCHANGED <<injected, serial, opened, processes, negotiated, session, calls,
                   history>>

(* The port's own `close` raises: it may still be open, and is no longer   *)
(* the executor's to close.                                                *)
ShutFails(t) ==
    /\ pc[t] = "shut"
    /\ unclosed' = unclosed \cup {seen[t]}
    /\ Leave(t)
    /\ UNCHANGED <<ports, processes, negotiated, session, calls, loggedIn, switched, dropped,
                   abandoned>>

Turn(t) ==
    \/ \E o \in Operations: Begin(t, o)
    \/ \E p \in Ports: HostConnects(t, p) \/ Attach(t, p)
    \/ SeesPort(t) \/ HostTakes(t) \/ AttachTaken(t)
    \/ ConnectFails(t) \/ Check(t)
    \/ Acquire(t) \/ Busy(t) \/ AttachFails(t) \/ Release(t) \/ CloseProcess(t)
    \/ LogIn(t) \/ LoginFails(t) \/ NoteLogin(t)
    \/ Spawned(t) \/ SetupFails(t) \/ Unmade(t)
    \/ RequireOpen(t) \/ Write(t)
    \/ ReadPort(t) \/ Revoke(t) \/ DropPort(t) \/ ShutPort(t) \/ ShutFails(t)

Next == \E t \in Threads: Turn(t)

Spec == Init /\ [][Next]_vars

-----------------------------------------------------------------------------
TypeOK ==
    /\ injected \in BOOLEAN
    /\ serial \in Ports \cup {NoPort}
    /\ opened \in 0 .. MaxPorts
    /\ open \subseteq Ports
    /\ lease \in Tokens \cup {NoToken}
    /\ ended \subseteq Tokens
    /\ attached \in [Tokens -> Ports \cup {NoPort}]
    /\ negotiated \in Ports \cup {NoPort}
    /\ pc \in [Threads -> {"idle", "connect", "take", "check", "acquire", "attach",
                           "takeAgain", "login", "note", "setup", "use", "write",
                           "close", "release", "read", "revoke", "drop", "shut"}]
    /\ op \in [Threads -> Operations]
    /\ stage \in [Threads -> {"login", "loggedIn", "use"}]
    /\ port \in [Threads -> Ports \cup {NoPort}]
    /\ seen \in [Threads -> Ports \cup {NoPort}]
    /\ session \subseteq Threads
    /\ calls \in [Threads -> Nat] /\ \A t \in Threads: calls[t] <= MaxCalls[t]
    /\ loggedIn \subseteq Ports
    /\ switched \subseteq Tokens
    /\ dropped \subseteq Ports
    /\ unclosed \subseteq Ports
    /\ abandoned \subseteq Tokens

(* A process that has not ended is the lease's holder: a handle closed     *)
(* late, or an `open` that failed late, never frees the lease of the       *)
(* process that came after it (`release`, `revoke`).                       *)
LeaseExclusive == \A k \in Tokens: k \notin ended => lease = k

(* A lease that is held will be given back: its holder is a session some   *)
(* thread has, or the process of an operation on its way to closing it     *)
(* (`open`, `connect`, `run`, `spawn`).  The one exception is a `spawn`    *)
(* that raised as it built its process: only a close frees that lease.     *)
LeaseAccounted ==
    \A t \in Threads, kind \in {"call", "session"}:
        lease = <<t, kind>> =>
            \/ kind = "session" /\ t \in session
            \/ /\ pc[t] \in {"attach", "takeAgain", "login", "note", "setup", "use",
                             "write", "close", "release"}
               /\ Token(t) = lease
            \/ lease \in abandoned

(* The lease has one holder, who has it until it is given back.            *)
LeaseSound == TypeOK /\ LeaseExclusive /\ LeaseAccounted

(* The login is remembered of a port it completed on, although it is made  *)
(* on the process's port and noted of the one that was checked.            *)
LoginRemembered == negotiated = serial /\ serial # NoPort => serial \in loggedIn

(* A command is typed on a port only once logged in there, unless a close  *)
(* replaced the port after `connect` looked at it (`run`, `spawn`).        *)
TypedAfterLogin ==
    \A t \in Threads:
        pc[t] = "write" /\ Token(t) \notin switched => attached[Token(t)] \in loggedIn

(* Commands are typed where the login was made.                            *)
LoginSound == LoginRemembered /\ TypedAfterLogin

(* What `_host.py` says the remembered transport is for: no command is     *)
(* typed at a `login:` prompt, so never on a port without a login.         *)
CommandAfterLogin ==
    \A t \in Threads: pc[t] = "write" => attached[Token(t)] \in loggedIn

(* A port that is open is one the executor can still close, or is being    *)
(* closed, unless a `close` dropped it that had read another, or its own   *)
(* `close` raised when the executor had dropped it (`close`).              *)
PortsReachable ==
    open \subseteq {serial} \cup {seen[t]: t \in {u \in Threads: pc[u] = "shut"}}
                    \cup dropped \cup unclosed
=============================================================================
