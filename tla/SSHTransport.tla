------------------------------ MODULE SSHTransport ------------------------------
(***************************************************************************)
(* `_SSHTransport` (transports/ssh/_transport.py): the one connection that *)
(* the commands and the SFTP paths of a host share, what is cached beside  *)
(* it, and `SSHExecutor`, which runs commands over it.  Threads 1 and 2    *)
(* share the transport; thread 1 may fork, and thread 3 is then the child, *)
(* with a copy of all of it.                                               *)
(***************************************************************************)
EXTENDS Integers, Sequences, FiniteSets

CONSTANTS MaxCalls,    \* bound: calls of all threads
          MaxConns,    \* bound: connections opened
          Calls        \* bound: what each thread calls

Threads == {1, 2, 3}
Ops == {"connect", "run", "request", "relative", "close channel", "close"}

ASSUME SSHAssumption == MaxCalls \in Nat /\ MaxConns \in Nat /\ Calls \in [Threads -> SUBSET Ops]

Child == 3
Procs == {1, 2}
Of(t) == IF t = Child THEN 2 ELSE 1
Conns == 1 .. MaxConns

VARIABLES lock,        \* `_ssh_lock` of each process: who holds it (0: nobody)
          ssh,         \* `_ssh` (0: none)
          sftp,        \* `_sftp_generation`: a connection, whose backend it is (0: none)
          login,       \* `_login_dir`: the connection it was asked over (0: none);
                       \* the path style `_resolved_flavor` comes and goes with it
          dialect,     \* `_resolved_dialect`: whether it is known
          generation   \* `_loop_generation` (0: none)

VARIABLES opened,      \* who opened each connection, in their order
          dead,        \* the connections that are closed or lost
          channels,    \* the connections with an SFTP channel open
          running,     \* the commands that run, by their number
          forked,      \* whether thread 1 has forked
          th,          \* what each thread is doing
          calls        \* how many calls were begun

(* History, which no guard reads. *)
VARIABLES crossed,     \* whether a process has used or closed a connection of the other
          heldAtFork   \* whether thread 2 held the lock when thread 1 forked

cache == <<ssh, sftp, login, dialect, generation>>
far == <<opened, dead, channels, running>>
history == <<crossed, heldAtFork>>
vars == <<lock, cache, far, forked, th, calls, history>>

Idle == [op |-> "none", at |-> "idle", then |-> "none", conn |-> 0, was |-> 0, cmd |-> 0,
         end |-> "none"]

Init ==
    /\ lock = [p \in Procs |-> 0]
    /\ ssh = [p \in Procs |-> 0] /\ sftp = [p \in Procs |-> 0]
    /\ login = [p \in Procs |-> 0]
    /\ dialect = [p \in Procs |-> FALSE] /\ generation = [p \in Procs |-> 0]
    /\ opened = <<>> /\ dead = {} /\ channels = {} /\ running = {}
    /\ forked = FALSE /\ heldAtFork = FALSE
    /\ th = [t \in Threads |-> Idle]
    /\ calls = 0 /\ crossed = FALSE

-----------------------------------------------------------------------------
At(t, pc) == th[t].at = pc
Goes(t, pc) == th' = [th EXCEPT ![t].at = pc]
GoesThen(t, pc, next) == th' = [th EXCEPT ![t].at = pc, ![t].then = next]
GoesOver(t, pc, c) == th' = [th EXCEPT ![t].at = pc, ![t].conn = c]
GoesFrom(t, pc, c) == th' = [th EXCEPT ![t].at = pc, ![t].was = c]
Busy(t) == ~At(t, "idle")
Rests(t, left) == th' = [th EXCEPT ![t] = left]
Ends(t, how) ==
    \/ /\ how = "stopped"
       /\ Rests(t, [Idle EXCEPT !.end = how, !.cmd = th[t].cmd, !.conn = th[t].conn])
    \/ /\ how # "stopped" /\ th[t].op = "close"
       /\ Rests(t, [Idle EXCEPT !.end = "closed", !.was = th[t].was])
    \/ /\ how # "stopped" /\ th[t].op # "close"
       /\ Rests(t, Idle)

Alive(c) == c # 0 /\ c \notin dead
Touch(t, c) == crossed' = (crossed \/ opened[c] # Of(t))
CanLock(t) == lock[Of(t)] \in {0, t}
Take(t) == CanLock(t) /\ lock' = [lock EXCEPT ![Of(t)] = t]
KeepsLock(t) == UNCHANGED lock        \* Mutant: the lock is not given back.
Release(t) == lock' = [lock EXCEPT ![Of(t)] = 0]

(* The places where a call asks for the lock. *)
FirstPlace(op) ==
    CASE op = "run" -> "flavour"
      [] op \in {"request", "relative"} -> "ssh"
      [] OTHER -> op
Starts(t, op) ==
    th' = [th EXCEPT ![t] = [Idle EXCEPT !.op = op, !.cmd = calls + 1, !.at = FirstPlace(op)]]

Begin(t, op) ==
    /\ ~Busy(t) /\ calls < MaxCalls
    /\ t = Child => forked
    /\ calls' = calls + 1
    /\ Starts(t, op)
    /\ UNCHANGED <<lock, cache, far, forked, history>>

(* `_drop_if_forked`: what the parent cached is forgotten, not closed.     *)
ForgetConnectionOnly(p) ==    \* Mutant: the SFTP backend is kept.
    /\ ssh' = [ssh EXCEPT ![p] = 0]
    /\ login' = [login EXCEPT ![p] = 0]
    /\ UNCHANGED sftp
Forget(p) ==
    /\ ssh' = [ssh EXCEPT ![p] = 0] /\ sftp' = [sftp EXCEPT ![p] = 0]
    /\ login' = [login EXCEPT ![p] = 0]

IsForked(p) == generation[p] \notin {0, p}

DropIfForked(p) ==
    /\ generation' = [generation EXCEPT ![p] = p]
    /\ IF IsForked(p) THEN Forget(p) ELSE UNCHANGED <<ssh, sftp, login>>
    /\ UNCHANGED dialect

(* What is done with the connection: under the lock still for an SFTP      *)
(* backend, the login directory and the detection of the shell.            *)
NextPlace(t) ==
    CASE th[t].op = "connect" -> "idle"
      [] th[t].op = "request" -> "backend"
      [] th[t].then # "none" -> th[t].then
      [] th[t].op = "relative" -> "relative"
      [] OTHER -> "create"

Has(t, c) ==
    /\ lock' = [lock EXCEPT ![Of(t)] =
                    IF NextPlace(t) \in {"backend", "detect", "login"} THEN t ELSE 0]
    /\ IF NextPlace(t) = "idle" THEN Ends(t, "done")
       ELSE GoesOver(t, NextPlace(t), c)

(* The accessor `ssh`: with the lock, over the dial.                       *)
Reusable(p) == ssh'[p] # 0 /\ ssh'[p] \notin dead

Access(t) ==
    /\ th[t].at \in {"connect", "ssh"}
    /\ LET p == Of(t) IN
       /\ CanLock(t)
       /\ DropIfForked(p)
       /\ IF Reusable(p) THEN Has(t, ssh'[p])
          ELSE Goes(t, "dial") /\ lock' = [lock EXCEPT ![p] = t]
    /\ UNCHANGED <<far, forked, calls, history>>

Dial(t) ==
    /\ At(t, "dial")
    /\ LET p == Of(t)
           c == Len(opened) + 1
       IN  \/ /\ c \in Conns
              /\ opened' = Append(opened, p)
              /\ ssh' = [ssh EXCEPT ![p] = c]
              /\ Has(t, c)
           \/ /\ Ends(t, "failed") /\ Release(t)
              /\ UNCHANGED <<opened, ssh>>
    /\ UNCHANGED <<sftp, login, dialect, generation, dead, channels, running, forked,
                   calls, history>>

-----------------------------------------------------------------------------
(* `_sftp_over_connection`: the backend of this connection, another being  *)
(* closed first, which may raise.                                          *)
KeepsAny(t) == sftp[Of(t)] # 0        \* Mutant: a backend serves every connection.
Keeps(t) == sftp[Of(t)] = th[t].conn

Uses(t, c) == th' = [th EXCEPT ![t].at = "use", ![t].conn = c, ![t].was = ssh[Of(t)]]

Backend(t) ==
    /\ At(t, "backend")
    /\ LET p == Of(t)
           old == sftp[p]
       IN  IF Keeps(t)
           THEN /\ Uses(t, old)
                /\ Release(t)
                /\ UNCHANGED <<sftp, channels, crossed>>
           ELSE /\ channels' = channels \ {old}
                /\ IF old = 0 THEN UNCHANGED crossed ELSE Touch(t, old)
                /\ \/ /\ sftp' = [sftp EXCEPT ![p] = th[t].conn] /\ Release(t)
                      /\ Uses(t, th[t].conn)
                   \/ /\ old # 0
                      /\ sftp' = [sftp EXCEPT ![p] = 0] /\ Ends(t, "failed") /\ Release(t)
    /\ UNCHANGED <<ssh, login, dialect, generation, opened, dead, running, forked, calls,
                   heldAtFork>>

(* A request, on a channel that is opened when there is none.              *)
Use(t) ==
    /\ At(t, "use")
    /\ \/ Alive(th[t].conn) /\ channels' = channels \cup {th[t].conn} /\ Ends(t, "done")
       \/ Ends(t, "failed") /\ UNCHANGED channels
    /\ Touch(t, th[t].conn)
    /\ UNCHANGED <<lock, cache, opened, dead, running, forked, calls, heldAtFork>>

(* `path`, of a relative name: the login directory, asked over a connection *)
(* taken with the lock anew, and the path style that it answers.           *)
Relative(t) ==
    /\ At(t, "relative") /\ CanLock(t)
    /\ IF login[Of(t)] # 0 THEN Ends(t, "done") /\ UNCHANGED lock
       ELSE Take(t) /\ GoesThen(t, "ssh", "login")
    /\ UNCHANGED <<cache, far, forked, calls, history>>

Login(t) ==
    /\ At(t, "login")
    /\ LET p == Of(t)
           c == th[t].conn
       IN  \/ /\ Alive(c)
              /\ login' = [login EXCEPT ![p] = c]
              /\ Ends(t, "done")
           \/ Ends(t, "failed") /\ UNCHANGED <<login>>
    /\ Touch(t, th[t].conn) /\ Release(t)
    /\ UNCHANGED <<ssh, sftp, dialect, generation, far, forked, calls, heldAtFork>>

(* `_close_sftp_channel`.                                                  *)
CloseChannel(t) ==
    /\ At(t, "close channel") /\ lock[Of(t)] = 0
    /\ LET p == Of(t) IN
       /\ DropIfForked(p)
       /\ IF sftp'[p] = 0 THEN UNCHANGED <<channels, crossed>>
          ELSE channels' = channels \ {sftp[p]} /\ Touch(t, sftp[p])
    /\ Ends(t, "done")
    /\ UNCHANGED <<lock, opened, dead, running, forked, calls, heldAtFork>>

-----------------------------------------------------------------------------
(* A command.  `shell_flavour` runs one to learn the shell, with the lock. *)
Flavour(t) ==
    /\ At(t, "flavour") /\ CanLock(t)
    /\ IF dialect[Of(t)] THEN Goes(t, "ssh") /\ UNCHANGED lock
       ELSE Take(t) /\ GoesThen(t, "ssh", "detect")
    /\ UNCHANGED <<cache, far, forked, calls, history>>

Detect(t) ==
    /\ At(t, "detect")
    /\ \/ /\ Alive(th[t].conn)
          /\ dialect' = [dialect EXCEPT ![Of(t)] = TRUE]
          /\ GoesThen(t, "ssh", "none")
       \/ Ends(t, "failed") /\ UNCHANGED dialect
    /\ Release(t) /\ Touch(t, th[t].conn)
    /\ UNCHANGED <<ssh, sftp, login, generation, far, forked, calls, heldAtFork>>

(* `create_process`: it starts the command, or is refused, or fails when   *)
(* that is not known.                                                      *)
Create(t) ==
    /\ At(t, "create")
    /\ \/ /\ Alive(th[t].conn)
          /\ running' = running \cup {th[t].cmd}
          /\ \/ Goes(t, "wait")
             \/ Ends(t, "failed")
       \/ Ends(t, "failed") /\ UNCHANGED running
    /\ Touch(t, th[t].conn)
    /\ UNCHANGED <<lock, cache, opened, dead, channels, forked, calls, heldAtFork>>

(* `wait`, which ends with the channel: with the command, or when the      *)
(* connection is lost; or its time passes, and `_abandon` asks the command *)
(* to end.                                                                 *)
ChannelClosed(t) == th[t].cmd \notin running \/ ~Alive(th[t].conn)

Wait(t) ==
    /\ At(t, "wait")
    /\ IF ChannelClosed(t) THEN Ends(t, "done") ELSE Goes(t, "terminate")
    /\ UNCHANGED <<lock, cache, far, forked, calls, history>>

AbandonTrusting(t) == Ends(t, "stopped")      \* Mutant: a TERM is obeyed.
Abandon(t) == Ends(t, IF ChannelClosed(t) THEN "stopped" ELSE "orphaned")

Terminate(t) ==
    /\ At(t, "terminate")
    /\ Abandon(t)
    /\ UNCHANGED <<lock, cache, far, forked, calls, history>>

-----------------------------------------------------------------------------
(* `close`: the SFTP backend first, then the connection, whatever the      *)
(* first raised.                                                           *)
Close(t) ==
    /\ At(t, "close") /\ Take(t)
    /\ LET p == Of(t) IN
       /\ DropIfForked(p)
       /\ IF IsForked(p) THEN Goes(t, "closed") ELSE GoesFrom(t, "invalidate", ssh[p])
    /\ UNCHANGED <<far, forked, calls, history>>

InvalidateRaises(t) ==     \* Mutant: what it raises ends the close.
    \/ Goes(t, "hang up")
    \/ sftp[Of(t)] # 0 /\ Goes(t, "closed")
Invalidates(t) == Goes(t, "hang up")

Invalidate(t) ==
    /\ At(t, "invalidate")
    /\ LET p == Of(t) IN
       /\ login' = [login EXCEPT ![p] = 0]
       /\ sftp' = [sftp EXCEPT ![p] = 0]
       /\ IF sftp[p] = 0 THEN UNCHANGED <<channels, crossed>>
          ELSE channels' = channels \ {sftp[p]} /\ Touch(t, sftp[p])
       /\ Invalidates(t)
    /\ UNCHANGED <<lock, ssh, dialect, generation, opened, dead, running, forked, calls, heldAtFork>>

HangUp(t) ==
    /\ At(t, "hang up")
    /\ LET p == Of(t) IN
       /\ ssh' = [ssh EXCEPT ![p] = 0]
       /\ dead' = IF ssh[p] = 0 THEN dead ELSE dead \cup {ssh[p]}
       /\ IF ssh[p] = 0 THEN UNCHANGED crossed ELSE Touch(t, ssh[p])
    /\ Goes(t, "closed")
    /\ UNCHANGED <<lock, sftp, login, dialect, generation, opened, channels, running,
                   forked, calls, heldAtFork>>

Closed(t) ==
    /\ At(t, "closed")
    /\ Ends(t, "done") /\ Release(t)
    /\ UNCHANGED <<cache, far, forked, calls, history>>

-----------------------------------------------------------------------------
(* Thread 1 forks between two calls; in the child there is no thread 2 to  *)
(* give a lock back.                                                       *)
Fork ==
    /\ ~forked /\ ~Busy(1)
    /\ forked' = TRUE
    /\ heldAtFork' = (lock[1] # 0)
    /\ lock' = [lock EXCEPT ![2] = lock[1]]
    /\ ssh' = [ssh EXCEPT ![2] = ssh[1]] /\ sftp' = [sftp EXCEPT ![2] = sftp[1]]
    /\ login' = [login EXCEPT ![2] = login[1]]
    /\ dialect' = [dialect EXCEPT ![2] = dialect[1]]
    /\ generation' = [generation EXCEPT ![2] = generation[1]]
    /\ UNCHANGED <<far, th, calls, crossed>>

(* The server: a connection is lost, a command ends.                       *)
Lose ==
    /\ \E c \in DOMAIN opened: c \notin dead /\ dead' = dead \cup {c}
    /\ UNCHANGED <<lock, cache, opened, channels, running, forked, th, calls, history>>

CommandEnds ==
    /\ \E c \in running: running' = running \ {c}
    /\ UNCHANGED <<lock, cache, opened, dead, channels, forked, th, calls, history>>

Step(t) ==
    \/ Access(t) \/ Dial(t) \/ Backend(t) \/ Use(t) \/ Relative(t) \/ Login(t) \/ CloseChannel(t)
    \/ Flavour(t) \/ Detect(t) \/ Create(t) \/ Wait(t) \/ Terminate(t)
    \/ Close(t) \/ Invalidate(t) \/ HangUp(t) \/ Closed(t)

Next ==
    \/ \E t \in Threads:
           Step(t) \/ \E op \in Calls[t]: Begin(t, op)
    \/ Fork \/ Lose \/ CommandEnds

Spec == Init /\ [][Next]_vars /\ \A t \in Threads: WF_vars(Step(t))

-----------------------------------------------------------------------------
(* Properties. *)

(* Every variable keeps its kind. *)
TypeOK ==
    /\ \A p \in Procs: /\ lock[p] \in Threads \cup {0}
                       /\ {ssh[p], sftp[p], login[p]} \subseteq DOMAIN opened \cup {0}
                       /\ dialect[p] \in BOOLEAN /\ generation[p] \in {0, 1, 2}
    /\ dead \subseteq DOMAIN opened /\ channels \subseteq DOMAIN opened
    /\ running \subseteq 1 .. MaxCalls /\ calls \in 0 .. MaxCalls

(* "Dropping WITHOUT closing is the only safe move": after a fork no       *)
(* process uses or closes a connection, or a channel, of the other.        *)
OwnOnly == ~crossed

(* A live connection is the one its process has cached, so that `close`    *)
(* finds it; and a close, whether it raised or not, has closed the one     *)
(* there was.                                                              *)
ClosesIt ==
    /\ \A c \in DOMAIN opened: c \notin dead => ssh[opened[c]] = c
    /\ \A t \in Threads: th[t].end = "closed" => ~Alive(th[t].was)

(* The backend that a request is given is that of the connection there was *)
(* when it asked, after any number of reconnects; and a channel that is    *)
(* open while nobody holds the lock is one that a `close` will find.       *)
BackendCurrent ==
    /\ \A t \in Threads: At(t, "use") => th[t].conn = th[t].was
    /\ \A c \in channels \ dead: lock[opened[c]] = 0 => sftp[opened[c]] = c

(* A command that timed out without being called orphaned has ended,       *)
(* unless the connection was lost as it was asked to.                      *)
StoppedIsOver ==
    \A t \in Threads: th[t].end = "stopped" => th[t].cmd \notin running \/ th[t].conn \in dead

(* There is one connection in each process, which all of it uses, and what *)
(* was stopped over it is over.                                            *)
ConnectionSound == TypeOK /\ OwnOnly /\ ClosesIt /\ BackendCurrent /\ StoppedIsOver

(* Calls end: the lock is given back on every way out.  Not so in a child  *)
(* forked while another thread held it.                                    *)
CallsEnd == \A t \in Threads: (Busy(t) /\ ~(t = Child /\ heldAtFork)) ~> ~Busy(t)
=============================================================================
