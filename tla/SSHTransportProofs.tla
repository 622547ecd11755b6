------------------------- MODULE SSHTransportProofs -------------------------
(***************************************************************************)
(* What SSHTransport promises for any number of calls and connections,     *)
(* whatever each thread calls.                                             *)
(***************************************************************************)
EXTENDS SSHSessions, SequenceTheorems, TLAPS

USE DEF cache, far, history, At

(* What a thread is doing.                                                 *)
Words == Ops \cup {"none", "idle", "ssh", "flavour", "dial", "backend", "use", "login", "detect",
                   "create", "wait", "terminate", "invalidate", "hang up", "closed", "stopped"}

Doings == [op: Words, at: Words, then: Words, conn: Nat, was: Nat, cmd: Nat, end: Words]
Typed == th \in [Threads -> Doings]

Sane(r) ==
    /\ r.at # "idle" => r.end = "none"
    /\ r.at = "idle" => r.op = "none"
    /\ r.op = "close" <=> r.at \in {"close", "invalidate", "hang up", "closed"}
    /\ r.at = "close" => r.was = 0
    /\ r.then \in {"none", "login", "detect"}
    /\ r.at = "flavour" => r.then = "none"

Doing == \A t \in Threads: Sane(th[t])

(* What each process has.                                                  *)
Having ==
    /\ lock \in [Procs -> Threads \cup {0}] /\ generation \in [Procs -> {0, 1, 2}]
    /\ ssh \in [Procs -> Nat] /\ sftp \in [Procs -> Nat] /\ login \in [Procs -> Nat]
    /\ dialect \in [Procs -> BOOLEAN]
    /\ opened \in Seq(Procs)

(* A thread at work with the connection or the caches has the lock.        *)
Locks(r) ==
    \/ r.at \in {"dial", "backend", "login", "detect", "invalidate", "hang up", "closed"}
    \/ r.at = "ssh" /\ r.then # "none"

Locked == \A t \in Threads: Locks(th[t]) => lock[Of(t)] = t

(* A thread works in its own process, in a child once there is one.        *)
WithConn == {"backend", "use", "login", "detect", "create", "wait", "terminate"}
Within == WithConn \cup {"dial", "invalidate", "hang up"}

Own ==
    /\ \A t \in Threads: th[t].at \in Within => generation[Of(t)] = Of(t)
    /\ ~forked => th[Child].at = "idle" /\ generation[2] = 0
    /\ generation[1] # 2

OnOwn ==
    \A t \in Threads: th[t].at \in WithConn =>
        th[t].conn \in DOMAIN opened /\ opened[th[t].conn] = Of(t)

(* What a process g[p] of which is known has cached is its own, once it    *)
(* has looked; before that it has cached nothing, and opened nothing.      *)
Neat(f, g, o) ==
    \A p \in Procs:
        /\ f[p] # 0 => f[p] \in DOMAIN o /\ (g[p] = p => o[f[p]] = p)
        /\ g[p] = 0 => f[p] = 0

Cached == /\ Neat(ssh, generation, opened) /\ Neat(sftp, generation, opened)
          /\ Neat(login, generation, opened)

Unopened == \A p \in Procs: generation[p] # p => \A c \in DOMAIN opened: opened[c] # p

(* The connection that is open is the one cached: there is none at a dial, *)
(* and a thread with the lock knows the one there is.                      *)
OneOpen == \A c \in DOMAIN opened: c \notin dead => ssh[opened[c]] = c

Fits(r, c, d) ==
    /\ r.at = "dial" => c = 0 \/ c \in d
    /\ r.at \in {"invalidate", "hang up"} => r.was = c
    /\ r.at = "backend" => r.conn = c

Steady == \A t \in Threads: Fits(th[t], ssh[Of(t)], dead)

(* A close has closed the one there was, and a request goes to the one     *)
(* there was.                                                              *)
Past(r, d) ==
    /\ r.at = "closed" \/ r.end = "closed" => r.was = 0 \/ r.was \in d
    /\ r.at = "use" => r.conn = r.was

Kept == \A t \in Threads: Past(th[t], dead)

(* An open channel, or one a thread may open, is that of the backend       *)
(* cached, but where a close is between the backend and the connection.    *)
MayHave(c) == c \in channels \/ \E t \in Threads: th[t].at = "use" /\ th[t].conn = c
HangsUp(p) == \E u \in Threads: th[u].at = "hang up" /\ Of(u) = p

Channels ==
    \A c \in DOMAIN opened \ dead: MayHave(c) => sftp[opened[c]] = c \/ HangsUp(opened[c])

(* A command is of one call.                                               *)
Numbered ==
    /\ \A t \in Threads: th[t].cmd <= calls
    /\ \A t \in Threads: th[t].at # "idle" => th[t].cmd >= 1
    /\ \A t, u \in Threads: t # u /\ th[t].cmd # 0 => th[t].cmd # th[u].cmd
    /\ running \subseteq 1 .. calls

Stops(r, now, d) == r.end = "stopped" => r.cmd \notin now \/ r.conn \in d

Over == \A t \in Threads: Stops(th[t], running, dead)

TransportInv ==
    /\ TypeOK /\ Typed /\ Doing /\ Having /\ Locked /\ Own /\ OnOwn /\ Cached /\ Unopened
    /\ OneOpen /\ Steady /\ Kept /\ Channels /\ Numbered /\ Over /\ OwnOnly

-----------------------------------------------------------------------------
(* What a step does to no thread but t. *)
Others(t) == \A u \in Threads \ {t}: th'[u] = th[u]

LEMMA WordsAre ==
  /\ \A w \in Ops: w \in Words
  /\ "none" \in Words /\ "idle" \in Words /\ "ssh" \in Words /\ "flavour" \in Words
  /\ "dial" \in Words /\ "backend" \in Words /\ "use" \in Words /\ "login" \in Words
  /\ "detect" \in Words /\ "create" \in Words /\ "wait" \in Words /\ "relative" \in Words
  /\ "terminate" \in Words /\ "invalidate" \in Words /\ "hang up" \in Words
  /\ "closed" \in Words /\ "stopped" \in Words
BY DEF Words, Ops

(* A thread that does nothing. *)
LEMMA IdleIs ==
  /\ Idle \in Doings
  /\ Idle.op = "none" /\ Idle.at = "idle" /\ Idle.then = "none"
  /\ Idle.conn = 0 /\ Idle.was = 0 /\ Idle.cmd = 0 /\ Idle.end = "none"
BY WordsAre DEF Idle, Doings

(* What the moves of a thread do to it, and that they do nothing to others. *)
LEMMA GoesIs ==
  ASSUME Typed, NEW t \in Threads,
         NEW pc \in Words, Goes(t, pc)
  PROVE  /\ Typed'
         /\ th'[t].op = th[t].op /\ th'[t].at = pc /\ th'[t].then = th[t].then
         /\ th'[t].conn = th[t].conn /\ th'[t].was = th[t].was
         /\ th'[t].cmd = th[t].cmd /\ th'[t].end = th[t].end
         /\ Others(t)
<1>1. th[t] \in Doings
  BY DEF Typed
<1>2. th' = [th EXCEPT ![t] = [th[t] EXCEPT !.at = pc]]
  BY DEF Goes
<1>3. [th[t] EXCEPT !.at = pc] \in Doings
  BY <1>1, WordsAre DEF Doings
<1>4. th'[t] = [th[t] EXCEPT !.at = pc]
  BY <1>2 DEF Typed
<1>5. /\ th'[t].op = th[t].op /\ th'[t].at = pc /\ th'[t].then = th[t].then
      /\ th'[t].conn = th[t].conn /\ th'[t].was = th[t].was
      /\ th'[t].cmd = th[t].cmd /\ th'[t].end = th[t].end
  BY <1>1, <1>4 DEF Doings
<1> QED
  BY <1>2, <1>3, <1>5 DEF Typed, Others

LEMMA ThenIs ==
  ASSUME Typed, NEW t \in Threads,
         NEW pc \in Words, NEW next \in Words, GoesThen(t, pc, next)
  PROVE  /\ Typed'
         /\ th'[t].op = th[t].op /\ th'[t].at = pc /\ th'[t].then = next
         /\ th'[t].conn = th[t].conn /\ th'[t].was = th[t].was
         /\ th'[t].cmd = th[t].cmd /\ th'[t].end = th[t].end
         /\ Others(t)
<1>1. th[t] \in Doings
  BY DEF Typed
<1>2. th' = [th EXCEPT ![t] = [th[t] EXCEPT !.at = pc, !.then = next]]
  BY DEF GoesThen
<1>3. [th[t] EXCEPT !.at = pc, !.then = next] \in Doings
  BY <1>1, WordsAre DEF Doings
<1>4. th'[t] = [th[t] EXCEPT !.at = pc, !.then = next]
  BY <1>2 DEF Typed
<1>5. /\ th'[t].op = th[t].op /\ th'[t].at = pc /\ th'[t].then = next
      /\ th'[t].conn = th[t].conn /\ th'[t].was = th[t].was
      /\ th'[t].cmd = th[t].cmd /\ th'[t].end = th[t].end
  BY <1>1, <1>4 DEF Doings
<1> QED
  BY <1>2, <1>3, <1>5 DEF Typed, Others

LEMMA OverIs ==
  ASSUME Typed, NEW t \in Threads,
         NEW pc \in Words, NEW c \in Nat, GoesOver(t, pc, c)
  PROVE  /\ Typed'
         /\ th'[t].op = th[t].op /\ th'[t].at = pc /\ th'[t].then = th[t].then
         /\ th'[t].conn = c /\ th'[t].was = th[t].was
         /\ th'[t].cmd = th[t].cmd /\ th'[t].end = th[t].end
         /\ Others(t)
<1>1. th[t] \in Doings
  BY DEF Typed
<1>2. th' = [th EXCEPT ![t] = [th[t] EXCEPT !.at = pc, !.conn = c]]
  BY DEF GoesOver
<1>3. [th[t] EXCEPT !.at = pc, !.conn = c] \in Doings
  BY <1>1, WordsAre DEF Doings
<1>4. th'[t] = [th[t] EXCEPT !.at = pc, !.conn = c]
  BY <1>2 DEF Typed
<1>5. /\ th'[t].op = th[t].op /\ th'[t].at = pc /\ th'[t].then = th[t].then
      /\ th'[t].conn = c /\ th'[t].was = th[t].was
      /\ th'[t].cmd = th[t].cmd /\ th'[t].end = th[t].end
  BY <1>1, <1>4 DEF Doings
<1> QED
  BY <1>2, <1>3, <1>5 DEF Typed, Others

LEMMA FromIs ==
  ASSUME Typed, NEW t \in Threads,
         NEW pc \in Words, NEW c \in Nat, GoesFrom(t, pc, c)
  PROVE  /\ Typed'
         /\ th'[t].op = th[t].op /\ th'[t].at = pc /\ th'[t].then = th[t].then
         /\ th'[t].conn = th[t].conn /\ th'[t].was = c
         /\ th'[t].cmd = th[t].cmd /\ th'[t].end = th[t].end
         /\ Others(t)
<1>1. th[t] \in Doings
  BY DEF Typed
<1>2. th' = [th EXCEPT ![t] = [th[t] EXCEPT !.at = pc, !.was = c]]
  BY DEF GoesFrom
<1>3. [th[t] EXCEPT !.at = pc, !.was = c] \in Doings
  BY <1>1, WordsAre DEF Doings
<1>4. th'[t] = [th[t] EXCEPT !.at = pc, !.was = c]
  BY <1>2 DEF Typed
<1>5. /\ th'[t].op = th[t].op /\ th'[t].at = pc /\ th'[t].then = th[t].then
      /\ th'[t].conn = th[t].conn /\ th'[t].was = c
      /\ th'[t].cmd = th[t].cmd /\ th'[t].end = th[t].end
  BY <1>1, <1>4 DEF Doings
<1> QED
  BY <1>2, <1>3, <1>5 DEF Typed, Others

LEMMA UsesIs ==
  ASSUME Typed, NEW t \in Threads,
         ssh[Of(t)] \in Nat, NEW c \in Nat, Uses(t, c)
  PROVE  /\ Typed'
         /\ th'[t].op = th[t].op /\ th'[t].at = "use" /\ th'[t].then = th[t].then
         /\ th'[t].conn = c /\ th'[t].was = ssh[Of(t)]
         /\ th'[t].cmd = th[t].cmd /\ th'[t].end = th[t].end
         /\ Others(t)
<1>1. th[t] \in Doings
  BY DEF Typed
<1>2. th' = [th EXCEPT ![t] = [th[t] EXCEPT !.at = "use", !.conn = c, !.was = ssh[Of(t)]]]
  BY DEF Uses
<1>3. [th[t] EXCEPT !.at = "use", !.conn = c, !.was = ssh[Of(t)]] \in Doings
  BY <1>1, WordsAre DEF Doings
<1>4. th'[t] = [th[t] EXCEPT !.at = "use", !.conn = c, !.was = ssh[Of(t)]]
  BY <1>2 DEF Typed
<1>5. /\ th'[t].op = th[t].op /\ th'[t].at = "use" /\ th'[t].then = th[t].then
      /\ th'[t].conn = c /\ th'[t].was = ssh[Of(t)]
      /\ th'[t].cmd = th[t].cmd /\ th'[t].end = th[t].end
  BY <1>1, <1>4 DEF Doings
<1> QED
  BY <1>2, <1>3, <1>5 DEF Typed, Others

LEMMA StartsIs ==
  ASSUME Typed, NEW t \in Threads,
         calls \in Nat, NEW op \in Ops, Starts(t, op)
  PROVE  /\ Typed'
         /\ th'[t].op = op /\ th'[t].at = FirstPlace(op) /\ th'[t].then = "none"
         /\ th'[t].conn = 0 /\ th'[t].was = 0
         /\ th'[t].cmd = calls + 1 /\ th'[t].end = "none"
         /\ Others(t)
<1>1. th[t] \in Doings
  BY DEF Typed
<1>2. th' = [th EXCEPT ![t] = [Idle EXCEPT !.op = op, !.cmd = calls + 1, !.at = FirstPlace(op)]]
  BY DEF Starts
<1>3. [Idle EXCEPT !.op = op, !.cmd = calls + 1, !.at = FirstPlace(op)] \in Doings
  <2>1. FirstPlace(op) \in Words
    BY DEF FirstPlace, Ops, Words
  <2>2. calls + 1 \in Nat
    OBVIOUS
  <2> QED
    BY <2>1, <2>2, IdleIs, WordsAre DEF Doings
<1>4. th'[t] = [Idle EXCEPT !.op = op, !.cmd = calls + 1, !.at = FirstPlace(op)]
  BY <1>2 DEF Typed
<1>5. /\ th'[t].op = op /\ th'[t].at = FirstPlace(op) /\ th'[t].then = "none"
      /\ th'[t].conn = 0 /\ th'[t].was = 0
      /\ th'[t].cmd = calls + 1 /\ th'[t].end = "none"
  BY <1>1, <1>4, IdleIs DEF Doings
<1> QED
  BY <1>2, <1>3, <1>5 DEF Typed, Others

LEMMA EndsIs ==
  ASSUME Typed, NEW t \in Threads, NEW how, how # "stopped", th[t].op # "close", Ends(t, how)
  PROVE  Typed' /\ th'[t] = Idle /\ Others(t)
<1>1. th' = [th EXCEPT ![t] = Idle]
  BY DEF Ends, Rests
<1> QED
  BY <1>1, IdleIs DEF Typed, Others

LEMMA StopsIs ==
  ASSUME Typed, NEW t \in Threads, Ends(t, "stopped")
  PROVE  /\ Typed' /\ Others(t)
         /\ th'[t].op = "none" /\ th'[t].at = "idle" /\ th'[t].then = "none"
         /\ th'[t].conn = th[t].conn /\ th'[t].was = 0
         /\ th'[t].cmd = th[t].cmd /\ th'[t].end = "stopped"
<1> DEFINE left == [Idle EXCEPT !.end = "stopped", !.cmd = th[t].cmd, !.conn = th[t].conn]
<1>1. th[t] \in Doings
  BY DEF Typed
<1>2. th' = [th EXCEPT ![t] = left]
  BY DEF Ends, Rests
<1>3. left \in Doings
  BY <1>1, IdleIs, WordsAre DEF Doings
<1>4. /\ left.op = "none" /\ left.at = "idle" /\ left.then = "none"
      /\ left.conn = th[t].conn /\ left.was = 0
      /\ left.cmd = th[t].cmd /\ left.end = "stopped"
  BY <1>1, IdleIs DEF Doings
<1> HIDE DEF left
<1> QED
  BY <1>2, <1>3, <1>4 DEF Typed, Others

LEMMA ClosedIs ==
  ASSUME Typed, NEW t \in Threads, th[t].op = "close", Ends(t, "done")
  PROVE  /\ Typed' /\ Others(t)
         /\ th'[t].op = "none" /\ th'[t].at = "idle" /\ th'[t].then = "none"
         /\ th'[t].conn = 0 /\ th'[t].was = th[t].was
         /\ th'[t].cmd = 0 /\ th'[t].end = "closed"
<1> DEFINE left == [Idle EXCEPT !.end = "closed", !.was = th[t].was]
<1>1. th[t] \in Doings
  BY DEF Typed
<1>2. th' = [th EXCEPT ![t] = left]
  BY DEF Ends, Rests
<1>3. left \in Doings
  BY <1>1, IdleIs, WordsAre DEF Doings
<1>4. /\ left.op = "none" /\ left.at = "idle" /\ left.then = "none"
      /\ left.conn = 0 /\ left.was = th[t].was
      /\ left.cmd = 0 /\ left.end = "closed"
  BY <1>1, IdleIs DEF Doings
<1> HIDE DEF left
<1> QED
  BY <1>2, <1>3, <1>4 DEF Typed, Others

(* A connection that is opened is the newest. *)
LEMMA OpensIs ==
  ASSUME opened \in Seq(Procs), NEW p \in Procs, opened' = Append(opened, p)
  PROVE  LET c == Len(opened) + 1
         IN  /\ opened' \in Seq(Procs) /\ c \in Nat /\ c # 0 /\ c \notin DOMAIN opened
             /\ DOMAIN opened' = DOMAIN opened \cup {c}
             /\ opened'[c] = p /\ \A d \in DOMAIN opened: opened'[d] = opened[d]
OBVIOUS

(* What is known of a thread. *)
LEMMA ThreadIs ==
  ASSUME Typed, NEW t \in Threads
  PROVE  /\ th[t].conn \in Nat /\ th[t].was \in Nat /\ th[t].cmd \in Nat
BY DEF Typed, Doings

-----------------------------------------------------------------------------
(* What each step does to the thread that takes it. *)
Same(t) == /\ th'[t].op = th[t].op /\ th'[t].conn = th[t].conn /\ th'[t].was = th[t].was
           /\ th'[t].cmd = th[t].cmd /\ th'[t].end = th[t].end
At1(t, pc) == Typed' /\ Others(t) /\ Same(t) /\ th'[t].at = pc /\ th'[t].then = th[t].then

LEMMA JustGoes ==
  ASSUME Typed, NEW t \in Threads, NEW pc \in Words, Goes(t, pc)
  PROVE  At1(t, pc)
BY GoesIs DEF At1, Same

LEMMA ThenGoes ==
  ASSUME Typed, NEW t \in Threads, NEW pc \in Words, NEW next \in Words,
         GoesThen(t, pc, next)
  PROVE  Typed' /\ Others(t) /\ Same(t) /\ th'[t].at = pc /\ th'[t].then = next
BY ThenIs DEF Same

LEMMA BeginDoes ==
  ASSUME Typed, TypeOK, NEW t \in Threads, NEW op \in Calls[t], Begin(t, op)
  PROVE  /\ Typed' /\ Others(t) /\ th[t].at = "idle" /\ (t = Child => forked)
         /\ th'[t].op = op /\ th'[t].at \in {"connect", "flavour", "ssh", "close channel", "close"}
         /\ op = "close" <=> th'[t].at = "close"
         /\ th'[t].then = "none" /\ th'[t].conn = 0 /\ th'[t].was = 0
         /\ th'[t].cmd = calls + 1 /\ th'[t].end = "none"
         /\ op \in Ops /\ calls' = calls + 1 /\ calls < MaxCalls
         /\ UNCHANGED <<lock, cache, far, forked, history>>
<1>1. op \in Ops /\ calls \in Nat
  BY SSHAssumption DEF TypeOK
<1> QED
  BY <1>1, StartsIs DEF Begin, Busy, FirstPlace, Ops

(* `Has`: a call to connect is over, another goes on with the connection,  *)
(* under the lock where it needs it.                                       *)
HasIt(t, c) ==
    /\ Typed' /\ Others(t) /\ th'[t].conn = c
    /\ th'[t].op = th[t].op /\ th'[t].then = th[t].then /\ th'[t].was = th[t].was
    /\ th'[t].cmd = th[t].cmd /\ th'[t].end = th[t].end
    /\ \/ /\ th'[t].at \in {"backend", "detect", "login"}
          /\ lock' = [lock EXCEPT ![Of(t)] = t]
       \/ /\ th'[t].at \in {"relative", "create"}
          /\ lock' = [lock EXCEPT ![Of(t)] = 0]

LEMMA HasDoes ==
  ASSUME Typed, Doing, NEW t \in Threads, th[t].op # "close", NEW c \in Nat, Has(t, c)
  PROVE  \/ Typed' /\ Others(t) /\ th'[t] = Idle /\ lock' = [lock EXCEPT ![Of(t)] = 0]
         \/ HasIt(t, c)
<1>1. NextPlace(t) \in {"idle", "backend", "detect", "login", "relative", "create"}
  BY DEF NextPlace, Doing, Sane
<1>2. CASE NextPlace(t) = "idle"
  BY <1>2, EndsIs DEF Has
<1>3. CASE NextPlace(t) # "idle"
  <2>1. NextPlace(t) \in Words
    BY <1>1, WordsAre
  <2>2. GoesOver(t, NextPlace(t), c)
    BY <1>3 DEF Has
  <2> QED
    <3>1. /\ Typed' /\ Others(t) /\ th'[t].conn = c /\ th'[t].at = NextPlace(t)
          /\ th'[t].op = th[t].op /\ th'[t].then = th[t].then /\ th'[t].was = th[t].was
          /\ th'[t].cmd = th[t].cmd /\ th'[t].end = th[t].end
      BY <2>1, <2>2, OverIs
    <3> QED
      BY <1>1, <1>3, <3>1 DEF Has, HasIt
<1> QED
  BY <1>2, <1>3

LEMMA AccessDoes ==
  ASSUME Typed, Doing, Having, NEW t \in Threads, Access(t)
  PROVE  /\ th[t].at \in {"connect", "ssh"} /\ th[t].op # "close" /\ lock[Of(t)] \in {0, t}
         /\ generation' = [generation EXCEPT ![Of(t)] = Of(t)]
         /\ \/ /\ generation[Of(t)] \notin {0, Of(t)}
               /\ ssh' = [ssh EXCEPT ![Of(t)] = 0] /\ sftp' = [sftp EXCEPT ![Of(t)] = 0]
               /\ login' = [login EXCEPT ![Of(t)] = 0]
            \/ generation[Of(t)] \in {0, Of(t)} /\ UNCHANGED <<ssh, sftp, login>>
         /\ \/ /\ At1(t, "dial") /\ lock' = [lock EXCEPT ![Of(t)] = t]
               /\ ssh'[Of(t)] = 0 \/ ssh'[Of(t)] \in dead
            \/ /\ Typed' /\ Others(t) /\ th'[t] = Idle /\ lock' = [lock EXCEPT ![Of(t)] = 0]
            \/ /\ HasIt(t, ssh[Of(t)]) /\ ssh[Of(t)] # 0 /\ generation[Of(t)] \in {0, Of(t)}
               /\ UNCHANGED <<ssh, sftp, login>>
         /\ UNCHANGED <<dialect, far, forked, calls, history>>
<1>1. /\ th[t].at \in {"connect", "ssh"} /\ th[t].op # "close" /\ lock[Of(t)] \in {0, t}
      /\ generation' = [generation EXCEPT ![Of(t)] = Of(t)]
      /\ UNCHANGED <<dialect, far, forked, calls, history>>
  BY DEF Access, Doing, Sane, CanLock, DropIfForked
<1>2. \/ /\ generation[Of(t)] \notin {0, Of(t)}
         /\ ssh' = [ssh EXCEPT ![Of(t)] = 0] /\ sftp' = [sftp EXCEPT ![Of(t)] = 0]
         /\ login' = [login EXCEPT ![Of(t)] = 0]
      \/ generation[Of(t)] \in {0, Of(t)} /\ UNCHANGED <<ssh, sftp, login>>
  BY DEF Access, DropIfForked, IsForked, Forget
<1>3. /\ ssh'[Of(t)] \in Nat
      /\ ssh'[Of(t)] # 0 => generation[Of(t)] \in {0, Of(t)} /\ UNCHANGED <<ssh, sftp, login>>
  BY <1>2 DEF Having, Of, Procs
<1>4. CASE Reusable(Of(t))
  <2>1. /\ generation[Of(t)] \in {0, Of(t)} /\ UNCHANGED <<ssh, sftp, login>>
        /\ ssh[Of(t)] # 0 /\ ssh[Of(t)] \in Nat /\ Has(t, ssh[Of(t)])
    BY <1>3, <1>4 DEF Access, Reusable
  <2> QED
    BY <1>1, <1>2, <2>1, HasDoes
<1>5. CASE ~Reusable(Of(t))
  BY <1>1, <1>2, <1>5, GoesIs, WordsAre DEF Access, Reusable, At1, Same
<1> QED
  BY <1>4, <1>5

LEMMA DialDoes ==
  ASSUME Typed, Doing, Having, NEW t \in Threads, Dial(t)
  PROVE  /\ At(t, "dial") /\ th[t].op # "close"
         /\ \/ /\ Len(opened) + 1 \in Conns
               /\ opened' = Append(opened, Of(t))
               /\ ssh' = [ssh EXCEPT ![Of(t)] = Len(opened) + 1]
               /\ \/ /\ Typed' /\ Others(t) /\ th'[t] = Idle
                     /\ lock' = [lock EXCEPT ![Of(t)] = 0]
                  \/ HasIt(t, Len(opened) + 1)
            \/ /\ Typed' /\ Others(t) /\ th'[t] = Idle
               /\ lock' = [lock EXCEPT ![Of(t)] = 0] /\ UNCHANGED <<opened, ssh>>
         /\ UNCHANGED <<sftp, login, dialect, generation, dead, channels, running, forked,
                        calls, history>>
<1>1. At(t, "dial") /\ th[t].op # "close"
  BY DEF Dial, Doing, Sane
<1>2. Len(opened) + 1 \in Nat
  BY DEF Having
<1>3. CASE Ends(t, "failed") /\ Release(t) /\ UNCHANGED <<opened, ssh>>
  BY <1>1, <1>3, EndsIs DEF Dial, Release
<1>4. CASE /\ Len(opened) + 1 \in Conns /\ opened' = Append(opened, Of(t))
           /\ ssh' = [ssh EXCEPT ![Of(t)] = Len(opened) + 1]
           /\ Has(t, Len(opened) + 1)
  BY <1>1, <1>2, <1>4, HasDoes DEF Dial
<1> QED
  BY <1>3, <1>4 DEF Dial

(* A thread has the backend of the connection there is. *)
Asks(t) ==
    /\ Typed' /\ Others(t) /\ th'[t].at = "use" /\ th'[t].was = ssh[Of(t)]
    /\ th'[t].conn = th[t].conn /\ th'[t].op = th[t].op /\ th'[t].then = th[t].then
    /\ th'[t].cmd = th[t].cmd /\ th'[t].end = th[t].end

LEMMA BackendDoes ==
  ASSUME Typed, Doing, Having, NEW t \in Threads, Backend(t)
  PROVE  /\ At(t, "backend")
         /\ \/ /\ sftp[Of(t)] = th[t].conn
               /\ Asks(t) /\ UNCHANGED <<sftp, channels, crossed>>
            \/ /\ sftp[Of(t)] # th[t].conn /\ channels' = channels \ {sftp[Of(t)]}
               /\ sftp[Of(t)] # 0 => crossed' = (crossed \/ opened[sftp[Of(t)]] # Of(t))
               /\ sftp[Of(t)] = 0 => crossed' = crossed
               /\ \/ sftp' = [sftp EXCEPT ![Of(t)] = th[t].conn] /\ Asks(t)
                  \/ /\ sftp[Of(t)] # 0 /\ sftp' = [sftp EXCEPT ![Of(t)] = 0]
                     /\ Typed' /\ Others(t) /\ th'[t] = Idle
         /\ lock' = [lock EXCEPT ![Of(t)] = 0]
         /\ UNCHANGED <<ssh, login, dialect, generation, opened, dead, running, forked, calls,
                        heldAtFork>>
<1>1. At(t, "backend") /\ th[t].op # "close" /\ ssh[Of(t)] \in Nat /\ th[t].conn \in Nat
  BY ThreadIs DEF Backend, Doing, Sane, Having, Of, Procs
<1>2. ASSUME Uses(t, th[t].conn) PROVE Asks(t)
  BY <1>1, <1>2, UsesIs DEF Asks
<1>3. ASSUME Ends(t, "failed") PROVE Typed' /\ Others(t) /\ th'[t] = Idle
  BY <1>1, <1>3, EndsIs
<1>4. CASE sftp[Of(t)] = th[t].conn
  BY <1>1, <1>2, <1>4 DEF Backend, Keeps, Release
<1>5. CASE sftp[Of(t)] # th[t].conn
  BY <1>1, <1>2, <1>3, <1>5 DEF Backend, Keeps, Release, Touch
<1> QED
  BY <1>4, <1>5

LEMMA UseDoes ==
  ASSUME Typed, Doing, Having, NEW t \in Threads, Use(t)
  PROVE  /\ At(t, "use") /\ Typed' /\ Others(t) /\ th'[t] = Idle
         /\ \/ th[t].conn \notin dead /\ channels' = channels \cup {th[t].conn}
            \/ UNCHANGED channels
         /\ crossed' = (crossed \/ opened[th[t].conn] # Of(t))
         /\ UNCHANGED <<lock, cache, opened, dead, running, forked, calls, heldAtFork>>
<1>1. At(t, "use") /\ th[t].op # "close"
  BY DEF Use, Doing, Sane
<1> QED
  BY <1>1, EndsIs DEF Use, Alive, Touch

LEMMA RelativeDoes ==
  ASSUME Typed, Doing, Having, NEW t \in Threads, Relative(t)
  PROVE  /\ At(t, "relative") /\ lock[Of(t)] \in {0, t}
         /\ \/ Typed' /\ Others(t) /\ th'[t] = Idle /\ UNCHANGED lock
            \/ /\ Typed' /\ Others(t) /\ Same(t) /\ th'[t].at = "ssh" /\ th'[t].then = "login"
               /\ lock' = [lock EXCEPT ![Of(t)] = t]
         /\ UNCHANGED <<cache, far, forked, calls, history>>
<1>1. At(t, "relative") /\ th[t].op # "close"
  BY DEF Relative, Doing, Sane
<1>2. CASE login[Of(t)] # 0
  BY <1>1, <1>2, EndsIs DEF Relative, CanLock
<1>3. CASE login[Of(t)] = 0
  <2>1. GoesThen(t, "ssh", "login")
    BY <1>3 DEF Relative
  <2>2. Typed' /\ Others(t) /\ Same(t) /\ th'[t].at = "ssh" /\ th'[t].then = "login"
    BY <2>1, WordsAre, ThenGoes
  <2> QED
    BY <1>1, <1>3, <2>2 DEF Relative, Take, CanLock
<1> QED
  BY <1>2, <1>3

LEMMA LoginDoes ==
  ASSUME Typed, Doing, Having, NEW t \in Threads, Login(t)
  PROVE  /\ At(t, "login") /\ Typed' /\ Others(t) /\ th'[t] = Idle
         /\ \/ login' = [login EXCEPT ![Of(t)] = th[t].conn]
            \/ UNCHANGED login
         /\ lock' = [lock EXCEPT ![Of(t)] = 0]
         /\ crossed' = (crossed \/ opened[th[t].conn] # Of(t))
         /\ UNCHANGED <<ssh, sftp, dialect, generation, far, forked, calls, heldAtFork>>
<1>1. At(t, "login") /\ th[t].op # "close"
  BY DEF Login, Doing, Sane
<1> QED
  BY <1>1, EndsIs DEF Login, Alive, Touch, Release

LEMMA CloseChannelDoes ==
  ASSUME Typed, Doing, Having, NEW t \in Threads, CloseChannel(t)
  PROVE  /\ At(t, "close channel") /\ lock[Of(t)] = 0
         /\ Typed' /\ Others(t) /\ th'[t] = Idle
         /\ generation' = [generation EXCEPT ![Of(t)] = Of(t)]
         /\ \/ /\ generation[Of(t)] \notin {0, Of(t)}
               /\ ssh' = [ssh EXCEPT ![Of(t)] = 0] /\ sftp' = [sftp EXCEPT ![Of(t)] = 0]
               /\ login' = [login EXCEPT ![Of(t)] = 0] /\ UNCHANGED <<channels, crossed>>
            \/ /\ generation[Of(t)] \in {0, Of(t)} /\ UNCHANGED <<ssh, sftp, login>>
               /\ \/ sftp[Of(t)] = 0 /\ UNCHANGED <<channels, crossed>>
                  \/ /\ sftp[Of(t)] # 0 /\ channels' = channels \ {sftp[Of(t)]}
                     /\ crossed' = (crossed \/ opened[sftp[Of(t)]] # Of(t))
         /\ UNCHANGED <<lock, dialect, opened, dead, running, forked, calls, heldAtFork>>
<1>1. At(t, "close channel") /\ th[t].op # "close" /\ Of(t) \in Procs
  BY DEF CloseChannel, Doing, Sane, Of, Procs
<1>2. Typed' /\ Others(t) /\ th'[t] = Idle
  BY <1>1, EndsIs DEF CloseChannel
<1>3. CASE generation[Of(t)] \in {0, Of(t)}
  BY <1>1, <1>2, <1>3 DEF CloseChannel, DropIfForked, IsForked, Touch
<1>4. CASE generation[Of(t)] \notin {0, Of(t)}
  <2>1. sftp' = [sftp EXCEPT ![Of(t)] = 0]
    BY <1>4 DEF CloseChannel, DropIfForked, IsForked, Forget
  <2>2. sftp'[Of(t)] = 0
    BY <1>1, <2>1 DEF Having
  <2> QED
    BY <1>1, <1>2, <1>4, <2>2 DEF CloseChannel, DropIfForked, IsForked, Forget
<1> QED
  BY <1>3, <1>4

LEMMA FlavourDoes ==
  ASSUME Typed, Doing, Having, NEW t \in Threads, Flavour(t)
  PROVE  /\ At(t, "flavour") /\ lock[Of(t)] \in {0, t}
         /\ Typed' /\ Others(t) /\ Same(t) /\ th'[t].at = "ssh"
         /\ \/ th'[t].then = "none" /\ UNCHANGED lock
            \/ th'[t].then = "detect" /\ lock' = [lock EXCEPT ![Of(t)] = t]
         /\ UNCHANGED <<cache, far, forked, calls, history>>
<1>1. CASE dialect[Of(t)]
  <2>1. At(t, "flavour") /\ Goes(t, "ssh")
    BY <1>1 DEF Flavour
  <2>2. At1(t, "ssh")
    BY <2>1, WordsAre, JustGoes
  <2>3. th[t].then = "none"
    BY <2>1 DEF At, Doing, Sane
  <2> QED
    BY <1>1, <2>2, <2>3 DEF Flavour, CanLock, At1
<1>2. CASE ~dialect[Of(t)]
  <2>1. GoesThen(t, "ssh", "detect")
    BY <1>2 DEF Flavour
  <2>2. Typed' /\ Others(t) /\ Same(t) /\ th'[t].at = "ssh" /\ th'[t].then = "detect"
    BY <2>1, WordsAre, ThenGoes
  <2> QED
    BY <1>2, <2>2 DEF Flavour, CanLock, Take
<1> QED
  BY <1>1, <1>2

LEMMA DetectDoes ==
  ASSUME Typed, Doing, Having, NEW t \in Threads, Detect(t)
  PROVE  /\ At(t, "detect")
         /\ \/ /\ Typed' /\ Others(t) /\ Same(t) /\ th'[t].at = "ssh" /\ th'[t].then = "none"
               /\ dialect' = [dialect EXCEPT ![Of(t)] = TRUE]
            \/ Typed' /\ Others(t) /\ th'[t] = Idle /\ UNCHANGED dialect
         /\ lock' = [lock EXCEPT ![Of(t)] = 0]
         /\ crossed' = (crossed \/ opened[th[t].conn] # Of(t))
         /\ UNCHANGED <<ssh, sftp, login, generation, far, forked, calls, heldAtFork>>
<1>1. At(t, "detect") /\ th[t].op # "close"
  BY DEF Detect, Doing, Sane
<1>2. CASE Ends(t, "failed") /\ UNCHANGED dialect
  BY <1>1, <1>2, EndsIs DEF Detect, Release, Touch
<1>3. CASE /\ GoesThen(t, "ssh", "none")
           /\ dialect' = [dialect EXCEPT ![Of(t)] = TRUE]
  <2>1. Typed' /\ Others(t) /\ Same(t) /\ th'[t].at = "ssh" /\ th'[t].then = "none"
    BY <1>3, WordsAre, ThenGoes
  <2> QED
    BY <1>1, <1>3, <2>1 DEF Detect, Release, Touch
<1> QED
  BY <1>2, <1>3 DEF Detect

LEMMA CreateDoes ==
  ASSUME Typed, Doing, Having, NEW t \in Threads, Create(t)
  PROVE  /\ At(t, "create")
         /\ \/ At1(t, "wait") /\ running' = running \cup {th[t].cmd}
            \/ /\ Typed' /\ Others(t) /\ th'[t] = Idle
               /\ running' \in {running, running \cup {th[t].cmd}}
         /\ crossed' = (crossed \/ opened[th[t].conn] # Of(t))
         /\ UNCHANGED <<lock, cache, opened, dead, channels, forked, calls, heldAtFork>>
<1>1. At(t, "create") /\ th[t].op # "close"
  BY DEF Create, Doing, Sane
<1> QED
  BY <1>1, EndsIs, GoesIs, WordsAre DEF Create, Alive, Touch, At1, Same

LEMMA WaitDoes ==
  ASSUME Typed, Doing, Having, NEW t \in Threads, Wait(t)
  PROVE  /\ At(t, "wait")
         /\ \/ At1(t, "terminate")
            \/ Typed' /\ Others(t) /\ th'[t] = Idle
         /\ UNCHANGED <<lock, cache, far, forked, calls, history>>
<1>1. /\ At(t, "wait") /\ th[t].op # "close"
      /\ UNCHANGED <<lock, cache, far, forked, calls, history>>
  BY DEF Wait, Doing, Sane
<1>2. Ends(t, "done") \/ Goes(t, "terminate")
  BY DEF Wait
<1>3. At1(t, "terminate") \/ (Typed' /\ Others(t) /\ th'[t] = Idle)
  <2>1. ASSUME Ends(t, "done") PROVE Typed' /\ Others(t) /\ th'[t] = Idle
    BY <1>1, <2>1, EndsIs
  <2>2. ASSUME Goes(t, "terminate") PROVE At1(t, "terminate")
    BY <2>2, GoesIs, WordsAre DEF At1, Same
  <2> QED
    BY <1>2, <2>1, <2>2
<1> QED
  BY <1>1, <1>3

LEMMA TerminateDoes ==
  ASSUME Typed, Doing, Having, NEW t \in Threads, Terminate(t)
  PROVE  /\ At(t, "terminate") /\ Typed' /\ Others(t)
         /\ th'[t].op = "none" /\ th'[t].at = "idle" /\ th'[t].then = "none" /\ th'[t].was = 0
         /\ \/ th'[t] = Idle
            \/ /\ th'[t].end = "stopped" /\ th'[t].cmd = th[t].cmd /\ th'[t].conn = th[t].conn
               /\ th[t].cmd \notin running \/ th[t].conn = 0 \/ th[t].conn \in dead
         /\ UNCHANGED <<lock, cache, far, forked, calls, history>>
<1>1. At(t, "terminate") /\ th[t].op # "close"
  BY DEF Terminate, Doing, Sane
<1>2. CASE ChannelClosed(t)
  BY <1>1, <1>2, StopsIs DEF Terminate, Abandon, ChannelClosed, Alive
<1>3. CASE ~ChannelClosed(t)
  BY <1>1, <1>3, EndsIs, IdleIs DEF Terminate, Abandon
<1> QED
  BY <1>2, <1>3

LEMMA CloseDoes ==
  ASSUME Typed, Doing, Having, NEW t \in Threads, Close(t)
  PROVE  /\ At(t, "close") /\ lock[Of(t)] \in {0, t} /\ lock' = [lock EXCEPT ![Of(t)] = t]
         /\ generation' = [generation EXCEPT ![Of(t)] = Of(t)]
         /\ \/ /\ generation[Of(t)] \notin {0, Of(t)}
               /\ ssh' = [ssh EXCEPT ![Of(t)] = 0] /\ sftp' = [sftp EXCEPT ![Of(t)] = 0]
               /\ login' = [login EXCEPT ![Of(t)] = 0] /\ At1(t, "closed")
            \/ /\ generation[Of(t)] \in {0, Of(t)} /\ UNCHANGED <<ssh, sftp, login>>
               /\ Typed' /\ Others(t) /\ th'[t].at = "invalidate" /\ th'[t].was = ssh[Of(t)]
               /\ th'[t].op = th[t].op /\ th'[t].then = th[t].then /\ th'[t].conn = th[t].conn
               /\ th'[t].cmd = th[t].cmd /\ th'[t].end = th[t].end
         /\ UNCHANGED <<dialect, far, forked, calls, history>>
<1>1. ssh[Of(t)] \in Nat
  BY DEF Having, Of, Procs
<1>2. CASE IsForked(Of(t))
  BY <1>2, GoesIs, WordsAre DEF Close, Take, CanLock, DropIfForked, IsForked,
     Forget, At1, Same
<1>3. CASE ~IsForked(Of(t))
  <2>1. GoesFrom(t, "invalidate", ssh[Of(t)])
    BY <1>3 DEF Close
  <2>2. "invalidate" \in Words
    BY WordsAre
  <2>3. /\ Typed' /\ Others(t) /\ th'[t].at = "invalidate" /\ th'[t].was = ssh[Of(t)]
        /\ th'[t].op = th[t].op /\ th'[t].then = th[t].then /\ th'[t].conn = th[t].conn
        /\ th'[t].cmd = th[t].cmd /\ th'[t].end = th[t].end
    BY <1>1, <2>1, <2>2, FromIs
  <2> QED
    BY <1>3, <2>3 DEF Close, Take, CanLock, DropIfForked, IsForked
<1> QED
  BY <1>2, <1>3

LEMMA InvalidateDoes ==
  ASSUME Typed, Doing, Having, NEW t \in Threads, Invalidate(t)
  PROVE  /\ At(t, "invalidate") /\ At1(t, "hang up")
         /\ login' = [login EXCEPT ![Of(t)] = 0] /\ sftp' = [sftp EXCEPT ![Of(t)] = 0]
         /\ \/ sftp[Of(t)] = 0 /\ UNCHANGED <<channels, crossed>>
            \/ /\ sftp[Of(t)] # 0 /\ channels' = channels \ {sftp[Of(t)]}
               /\ crossed' = (crossed \/ opened[sftp[Of(t)]] # Of(t))
         /\ UNCHANGED <<lock, ssh, dialect, generation, opened, dead, running, forked, calls,
                        heldAtFork>>
BY GoesIs, WordsAre DEF Invalidate, Invalidates, Touch, At1, Same

LEMMA HangUpDoes ==
  ASSUME Typed, Doing, Having, NEW t \in Threads, HangUp(t)
  PROVE  /\ At(t, "hang up") /\ At1(t, "closed")
         /\ ssh' = [ssh EXCEPT ![Of(t)] = 0]
         /\ \/ ssh[Of(t)] = 0 /\ UNCHANGED <<dead, crossed>>
            \/ /\ ssh[Of(t)] # 0 /\ dead' = dead \cup {ssh[Of(t)]}
               /\ crossed' = (crossed \/ opened[ssh[Of(t)]] # Of(t))
         /\ UNCHANGED <<lock, sftp, login, dialect, generation, opened, channels, running,
                        forked, calls, heldAtFork>>
BY GoesIs, WordsAre DEF HangUp, Touch, At1, Same

LEMMA ClosedDoes ==
  ASSUME Typed, Doing, Having, NEW t \in Threads, Closed(t)
  PROVE  /\ At(t, "closed") /\ Typed' /\ Others(t)
         /\ th'[t].op = "none" /\ th'[t].at = "idle" /\ th'[t].then = "none"
         /\ th'[t].conn = 0 /\ th'[t].was = th[t].was /\ th'[t].cmd = 0 /\ th'[t].end = "closed"
         /\ lock' = [lock EXCEPT ![Of(t)] = 0]
         /\ UNCHANGED <<cache, far, forked, calls, history>>
<1>1. th[t].op = "close"
  BY DEF Closed, Doing, Sane
<1> QED
  BY <1>1, ClosedIs DEF Closed, Release

-----------------------------------------------------------------------------
(* Every step keeps each part of the invariant. *)

(* What a thread is doing. *)
LEMMA TypedStep ==
  ASSUME Typed, Doing, Having, TypeOK, [Next]_vars
  PROVE  Typed'
<1>0. ASSUME UNCHANGED vars PROVE Typed'
  BY <1>0 DEF vars, Typed
<1> SUFFICES ASSUME NEW t \in Threads,
                    \/ Step(t)
                    \/ \E op \in Calls[t]: Begin(t, op)
                    \/ Fork \/ Lose \/ CommandEnds
             PROVE  Typed'
  BY <1>0 DEF Next, Threads
<1>1. ASSUME NEW op \in Calls[t], Begin(t, op) PROVE Typed'
  BY <1>1, BeginDoes DEF Others
<1>2. ASSUME Access(t) PROVE Typed'
  BY <1>2, AccessDoes DEF Others, Same, At1, HasIt, At1, HasIt
<1>3. ASSUME Dial(t) PROVE Typed'
  BY <1>3, DialDoes DEF Others, HasIt, Conns, HasIt
<1>4. ASSUME Backend(t) PROVE Typed'
  BY <1>4, BackendDoes DEF Others, Asks
<1>5. ASSUME Use(t) PROVE Typed'
  BY <1>5, UseDoes DEF Others
<1>6. ASSUME Relative(t) PROVE Typed'
  BY <1>6, RelativeDoes DEF Others, Same
<1>7. ASSUME Login(t) PROVE Typed'
  BY <1>7, LoginDoes DEF Others
<1>8. ASSUME CloseChannel(t) PROVE Typed'
  BY <1>8, CloseChannelDoes DEF Others
<1>9. ASSUME Flavour(t) PROVE Typed'
  BY <1>9, FlavourDoes DEF Others, Same
<1>10. ASSUME Detect(t) PROVE Typed'
  BY <1>10, DetectDoes DEF Others, Same
<1>11. ASSUME Create(t) PROVE Typed'
  BY <1>11, CreateDoes DEF Others, Same, At1
<1>12. ASSUME Wait(t) PROVE Typed'
  BY <1>12, WaitDoes DEF Others, Same, At1
<1>13. ASSUME Terminate(t) PROVE Typed'
  BY <1>13, TerminateDoes DEF Others
<1>14. ASSUME Close(t) PROVE Typed'
  BY <1>14, CloseDoes DEF Others, Same, At1
<1>15. ASSUME Invalidate(t) PROVE Typed'
  BY <1>15, InvalidateDoes DEF Others, Same, At1
<1>16. ASSUME HangUp(t) PROVE Typed'
  BY <1>16, HangUpDoes DEF Others, Same, At1
<1>17. ASSUME Closed(t) PROVE Typed'
  BY <1>17, ClosedDoes DEF Others
<1>18. ASSUME Fork PROVE Typed'
  BY <1>18 DEF Fork, Busy, Typed
<1>19. ASSUME Lose PROVE Typed'
  BY <1>19 DEF Lose, Typed
<1>20. ASSUME CommandEnds PROVE Typed'
  BY <1>20 DEF CommandEnds, Typed
<1> QED
  BY <1>1, <1>2, <1>3, <1>4, <1>5, <1>6, <1>7, <1>8, <1>9, <1>10, <1>11, <1>12,
     <1>13, <1>14, <1>15, <1>16, <1>17, <1>18, <1>19, <1>20 DEF Step

LEMMA IdleSane == Sane(Idle)
BY IdleIs DEF Sane

LEMMA DoingKeeps ==
  ASSUME Doing, NEW t \in Threads, Others(t), Sane(th[t]) => Sane(th'[t])
  PROVE  Doing'
BY DEF Doing, Others

LEMMA DoingStep ==
  ASSUME Typed, Doing, Having, TypeOK, [Next]_vars
  PROVE  Doing'
<1>0. ASSUME UNCHANGED vars PROVE Doing'
  BY <1>0 DEF vars, Doing
<1> SUFFICES ASSUME NEW t \in Threads,
                    \/ Step(t)
                    \/ \E op \in Calls[t]: Begin(t, op)
                    \/ Fork \/ Lose \/ CommandEnds
             PROVE  Doing'
  BY <1>0 DEF Next, Threads
<1>1. ASSUME NEW op \in Calls[t], Begin(t, op) PROVE Doing'
  <2>1. /\ Others(t) /\ (Sane(th[t]) => Sane(th'[t]))
    BY <1>1, BeginDoes, IdleSane DEF Sane
  <2> QED
    BY <2>1, DoingKeeps
<1>2. ASSUME Access(t) PROVE Doing'
  <2>1. /\ Others(t) /\ (Sane(th[t]) => Sane(th'[t]))
    BY <1>2, AccessDoes, IdleSane DEF Same, At1, HasIt, Sane
  <2> QED
    BY <2>1, DoingKeeps
<1>3. ASSUME Dial(t) PROVE Doing'
  BY <1>3, DialDoes, IdleSane, DoingKeeps DEF HasIt, Conns, Sane
<1>4. ASSUME Backend(t) PROVE Doing'
  <2>1. Others(t)
    BY <1>4, BackendDoes DEF Asks
  <2>2. \/ th'[t] = Idle
        \/ /\ At(t, "backend") /\ th'[t].at = "use"
           /\ th'[t].op = th[t].op /\ th'[t].then = th[t].then /\ th'[t].end = th[t].end
    BY <1>4, BackendDoes DEF Asks
  <2>3. Sane(th[t]) => Sane(th'[t])
    BY <2>2, IdleSane DEF At, Sane
  <2> QED
    BY <2>1, <2>3, DoingKeeps
<1>5. ASSUME Use(t) PROVE Doing'
  BY <1>5, UseDoes, IdleSane, DoingKeeps DEF Sane
<1>6. ASSUME Relative(t) PROVE Doing'
  <2>1. /\ Others(t) /\ (Sane(th[t]) => Sane(th'[t]))
    BY <1>6, RelativeDoes, IdleSane DEF Same, Sane
  <2> QED
    BY <2>1, DoingKeeps
<1>7. ASSUME Login(t) PROVE Doing'
  BY <1>7, LoginDoes, IdleSane, DoingKeeps DEF Sane
<1>8. ASSUME CloseChannel(t) PROVE Doing'
  BY <1>8, CloseChannelDoes, IdleSane, DoingKeeps DEF Sane
<1>9. ASSUME Flavour(t) PROVE Doing'
  <2>1. /\ Others(t) /\ (Sane(th[t]) => Sane(th'[t]))
    BY <1>9, FlavourDoes, IdleSane DEF Same, Sane
  <2> QED
    BY <2>1, DoingKeeps
<1>10. ASSUME Detect(t) PROVE Doing'
  BY <1>10, DetectDoes, IdleSane, DoingKeeps DEF Same, Sane
<1>11. ASSUME Create(t) PROVE Doing'
  BY <1>11, CreateDoes, IdleSane, DoingKeeps DEF Same, At1, Sane
<1>12. ASSUME Wait(t) PROVE Doing'
  BY <1>12, WaitDoes, IdleSane, DoingKeeps DEF Same, At1, Sane
<1>13. ASSUME Terminate(t) PROVE Doing'
  BY <1>13, TerminateDoes, IdleSane, DoingKeeps DEF Sane
<1>14. ASSUME Close(t) PROVE Doing'
  <2>1. Others(t)
    BY <1>14, CloseDoes DEF At1
  <2>2. /\ At(t, "close")
        /\ th'[t].at \in {"invalidate", "closed"}
        /\ th'[t].op = th[t].op /\ th'[t].then = th[t].then /\ th'[t].end = th[t].end
    BY <1>14, CloseDoes DEF At1, Same
  <2>3. Sane(th[t]) => Sane(th'[t])
    BY <2>2 DEF At, Sane
  <2> QED
    BY <2>1, <2>3, DoingKeeps
<1>15. ASSUME Invalidate(t) PROVE Doing'
  <2>1. Others(t)
    BY <1>15, InvalidateDoes DEF At1
  <2>2. /\ At(t, "invalidate") /\ th'[t].at = "hang up"
        /\ th'[t].op = th[t].op /\ th'[t].then = th[t].then /\ th'[t].end = th[t].end
    BY <1>15, InvalidateDoes DEF At1, Same
  <2>3. Sane(th[t]) => Sane(th'[t])
    BY <2>2 DEF At, Sane
  <2> QED
    BY <2>1, <2>3, DoingKeeps
<1>16. ASSUME HangUp(t) PROVE Doing'
  <2>1. Others(t)
    BY <1>16, HangUpDoes DEF At1
  <2>2. /\ At(t, "hang up") /\ th'[t].at = "closed"
        /\ th'[t].op = th[t].op /\ th'[t].then = th[t].then /\ th'[t].end = th[t].end
    BY <1>16, HangUpDoes DEF At1, Same
  <2>3. Sane(th[t]) => Sane(th'[t])
    BY <2>2 DEF At, Sane
  <2> QED
    BY <2>1, <2>3, DoingKeeps
<1>17. ASSUME Closed(t) PROVE Doing'
  BY <1>17, ClosedDoes, IdleSane, DoingKeeps DEF Sane
<1>18. ASSUME Fork PROVE Doing'
  BY <1>18 DEF Fork, Busy, Doing
<1>19. ASSUME Lose PROVE Doing'
  BY <1>19 DEF Lose, Doing
<1>20. ASSUME CommandEnds PROVE Doing'
  BY <1>20 DEF CommandEnds, Doing
<1> QED
  BY <1>1, <1>2, <1>3, <1>4, <1>5, <1>6, <1>7, <1>8, <1>9, <1>10, <1>11, <1>12,
     <1>13, <1>14, <1>15, <1>16, <1>17, <1>18, <1>19, <1>20 DEF Step

LEMMA OfIs ==
  ASSUME NEW t \in Threads
  PROVE  Of(t) \in Procs /\ Of(t) \in {0, 1, 2} /\ t \in Threads \cup {0}
BY DEF Of, Procs, Threads

LEMMA NatPut ==
  ASSUME NEW f \in [Procs -> Nat], NEW t \in Threads, NEW v \in Nat, NEW g,
         g = f \/ g = [f EXCEPT ![Of(t)] = v]
  PROVE  g \in [Procs -> Nat]
BY OfIs

LEMMA AppendIs ==
  ASSUME opened \in Seq(Procs), NEW t \in Threads
  PROVE  Append(opened, Of(t)) \in Seq(Procs) /\ Len(opened) + 1 \in Nat
BY OfIs


LEMMA HavingStep ==
  ASSUME Typed, Doing, Having, TypeOK, [Next]_vars
  PROVE  Having'
<1>0. ASSUME UNCHANGED vars PROVE Having'
  BY <1>0 DEF vars, Having, Of, Procs, Threads
<1> SUFFICES ASSUME NEW t \in Threads,
                    \/ Step(t)
                    \/ \E op \in Calls[t]: Begin(t, op)
                    \/ Fork \/ Lose \/ CommandEnds
             PROVE  Having'
  BY <1>0 DEF Next, Threads
<1>1. ASSUME NEW op \in Calls[t], Begin(t, op) PROVE Having'
  <2>1. /\ UNCHANGED <<lock, cache, opened>>
    BY <1>1, BeginDoes
  <2> QED
    BY <2>1 DEF Having
<1>2. ASSUME Access(t) PROVE Having'
  <2>1. /\ \/ lock' = lock
           \/ lock' = [lock EXCEPT ![Of(t)] = t]
           \/ lock' = [lock EXCEPT ![Of(t)] = 0]
        /\ generation' = [generation EXCEPT ![Of(t)] = Of(t)]
        /\ ssh' = ssh \/ ssh' = [ssh EXCEPT ![Of(t)] = 0]
        /\ sftp' = sftp \/ sftp' = [sftp EXCEPT ![Of(t)] = 0]
        /\ login' = login \/ login' = [login EXCEPT ![Of(t)] = 0]
        /\ UNCHANGED <<dialect, opened>>
    BY <1>2, AccessDoes DEF Same, At1, HasIt
  <2>2. lock' \in [Procs -> Threads \cup {0}]
    BY <2>1, OfIs DEF Having
  <2>3. generation' \in [Procs -> {0, 1, 2}]
    BY <2>1, OfIs DEF Having
  <2>4. ssh' \in [Procs -> Nat]
    BY <2>1, NatPut DEF Having
  <2>5. sftp' \in [Procs -> Nat]
    BY <2>1, NatPut DEF Having
  <2>6. login' \in [Procs -> Nat]
    BY <2>1, NatPut DEF Having
  <2> QED
    BY <2>1, <2>2, <2>3, <2>4, <2>5, <2>6 DEF Having
<1>3. ASSUME Dial(t) PROVE Having'
  <2>1. /\ \/ lock' = lock
           \/ lock' = [lock EXCEPT ![Of(t)] = t]
           \/ lock' = [lock EXCEPT ![Of(t)] = 0]
        /\ ssh' = ssh \/ ssh' = [ssh EXCEPT ![Of(t)] = Len(opened) + 1]
        /\ opened' = opened \/ opened' = Append(opened, Of(t))
        /\ UNCHANGED <<sftp, login, dialect, generation>>
    BY <1>3, DialDoes DEF HasIt, Conns
  <2>2. lock' \in [Procs -> Threads \cup {0}]
    BY <2>1, OfIs, AppendIs DEF Having
  <2>3. ssh' \in [Procs -> Nat]
    BY <2>1, NatPut, AppendIs DEF Having
  <2>4. opened' \in Seq(Procs)
    BY <2>1, AppendIs DEF Having
  <2> QED
    BY <2>1, <2>2, <2>3, <2>4 DEF Having
<1>4. ASSUME Backend(t) PROVE Having'
  <2>1. /\ lock' = [lock EXCEPT ![Of(t)] = 0]
        /\ \/ sftp' = sftp
           \/ sftp' = [sftp EXCEPT ![Of(t)] = th[t].conn]
           \/ sftp' = [sftp EXCEPT ![Of(t)] = 0]
        /\ UNCHANGED <<ssh, login, dialect, generation, opened>>
    BY <1>4, BackendDoes DEF Asks
  <2>2. lock' \in [Procs -> Threads \cup {0}]
    BY <2>1, OfIs, ThreadIs DEF Having
  <2>3. sftp' \in [Procs -> Nat]
    BY <2>1, NatPut, ThreadIs DEF Having
  <2> QED
    BY <2>1, <2>2, <2>3 DEF Having
<1>5. ASSUME Use(t) PROVE Having'
  <2>1. /\ UNCHANGED <<lock, cache, opened>>
    BY <1>5, UseDoes
  <2> QED
    BY <2>1 DEF Having
<1>6. ASSUME Relative(t) PROVE Having'
  <2>1. /\ lock' = lock \/ lock' = [lock EXCEPT ![Of(t)] = t]
        /\ UNCHANGED <<cache, opened>>
    BY <1>6, RelativeDoes DEF Same
  <2>2. lock' \in [Procs -> Threads \cup {0}]
    BY <2>1, OfIs DEF Having
  <2> QED
    BY <2>1, <2>2 DEF Having
<1>7. ASSUME Login(t) PROVE Having'
  <2>1. /\ lock' = [lock EXCEPT ![Of(t)] = 0]
        /\ login' = login \/ login' = [login EXCEPT ![Of(t)] = th[t].conn]
        /\ UNCHANGED <<ssh, sftp, dialect, generation, opened>>
    BY <1>7, LoginDoes
  <2>2. lock' \in [Procs -> Threads \cup {0}]
    BY <2>1, OfIs, ThreadIs DEF Having
  <2>3. login' \in [Procs -> Nat]
    BY <2>1, NatPut, ThreadIs DEF Having
  <2> QED
    BY <2>1, <2>2, <2>3 DEF Having
<1>8. ASSUME CloseChannel(t) PROVE Having'
  <2>1. /\ generation' = [generation EXCEPT ![Of(t)] = Of(t)]
        /\ ssh' = ssh \/ ssh' = [ssh EXCEPT ![Of(t)] = 0]
        /\ sftp' = sftp \/ sftp' = [sftp EXCEPT ![Of(t)] = 0]
        /\ login' = login \/ login' = [login EXCEPT ![Of(t)] = 0]
        /\ UNCHANGED <<lock, dialect, opened>>
    BY <1>8, CloseChannelDoes
  <2>2. generation' \in [Procs -> {0, 1, 2}]
    BY <2>1, OfIs DEF Having
  <2>3. ssh' \in [Procs -> Nat]
    BY <2>1, NatPut DEF Having
  <2>4. sftp' \in [Procs -> Nat]
    BY <2>1, NatPut DEF Having
  <2>5. login' \in [Procs -> Nat]
    BY <2>1, NatPut DEF Having
  <2> QED
    BY <2>1, <2>2, <2>3, <2>4, <2>5 DEF Having
<1>9. ASSUME Flavour(t) PROVE Having'
  <2>1. /\ lock' = lock \/ lock' = [lock EXCEPT ![Of(t)] = t]
        /\ UNCHANGED <<cache, opened>>
    BY <1>9, FlavourDoes DEF Same
  <2>2. lock' \in [Procs -> Threads \cup {0}]
    BY <2>1, OfIs DEF Having
  <2> QED
    BY <2>1, <2>2 DEF Having
<1>10. ASSUME Detect(t) PROVE Having'
  <2>1. /\ lock' = [lock EXCEPT ![Of(t)] = 0]
        /\ dialect' = dialect \/ dialect' = [dialect EXCEPT ![Of(t)] = TRUE]
        /\ UNCHANGED <<ssh, sftp, login, generation, opened>>
    BY <1>10, DetectDoes DEF Same
  <2>2. lock' \in [Procs -> Threads \cup {0}]
    BY <2>1, OfIs DEF Having
  <2>3. dialect' \in [Procs -> BOOLEAN]
    BY <2>1, OfIs DEF Having
  <2> QED
    BY <2>1, <2>2, <2>3 DEF Having
<1>11. ASSUME Create(t) PROVE Having'
  <2>1. /\ UNCHANGED <<lock, cache, opened>>
    BY <1>11, CreateDoes DEF Same, At1
  <2> QED
    BY <2>1 DEF Having
<1>12. ASSUME Wait(t) PROVE Having'
  <2>1. /\ UNCHANGED <<lock, cache, opened>>
    BY <1>12, WaitDoes DEF Same, At1
  <2> QED
    BY <2>1 DEF Having
<1>13. ASSUME Terminate(t) PROVE Having'
  <2>1. /\ UNCHANGED <<lock, cache, opened>>
    BY <1>13, TerminateDoes
  <2> QED
    BY <2>1 DEF Having
<1>14. ASSUME Close(t) PROVE Having'
  <2>1. /\ lock' = [lock EXCEPT ![Of(t)] = t]
        /\ generation' = [generation EXCEPT ![Of(t)] = Of(t)]
        /\ ssh' = ssh \/ ssh' = [ssh EXCEPT ![Of(t)] = 0]
        /\ sftp' = sftp \/ sftp' = [sftp EXCEPT ![Of(t)] = 0]
        /\ login' = login \/ login' = [login EXCEPT ![Of(t)] = 0]
        /\ UNCHANGED <<dialect, opened>>
    BY <1>14, CloseDoes DEF Same, At1
  <2>2. lock' \in [Procs -> Threads \cup {0}]
    BY <2>1, OfIs DEF Having
  <2>3. generation' \in [Procs -> {0, 1, 2}]
    BY <2>1, OfIs DEF Having
  <2>4. ssh' \in [Procs -> Nat]
    BY <2>1, NatPut DEF Having
  <2>5. sftp' \in [Procs -> Nat]
    BY <2>1, NatPut DEF Having
  <2>6. login' \in [Procs -> Nat]
    BY <2>1, NatPut DEF Having
  <2> QED
    BY <2>1, <2>2, <2>3, <2>4, <2>5, <2>6 DEF Having
<1>15. ASSUME Invalidate(t) PROVE Having'
  <2>1. /\ sftp' = sftp \/ sftp' = [sftp EXCEPT ![Of(t)] = 0]
        /\ login' = login \/ login' = [login EXCEPT ![Of(t)] = 0]
        /\ UNCHANGED <<lock, ssh, dialect, generation, opened>>
    BY <1>15, InvalidateDoes DEF Same, At1
  <2>2. sftp' \in [Procs -> Nat]
    BY <2>1, NatPut DEF Having
  <2>3. login' \in [Procs -> Nat]
    BY <2>1, NatPut DEF Having
  <2> QED
    BY <2>1, <2>2, <2>3 DEF Having
<1>16. ASSUME HangUp(t) PROVE Having'
  <2>1. /\ ssh' = ssh \/ ssh' = [ssh EXCEPT ![Of(t)] = 0]
        /\ UNCHANGED <<lock, sftp, login, dialect, generation, opened>>
    BY <1>16, HangUpDoes DEF Same, At1
  <2>2. ssh' \in [Procs -> Nat]
    BY <2>1, NatPut DEF Having
  <2> QED
    BY <2>1, <2>2 DEF Having
<1>17. ASSUME Closed(t) PROVE Having'
  <2>1. /\ lock' = [lock EXCEPT ![Of(t)] = 0]
        /\ UNCHANGED <<cache, opened>>
    BY <1>17, ClosedDoes
  <2>2. lock' \in [Procs -> Threads \cup {0}]
    BY <2>1, OfIs DEF Having
  <2> QED
    BY <2>1, <2>2 DEF Having
<1>18. ASSUME Fork PROVE Having'
  BY <1>18 DEF Fork, Busy, Having, Of, Procs, Threads
<1>19. ASSUME Lose PROVE Having'
  BY <1>19 DEF Lose, Having, Of, Procs, Threads
<1>20. ASSUME CommandEnds PROVE Having'
  BY <1>20 DEF CommandEnds, Having, Of, Procs, Threads
<1> QED
  BY <1>1, <1>2, <1>3, <1>4, <1>5, <1>6, <1>7, <1>8, <1>9, <1>10, <1>11, <1>12,
     <1>13, <1>14, <1>15, <1>16, <1>17, <1>18, <1>19, <1>20 DEF Step

LEMMA IdleLocksNot ==
  ASSUME NEW t \in Threads, th'[t] = Idle
  PROVE  ~Locks(th'[t])
BY IdleIs DEF Locks

LEMMA PlainLocksNot ==
  ASSUME NEW t \in Threads,
         \/ th'[t].at \in {"relative", "create"}
         \/ th'[t].at = "ssh" /\ th'[t].then = "none"
  PROVE  ~Locks(th'[t])
BY DEF Locks

(* While a thread has the lock, or takes it, no other of its process is at *)
(* work with what it guards.                                               *)
LEMMA Alone ==
  ASSUME Having, Locked, NEW t \in Threads, lock[Of(t)] \in {0, t}, NEW u \in Threads \ {t},
         Of(u) = Of(t)
  PROVE  ~Locks(th[u])
BY DEF Locked, Threads

LEMMA LockedKeeps ==
  ASSUME Having, Locked, NEW t \in Threads, Others(t),
         \/ UNCHANGED lock
         \/ lock[Of(t)] \in {0, t} /\ \E v \in {0, t}: lock' = [lock EXCEPT ![Of(t)] = v],
         Locks(th'[t]) =>
             lock' = [lock EXCEPT ![Of(t)] = t] \/ (UNCHANGED lock /\ lock[Of(t)] = t)
  PROVE  Locked'
<1> SUFFICES ASSUME NEW u \in Threads, Locks(th'[u]) PROVE lock'[Of(u)] = u
  BY DEF Locked
<1>1. CASE u = t
  BY <1>1, OfIs DEF Having
<1>2. CASE u # t
  <2>1. Locks(th[u])
    BY <1>2 DEF Others, Locks
  <2>2. lock[Of(u)] = u
    BY <2>1 DEF Locked
  <2>3. Of(u) = Of(t) => lock[Of(t)] \notin {0, t}
    BY <1>2, <2>1, Alone
  <2> QED
    BY <2>2, <2>3, OfIs DEF Having
<1> QED
  BY <1>1, <1>2

(* The lock is held where it is needed. *)
LEMMA LockedStep ==
  ASSUME Typed, Doing, Having, TypeOK, Locked, Own, [Next]_vars
  PROVE  Locked'
<1>0. ASSUME UNCHANGED vars PROVE Locked'
  BY <1>0 DEF vars, Locked, Locks
<1> SUFFICES ASSUME NEW t \in Threads,
                    \/ Step(t)
                    \/ \E op \in Calls[t]: Begin(t, op)
                    \/ Fork \/ Lose \/ CommandEnds
             PROVE  Locked'
  BY <1>0 DEF Next, Threads
<1>1. ASSUME NEW op \in Calls[t], Begin(t, op) PROVE Locked'
  BY <1>1, BeginDoes, IdleLocksNot, LockedKeeps DEF Locks, Locked
<1>2. ASSUME Access(t) PROVE Locked'
  BY <1>2, AccessDoes, IdleLocksNot, PlainLocksNot, LockedKeeps DEF Same, At1,
     HasIt, Locked, Locks
<1>3. ASSUME Dial(t) PROVE Locked'
  BY <1>3, DialDoes, IdleLocksNot, LockedKeeps DEF HasIt, Conns, Locks, Locked
<1>4. ASSUME Backend(t) PROVE Locked'
  BY <1>4, BackendDoes, IdleLocksNot, LockedKeeps DEF Asks, Locks, Locked
<1>5. ASSUME Use(t) PROVE Locked'
  BY <1>5, UseDoes, IdleLocksNot, LockedKeeps DEF Locks, Locked
<1>6. ASSUME Relative(t) PROVE Locked'
  BY <1>6, RelativeDoes, IdleLocksNot, PlainLocksNot, LockedKeeps DEF Same,
     Locked, Locks
<1>7. ASSUME Login(t) PROVE Locked'
  BY <1>7, LoginDoes, IdleLocksNot, LockedKeeps DEF Locks, Locked
<1>8. ASSUME CloseChannel(t) PROVE Locked'
  BY <1>8, CloseChannelDoes, IdleLocksNot, LockedKeeps DEF Locks, Locked
<1>9. ASSUME Flavour(t) PROVE Locked'
  BY <1>9, FlavourDoes, IdleLocksNot, PlainLocksNot, LockedKeeps DEF Same,
     Locked, Locks
<1>10. ASSUME Detect(t) PROVE Locked'
  BY <1>10, DetectDoes, IdleLocksNot, LockedKeeps DEF Same, Locks, Locked
<1>11. ASSUME Create(t) PROVE Locked'
  BY <1>11, CreateDoes, IdleLocksNot, LockedKeeps DEF Same, At1, Locks, Locked
<1>12. ASSUME Wait(t) PROVE Locked'
  BY <1>12, WaitDoes, IdleLocksNot, LockedKeeps DEF Same, At1, Locks, Locked
<1>13. ASSUME Terminate(t) PROVE Locked'
  BY <1>13, TerminateDoes, IdleLocksNot, LockedKeeps DEF Locks, Locked
<1>14. ASSUME Close(t) PROVE Locked'
  BY <1>14, CloseDoes, IdleLocksNot, PlainLocksNot, LockedKeeps DEF Same, At1,
     Locked, Locks
<1>15. ASSUME Invalidate(t) PROVE Locked'
  BY <1>15, InvalidateDoes, IdleLocksNot, LockedKeeps DEF Same, At1, Locks, Locked
<1>16. ASSUME HangUp(t) PROVE Locked'
  BY <1>16, HangUpDoes, IdleLocksNot, LockedKeeps DEF Same, At1, Locks, Locked
<1>17. ASSUME Closed(t) PROVE Locked'
  BY <1>17, ClosedDoes, IdleLocksNot, LockedKeeps DEF Locks, Locked
<1>18. ASSUME Fork PROVE Locked'
  <2>1. th[Child].at = "idle"
    BY <1>18 DEF Fork, Own
  <2>2. \A u \in Threads \ {Child}: Of(u) = 1
    BY DEF Of
  <2>3. \A u \in Threads: Locks(th[u]) => lock'[Of(u)] = lock[Of(u)]
    <3>1. ~Locks(th[Child])
      BY <2>1 DEF Locks
    <3>2. lock'[1] = lock[1]
      BY <1>18 DEF Fork, Having, Procs
    <3> QED
      BY <2>2, <3>1, <3>2
  <2> QED
    BY <1>18, <2>3 DEF Fork, Locked, Locks
<1>19. ASSUME Lose PROVE Locked'
  BY <1>19 DEF Lose, Locked, Locks
<1>20. ASSUME CommandEnds PROVE Locked'
  BY <1>20 DEF CommandEnds, Locked, Locks
<1> QED
  BY <1>1, <1>2, <1>3, <1>4, <1>5, <1>6, <1>7, <1>8, <1>9, <1>10, <1>11, <1>12,
     <1>13, <1>14, <1>15, <1>16, <1>17, <1>18, <1>19, <1>20 DEF Step

LEMMA BusyForked ==
  ASSUME Own, NEW t \in Threads, th[t].at # "idle"
  PROVE  t = Child => forked
BY DEF Own

LEMMA OwnAt ==
  ASSUME Own, NEW t \in Threads, th[t].at \in Within
  PROVE  generation[Of(t)] = Of(t)
BY DEF Own

LEMMA OwnKeeps ==
  ASSUME Having, Own, NEW t \in Threads, Others(t), UNCHANGED forked, t = Child => forked,
         generation' = generation \/ generation' = [generation EXCEPT ![Of(t)] = Of(t)],
         th'[t].at \in Within =>
             generation[Of(t)] = Of(t) \/ generation' = [generation EXCEPT ![Of(t)] = Of(t)]
  PROVE  Own'
<1>1. /\ DOMAIN generation = Procs /\ Of(t) \in Procs
      /\ \A p \in Procs: generation'[p] = generation[p] \/ (p = Of(t) /\ generation'[p] = p)
  BY OfIs DEF Having
<1>2. \A u \in Threads: th'[u].at \in Within => generation'[Of(u)] = Of(u)
  <2> TAKE u \in Threads
  <2>1. CASE u = t
    BY <1>1, <2>1, OfIs DEF Having
  <2>2. CASE u # t
    BY <1>1, <2>2, OfIs DEF Own, Others
  <2> QED
    BY <2>1, <2>2
<1>3. ~forked' => th'[Child].at = "idle" /\ generation'[2] = 0
  BY <1>1 DEF Own, Others, Child, Threads, Of, Procs
<1>4. generation'[1] # 2
  BY <1>1 DEF Own, Procs
<1> QED
  BY <1>2, <1>3, <1>4 DEF Own

(* A thread works in its own process. *)
LEMMA OwnStep ==
  ASSUME Typed, Doing, Having, TypeOK, Own, [Next]_vars
  PROVE  Own'
<1>0. ASSUME UNCHANGED vars PROVE Own'
  BY <1>0 DEF vars, Own
<1> SUFFICES ASSUME NEW t \in Threads,
                    \/ Step(t)
                    \/ \E op \in Calls[t]: Begin(t, op)
                    \/ Fork \/ Lose \/ CommandEnds
             PROVE  Own'
  BY <1>0 DEF Next, Threads
<1>1. ASSUME NEW op \in Calls[t], Begin(t, op) PROVE Own'
  BY <1>1, BeginDoes, BusyForked, OwnAt, IdleIs, OwnKeeps DEF Within, WithConn
<1>2. ASSUME Access(t) PROVE Own'
  BY <1>2, AccessDoes, BusyForked, OwnAt, IdleIs, OwnKeeps DEF Same, At1, HasIt,
     Within, WithConn
<1>3. ASSUME Dial(t) PROVE Own'
  BY <1>3, DialDoes, BusyForked, OwnAt, IdleIs, OwnKeeps DEF HasIt, Conns,
     Within, WithConn
<1>4. ASSUME Backend(t) PROVE Own'
  BY <1>4, BackendDoes, BusyForked, OwnAt, IdleIs, OwnKeeps DEF Asks, Within,
     WithConn
<1>5. ASSUME Use(t) PROVE Own'
  BY <1>5, UseDoes, BusyForked, OwnAt, IdleIs, OwnKeeps DEF Within, WithConn
<1>6. ASSUME Relative(t) PROVE Own'
  BY <1>6, RelativeDoes, BusyForked, OwnAt, IdleIs, OwnKeeps DEF Same, Within,
     WithConn
<1>7. ASSUME Login(t) PROVE Own'
  BY <1>7, LoginDoes, BusyForked, OwnAt, IdleIs, OwnKeeps DEF Within, WithConn
<1>8. ASSUME CloseChannel(t) PROVE Own'
  BY <1>8, CloseChannelDoes, BusyForked, OwnAt, IdleIs, OwnKeeps DEF Within,
     WithConn
<1>9. ASSUME Flavour(t) PROVE Own'
  BY <1>9, FlavourDoes, BusyForked, OwnAt, IdleIs, OwnKeeps DEF Same, Within,
     WithConn
<1>10. ASSUME Detect(t) PROVE Own'
  BY <1>10, DetectDoes, BusyForked, OwnAt, IdleIs, OwnKeeps DEF Same, Within,
     WithConn
<1>11. ASSUME Create(t) PROVE Own'
  BY <1>11, CreateDoes, BusyForked, OwnAt, IdleIs, OwnKeeps DEF Same, At1,
     Within, WithConn
<1>12. ASSUME Wait(t) PROVE Own'
  BY <1>12, WaitDoes, BusyForked, OwnAt, IdleIs, OwnKeeps DEF Same, At1, Within,
     WithConn
<1>13. ASSUME Terminate(t) PROVE Own'
  BY <1>13, TerminateDoes, BusyForked, OwnAt, IdleIs, OwnKeeps DEF Within, WithConn
<1>14. ASSUME Close(t) PROVE Own'
  BY <1>14, CloseDoes, BusyForked, OwnAt, IdleIs, OwnKeeps DEF Same, At1,
     Within, WithConn
<1>15. ASSUME Invalidate(t) PROVE Own'
  BY <1>15, InvalidateDoes, BusyForked, OwnAt, IdleIs, OwnKeeps DEF Same, At1,
     Within, WithConn
<1>16. ASSUME HangUp(t) PROVE Own'
  BY <1>16, HangUpDoes, BusyForked, OwnAt, IdleIs, OwnKeeps DEF Same, At1,
     Within, WithConn
<1>17. ASSUME Closed(t) PROVE Own'
  BY <1>17, ClosedDoes, BusyForked, OwnAt, IdleIs, OwnKeeps DEF Within, WithConn
<1>18. ASSUME Fork PROVE Own'
  <2>1. th[Child].at = "idle" /\ forked' /\ UNCHANGED th
    BY <1>18 DEF Fork, Own
  <2>2. \A u \in Threads \ {Child}: Of(u) = 1
    BY DEF Of
  <2>3. generation'[1] = generation[1]
    BY <1>18 DEF Fork, Having, Procs
  <2>4. "idle" \notin Within
    BY DEF Within, WithConn
  <2> QED
    BY <2>1, <2>2, <2>3, <2>4 DEF Own
<1>19. ASSUME Lose PROVE Own'
  BY <1>19 DEF Lose, Own
<1>20. ASSUME CommandEnds PROVE Own'
  BY <1>20 DEF CommandEnds, Own
<1> QED
  BY <1>1, <1>2, <1>3, <1>4, <1>5, <1>6, <1>7, <1>8, <1>9, <1>10, <1>11, <1>12,
     <1>13, <1>14, <1>15, <1>16, <1>17, <1>18, <1>19, <1>20 DEF Step

LEMMA NeatIs ==
  ASSUME Cached, NEW t \in Threads, generation[Of(t)] \in {0, Of(t)}
  PROVE  /\ ssh[Of(t)] # 0 => ssh[Of(t)] \in DOMAIN opened /\ opened[ssh[Of(t)]] = Of(t)
         /\ sftp[Of(t)] # 0 => sftp[Of(t)] \in DOMAIN opened /\ opened[sftp[Of(t)]] = Of(t)
BY OfIs DEF Cached, Neat

LEMMA OnOwnAt ==
  ASSUME OnOwn, NEW t \in Threads, th[t].at \in WithConn
  PROVE  th[t].conn \in DOMAIN opened /\ opened[th[t].conn] = Of(t)
BY DEF OnOwn

LEMMA OnOwnKeeps ==
  ASSUME Having, OnOwn, NEW t \in Threads, Others(t),
         opened' = opened \/ opened' = Append(opened, Of(t)),
         th'[t].at \in WithConn => \/ th'[t].conn \in DOMAIN opened /\ opened[th'[t].conn] = Of(t)
                                   \/ /\ opened' = Append(opened, Of(t))
                                      /\ th'[t].conn = Len(opened) + 1
  PROVE  OnOwn'
<1>1. opened \in Seq(Procs) /\ Of(t) \in Procs
  BY OfIs DEF Having
<1>2. \A c \in DOMAIN opened: c \in DOMAIN opened' /\ opened'[c] = opened[c]
  BY <1>1, OpensIs
<1>3. ASSUME opened' = Append(opened, Of(t))
      PROVE  Len(opened) + 1 \in DOMAIN opened' /\ opened'[Len(opened) + 1] = Of(t)
  BY <1>1, <1>3, OpensIs
<1> QED
  BY <1>2, <1>3 DEF OnOwn, Others

LEMMA OnOwnStep ==
  ASSUME Typed, Doing, Having, TypeOK, Own, OnOwn, Cached, [Next]_vars
  PROVE  OnOwn'
<1>0. ASSUME UNCHANGED vars PROVE OnOwn'
  BY <1>0 DEF vars, OnOwn
<1> SUFFICES ASSUME NEW t \in Threads,
                    \/ Step(t)
                    \/ \E op \in Calls[t]: Begin(t, op)
                    \/ Fork \/ Lose \/ CommandEnds
             PROVE  OnOwn'
  BY <1>0 DEF Next, Threads
<1>1. ASSUME NEW op \in Calls[t], Begin(t, op) PROVE OnOwn'
  BY <1>1, BeginDoes, OnOwnAt, IdleIs, OnOwnKeeps DEF WithConn
<1>2. ASSUME Access(t) PROVE OnOwn'
  BY <1>2, AccessDoes, OnOwnAt, IdleIs, NeatIs, OnOwnKeeps DEF Same, At1, HasIt,
     WithConn
<1>3. ASSUME Dial(t) PROVE OnOwn'
  BY <1>3, DialDoes, OnOwnAt, IdleIs, OnOwnKeeps DEF HasIt, Conns, WithConn
<1>4. ASSUME Backend(t) PROVE OnOwn'
  BY <1>4, BackendDoes, OnOwnAt, IdleIs, OnOwnKeeps DEF Asks, WithConn
<1>5. ASSUME Use(t) PROVE OnOwn'
  BY <1>5, UseDoes, OnOwnAt, IdleIs, OnOwnKeeps DEF WithConn
<1>6. ASSUME Relative(t) PROVE OnOwn'
  BY <1>6, RelativeDoes, OnOwnAt, IdleIs, OnOwnKeeps DEF Same, WithConn
<1>7. ASSUME Login(t) PROVE OnOwn'
  BY <1>7, LoginDoes, OnOwnAt, IdleIs, OnOwnKeeps DEF WithConn
<1>8. ASSUME CloseChannel(t) PROVE OnOwn'
  BY <1>8, CloseChannelDoes, OnOwnAt, IdleIs, OnOwnKeeps DEF WithConn
<1>9. ASSUME Flavour(t) PROVE OnOwn'
  BY <1>9, FlavourDoes, OnOwnAt, IdleIs, OnOwnKeeps DEF Same, WithConn
<1>10. ASSUME Detect(t) PROVE OnOwn'
  BY <1>10, DetectDoes, OnOwnAt, IdleIs, OnOwnKeeps DEF Same, WithConn
<1>11. ASSUME Create(t) PROVE OnOwn'
  BY <1>11, CreateDoes, OnOwnAt, IdleIs, OnOwnKeeps DEF Same, At1, WithConn
<1>12. ASSUME Wait(t) PROVE OnOwn'
  BY <1>12, WaitDoes, OnOwnAt, IdleIs, OnOwnKeeps DEF Same, At1, WithConn
<1>13. ASSUME Terminate(t) PROVE OnOwn'
  BY <1>13, TerminateDoes, OnOwnAt, IdleIs, OnOwnKeeps DEF WithConn
<1>14. ASSUME Close(t) PROVE OnOwn'
  BY <1>14, CloseDoes, OnOwnAt, IdleIs, OnOwnKeeps DEF Same, At1, WithConn
<1>15. ASSUME Invalidate(t) PROVE OnOwn'
  BY <1>15, InvalidateDoes, OnOwnAt, IdleIs, OnOwnKeeps DEF Same, At1, WithConn
<1>16. ASSUME HangUp(t) PROVE OnOwn'
  BY <1>16, HangUpDoes, OnOwnAt, IdleIs, OnOwnKeeps DEF Same, At1, WithConn
<1>17. ASSUME Closed(t) PROVE OnOwn'
  BY <1>17, ClosedDoes, OnOwnAt, IdleIs, OnOwnKeeps DEF WithConn
<1>18. ASSUME Fork PROVE OnOwn'
  BY <1>18 DEF Fork, Busy, OnOwn
<1>19. ASSUME Lose PROVE OnOwn'
  BY <1>19 DEF Lose, OnOwn
<1>20. ASSUME CommandEnds PROVE OnOwn'
  BY <1>20 DEF CommandEnds, OnOwn
<1> QED
  BY <1>1, <1>2, <1>3, <1>4, <1>5, <1>6, <1>7, <1>8, <1>9, <1>10, <1>11, <1>12,
     <1>13, <1>14, <1>15, <1>16, <1>17, <1>18, <1>19, <1>20 DEF Step

(* What a process caches is nothing, or a connection of its own.            *)
LEMMA NeatPut ==
  ASSUME NEW f, NEW g, NEW o, NEW p \in Procs, Neat(f, g, o), NEW f2, NEW g2, NEW o2,
         \A c \in DOMAIN o: c \in DOMAIN o2 /\ o2[c] = o[c],
         \A q \in Procs: q # p => f2[q] = f[q] /\ g2[q] = g[q],
         \/ f2[p] = 0
         \/ f2[p] = f[p] /\ (g2[p] = g[p] \/ g[p] = 0)
         \/ f2[p] \in DOMAIN o2 /\ o2[f2[p]] = p /\ g2[p] # 0
  PROVE  Neat(f2, g2, o2)
<1> SUFFICES ASSUME NEW q \in Procs
             PROVE  /\ f2[q] # 0 => f2[q] \in DOMAIN o2 /\ (g2[q] = q => o2[f2[q]] = q)
                    /\ g2[q] = 0 => f2[q] = 0
  BY DEF Neat
<1>1. CASE q # p
  BY <1>1 DEF Neat
<1>2. CASE q = p /\ f2[p] = 0
  BY <1>2
<1>3. CASE q = p /\ f2[p] = f[p] /\ (g2[p] = g[p] \/ g[p] = 0)
  BY <1>3 DEF Neat
<1>4. CASE q = p /\ f2[p] \in DOMAIN o2 /\ o2[f2[p]] = p /\ g2[p] # 0
  BY <1>4
<1> QED
  BY <1>1, <1>2, <1>3, <1>4

(* One entry is put, or none. *)
LEMMA PutIs ==
  ASSUME NEW S, NEW f \in [Procs -> S], NEW t \in Threads, NEW v, NEW g,
         g = f \/ g = [f EXCEPT ![Of(t)] = v]
  PROVE  /\ \A q \in Procs: q # Of(t) => g[q] = f[q]
         /\ g = f \/ g[Of(t)] = v
BY OfIs

LEMMA GrowsIs ==
  ASSUME Having, NEW t \in Threads, opened' = opened \/ opened' = Append(opened, Of(t))
  PROVE  \A c \in DOMAIN opened: c \in DOMAIN opened' /\ opened'[c] = opened[c]
<1>1. opened \in Seq(Procs) /\ Of(t) \in Procs
  BY OfIs DEF Having
<1> QED
  BY <1>1, OpensIs

(* What is forgotten, or kept by a process that is not new, is as it was.   *)
LEMMA NeatKeeps ==
  ASSUME Having, NEW t \in Threads, NEW f \in [Procs -> Nat], Neat(f, generation, opened), NEW f2,
         opened' = opened \/ opened' = Append(opened, Of(t)),
         generation' = generation \/ generation' = [generation EXCEPT ![Of(t)] = Of(t)],
         \/ f2 = [f EXCEPT ![Of(t)] = 0]
         \/ f2 = f /\ (UNCHANGED generation \/ generation[Of(t)] \in {0, Of(t)})
  PROVE  Neat(f2, generation', opened')
<1>1. Of(t) \in Procs /\ DOMAIN f = Procs /\ DOMAIN generation = Procs
  BY OfIs DEF Having
<1>2. \A c \in DOMAIN opened: c \in DOMAIN opened' /\ opened'[c] = opened[c]
  BY GrowsIs
<1>3. \A q \in Procs: q # Of(t) => f2[q] = f[q]
  BY PutIs
<1>4. \A q \in Procs: q # Of(t) => generation'[q] = generation[q]
  BY PutIs DEF Having
<1>5. \/ f2[Of(t)] = 0
      \/ /\ f2[Of(t)] = f[Of(t)]
         /\ generation'[Of(t)] = generation[Of(t)] \/ generation[Of(t)] = 0
  BY <1>1
<1> QED
  BY <1>1, <1>2, <1>3, <1>4, <1>5, NeatPut

LEMMA CachedKeeps ==
  ASSUME Having, Cached, NEW t \in Threads,
         opened' = opened \/ opened' = Append(opened, Of(t)),
         generation' = generation \/ generation' = [generation EXCEPT ![Of(t)] = Of(t)],
         \/ /\ ssh' = [ssh EXCEPT ![Of(t)] = 0] /\ sftp' = [sftp EXCEPT ![Of(t)] = 0]
            /\ login' = [login EXCEPT ![Of(t)] = 0]
         \/ /\ UNCHANGED generation \/ generation[Of(t)] \in {0, Of(t)}
            /\ ssh' = ssh \/ ssh' = [ssh EXCEPT ![Of(t)] = 0]
            /\ sftp' = sftp \/ sftp' = [sftp EXCEPT ![Of(t)] = 0]
            /\ login' = login \/ login' = [login EXCEPT ![Of(t)] = 0]
  PROVE  Cached'
<1>1. /\ ssh \in [Procs -> Nat] /\ sftp \in [Procs -> Nat] /\ login \in [Procs -> Nat]
      /\ Neat(ssh, generation, opened) /\ Neat(sftp, generation, opened)
      /\ Neat(login, generation, opened)
  BY DEF Having, Cached
<1>2. Neat(ssh', generation', opened')
  BY <1>1, NeatKeeps
<1>3. Neat(sftp', generation', opened')
  BY <1>1, NeatKeeps
<1>4. Neat(login', generation', opened')
  BY <1>1, NeatKeeps
<1> QED
  BY <1>2, <1>3, <1>4 DEF Cached

(* What a process has cached is its own. *)
LEMMA CachedStep ==
  ASSUME Typed, Doing, Having, TypeOK, Own, OnOwn, Cached, [Next]_vars
  PROVE  Cached'
<1>0. ASSUME UNCHANGED vars PROVE Cached'
  BY <1>0 DEF vars, Cached
<1> SUFFICES ASSUME NEW t \in Threads,
                    \/ Step(t)
                    \/ \E op \in Calls[t]: Begin(t, op)
                    \/ Fork \/ Lose \/ CommandEnds
             PROVE  Cached'
  BY <1>0 DEF Next, Threads
<1>1. ASSUME NEW op \in Calls[t], Begin(t, op) PROVE Cached'
  BY <1>1, BeginDoes, CachedKeeps
<1>2. ASSUME Access(t) PROVE Cached'
  BY <1>2, AccessDoes, CachedKeeps DEF Same, At1, HasIt
<1>3. ASSUME Dial(t) PROVE Cached'
  <2>1. /\ UNCHANGED <<sftp, login, generation>>
        /\ opened' = opened \/ opened' = Append(opened, Of(t))
    BY <1>3, DialDoes
  <2>2. /\ Neat(ssh, generation, opened) /\ Neat(sftp, generation, opened)
        /\ Neat(login, generation, opened) /\ ssh \in [Procs -> Nat]
        /\ sftp \in [Procs -> Nat] /\ login \in [Procs -> Nat] /\ Of(t) \in Procs
    BY OfIs DEF Cached, Having
  <2>3. Neat(sftp', generation', opened')
    BY <2>1, <2>2, NeatKeeps
  <2>4. Neat(login', generation', opened')
    BY <2>1, <2>2, NeatKeeps
  <2>5. CASE ssh' = ssh \/ ssh' = [ssh EXCEPT ![Of(t)] = 0]
    BY <2>1, <2>2, <2>3, <2>4, <2>5, NeatKeeps DEF Cached
  <2>6. CASE ssh' = [ssh EXCEPT ![Of(t)] = Len(opened) + 1] /\ ssh' # ssh
    <3>1. ssh'[Of(t)] = Len(opened) + 1 /\ \A q \in Procs: q # Of(t) => ssh'[q] = ssh[q]
      BY <2>2, <2>6
    <3>2. generation[Of(t)] = Of(t) /\ Of(t) # 0
      <4>1. th[t].at \in Within
        BY <1>3, DialDoes DEF Within, WithConn
      <4>2. Of(t) # 0
        BY DEF Of
      <4> QED
        BY <4>1, <4>2, OwnAt
    <3>3. Len(opened) + 1 \in DOMAIN opened' /\ opened'[Len(opened) + 1] = Of(t)
      <4>1. opened' = Append(opened, Of(t))
        BY <1>3, <2>6, DialDoes
      <4>2. opened \in Seq(Procs)
        BY DEF Having
      <4> QED
        BY <2>2, <4>1, <4>2, OpensIs
    <3>4. \A c \in DOMAIN opened: c \in DOMAIN opened' /\ opened'[c] = opened[c]
      BY <2>1, GrowsIs
    <3>5. /\ ssh'[Of(t)] \in DOMAIN opened' /\ opened'[ssh'[Of(t)]] = Of(t)
          /\ generation'[Of(t)] # 0
      BY <2>1, <3>1, <3>2, <3>3
    <3>6. \A q \in Procs: q # Of(t) => ssh'[q] = ssh[q] /\ generation'[q] = generation[q]
      BY <2>1, <3>1
    <3>7. Neat(ssh', generation', opened')
      BY <2>2, <3>4, <3>5, <3>6, NeatPut
    <3> QED
      BY <2>3, <2>4, <3>7 DEF Cached
  <2> QED
    BY <1>3, <2>5, <2>6, DialDoes
<1>4. ASSUME Backend(t) PROVE Cached'
  <2>1. /\ UNCHANGED <<ssh, login, generation>>
        /\ opened' = opened \/ opened' = Append(opened, Of(t))
    BY <1>4, BackendDoes DEF Asks
  <2>2. /\ Neat(ssh, generation, opened) /\ Neat(sftp, generation, opened)
        /\ Neat(login, generation, opened) /\ sftp \in [Procs -> Nat]
        /\ ssh \in [Procs -> Nat] /\ login \in [Procs -> Nat] /\ Of(t) \in Procs
    BY OfIs DEF Cached, Having
  <2>3. Neat(ssh', generation', opened')
    BY <2>1, <2>2, NeatKeeps
  <2>4. Neat(login', generation', opened')
    BY <2>1, <2>2, NeatKeeps
  <2>5. CASE sftp' = sftp \/ sftp' = [sftp EXCEPT ![Of(t)] = 0]
    BY <2>1, <2>2, <2>3, <2>4, <2>5, NeatKeeps DEF Cached
  <2>6. CASE sftp' = [sftp EXCEPT ![Of(t)] = th[t].conn] /\ sftp' # sftp
    <3>1. sftp'[Of(t)] = th[t].conn /\ \A q \in Procs: q # Of(t) => sftp'[q] = sftp[q]
      BY <2>2, <2>6
    <3>2. generation[Of(t)] = Of(t) /\ Of(t) # 0
      <4>1. th[t].at \in Within
        BY <1>4, BackendDoes DEF Within, WithConn
      <4>2. Of(t) # 0
        BY DEF Of
      <4> QED
        BY <4>1, <4>2, OwnAt
    <3>3. th[t].conn \in DOMAIN opened' /\ opened'[th[t].conn] = Of(t)
      <4>1. th[t].at \in WithConn /\ UNCHANGED opened
        BY <1>4, BackendDoes DEF WithConn
      <4> QED
        BY <4>1, OnOwnAt
    <3>4. \A c \in DOMAIN opened: c \in DOMAIN opened' /\ opened'[c] = opened[c]
      BY <2>1, GrowsIs
    <3>5. /\ sftp'[Of(t)] \in DOMAIN opened' /\ opened'[sftp'[Of(t)]] = Of(t)
          /\ generation'[Of(t)] # 0
      BY <2>1, <3>1, <3>2, <3>3
    <3>6. \A q \in Procs: q # Of(t) => sftp'[q] = sftp[q] /\ generation'[q] = generation[q]
      BY <2>1, <3>1
    <3>7. Neat(sftp', generation', opened')
      BY <2>2, <3>4, <3>5, <3>6, NeatPut
    <3> QED
      BY <2>3, <2>4, <3>7 DEF Cached
  <2> QED
    BY <1>4, <2>5, <2>6, BackendDoes
<1>5. ASSUME Use(t) PROVE Cached'
  BY <1>5, UseDoes, CachedKeeps
<1>6. ASSUME Relative(t) PROVE Cached'
  BY <1>6, RelativeDoes, CachedKeeps DEF Same
<1>7. ASSUME Login(t) PROVE Cached'
  <2>1. /\ UNCHANGED <<ssh, sftp, generation>>
        /\ opened' = opened \/ opened' = Append(opened, Of(t))
    BY <1>7, LoginDoes
  <2>2. /\ Neat(ssh, generation, opened) /\ Neat(sftp, generation, opened)
        /\ Neat(login, generation, opened) /\ login \in [Procs -> Nat]
        /\ ssh \in [Procs -> Nat] /\ sftp \in [Procs -> Nat] /\ Of(t) \in Procs
    BY OfIs DEF Cached, Having
  <2>3. Neat(ssh', generation', opened')
    BY <2>1, <2>2, NeatKeeps
  <2>4. Neat(sftp', generation', opened')
    BY <2>1, <2>2, NeatKeeps
  <2>5. CASE login' = login \/ login' = [login EXCEPT ![Of(t)] = 0]
    BY <2>1, <2>2, <2>3, <2>4, <2>5, NeatKeeps DEF Cached
  <2>6. CASE login' = [login EXCEPT ![Of(t)] = th[t].conn] /\ login' # login
    <3>1. login'[Of(t)] = th[t].conn /\ \A q \in Procs: q # Of(t) => login'[q] = login[q]
      BY <2>2, <2>6
    <3>2. generation[Of(t)] = Of(t) /\ Of(t) # 0
      <4>1. th[t].at \in Within
        BY <1>7, LoginDoes DEF Within, WithConn
      <4>2. Of(t) # 0
        BY DEF Of
      <4> QED
        BY <4>1, <4>2, OwnAt
    <3>3. th[t].conn \in DOMAIN opened' /\ opened'[th[t].conn] = Of(t)
      <4>1. th[t].at \in WithConn /\ UNCHANGED opened
        BY <1>7, LoginDoes DEF WithConn
      <4> QED
        BY <4>1, OnOwnAt
    <3>4. \A c \in DOMAIN opened: c \in DOMAIN opened' /\ opened'[c] = opened[c]
      BY <2>1, GrowsIs
    <3>5. /\ login'[Of(t)] \in DOMAIN opened' /\ opened'[login'[Of(t)]] = Of(t)
          /\ generation'[Of(t)] # 0
      BY <2>1, <3>1, <3>2, <3>3
    <3>6. \A q \in Procs: q # Of(t) => login'[q] = login[q] /\ generation'[q] = generation[q]
      BY <2>1, <3>1
    <3>7. Neat(login', generation', opened')
      BY <2>2, <3>4, <3>5, <3>6, NeatPut
    <3> QED
      BY <2>3, <2>4, <3>7 DEF Cached
  <2> QED
    BY <1>7, <2>5, <2>6, LoginDoes
<1>8. ASSUME CloseChannel(t) PROVE Cached'
  BY <1>8, CloseChannelDoes, CachedKeeps
<1>9. ASSUME Flavour(t) PROVE Cached'
  BY <1>9, FlavourDoes, CachedKeeps DEF Same
<1>10. ASSUME Detect(t) PROVE Cached'
  BY <1>10, DetectDoes, CachedKeeps DEF Same
<1>11. ASSUME Create(t) PROVE Cached'
  BY <1>11, CreateDoes, CachedKeeps DEF Same, At1
<1>12. ASSUME Wait(t) PROVE Cached'
  BY <1>12, WaitDoes, CachedKeeps DEF Same, At1
<1>13. ASSUME Terminate(t) PROVE Cached'
  BY <1>13, TerminateDoes, CachedKeeps
<1>14. ASSUME Close(t) PROVE Cached'
  BY <1>14, CloseDoes, CachedKeeps DEF Same, At1
<1>15. ASSUME Invalidate(t) PROVE Cached'
  BY <1>15, InvalidateDoes, CachedKeeps DEF Same, At1
<1>16. ASSUME HangUp(t) PROVE Cached'
  BY <1>16, HangUpDoes, CachedKeeps DEF Same, At1
<1>17. ASSUME Closed(t) PROVE Cached'
  BY <1>17, ClosedDoes, CachedKeeps
<1>18. ASSUME Fork PROVE Cached'
  <2>1. /\ generation'[1] = generation[1] /\ generation'[2] = generation[1]
        /\ generation[1] \in {0, 1} /\ UNCHANGED opened
        /\ ssh'[1] = ssh[1] /\ ssh'[2] = ssh[1] /\ sftp'[1] = sftp[1] /\ sftp'[2] = sftp[1]
        /\ login'[1] = login[1] /\ login'[2] = login[1]
    BY <1>18 DEF Fork, Having, Own, Procs
  <2> QED
    BY <2>1 DEF Cached, Neat, Procs
<1>19. ASSUME Lose PROVE Cached'
  BY <1>19 DEF Lose, Cached
<1>20. ASSUME CommandEnds PROVE Cached'
  BY <1>20 DEF CommandEnds, Cached
<1> QED
  BY <1>1, <1>2, <1>3, <1>4, <1>5, <1>6, <1>7, <1>8, <1>9, <1>10, <1>11, <1>12,
     <1>13, <1>14, <1>15, <1>16, <1>17, <1>18, <1>19, <1>20 DEF Step

LEMMA UnopenedKeeps ==
  ASSUME Having, Unopened, NEW t \in Threads,
         generation' = generation \/ generation' = [generation EXCEPT ![Of(t)] = Of(t)],
         UNCHANGED opened \/ (opened' = Append(opened, Of(t)) /\ generation[Of(t)] = Of(t))
  PROVE  Unopened'
<1>1. /\ Of(t) \in Procs
      /\ \A p \in Procs: generation'[p] = generation[p] \/ (p = Of(t) /\ generation'[p] = p)
  BY OfIs DEF Having
<1>2. CASE UNCHANGED opened
  BY <1>1, <1>2 DEF Unopened
<1>3. CASE opened' = Append(opened, Of(t)) /\ generation[Of(t)] = Of(t)
  <2>1. opened \in Seq(Procs)
    BY DEF Having
  <2>2. \A c \in DOMAIN opened': opened'[c] = Of(t)
                                     \/ (c \in DOMAIN opened /\ opened'[c] = opened[c])
    BY <1>1, <1>3, <2>1, OpensIs
  <2> QED
    BY <1>1, <1>3, <2>2 DEF Unopened
<1> QED
  BY <1>2, <1>3

LEMMA UnopenedStep ==
  ASSUME Typed, Doing, Having, TypeOK, Own, Unopened, [Next]_vars
  PROVE  Unopened'
<1>0. ASSUME UNCHANGED vars PROVE Unopened'
  BY <1>0 DEF vars, Unopened
<1> SUFFICES ASSUME NEW t \in Threads,
                    \/ Step(t)
                    \/ \E op \in Calls[t]: Begin(t, op)
                    \/ Fork \/ Lose \/ CommandEnds
             PROVE  Unopened'
  BY <1>0 DEF Next, Threads
<1>1. ASSUME NEW op \in Calls[t], Begin(t, op) PROVE Unopened'
  BY <1>1, BeginDoes, UnopenedKeeps
<1>2. ASSUME Access(t) PROVE Unopened'
  BY <1>2, AccessDoes, UnopenedKeeps DEF Same, At1, HasIt
<1>3. ASSUME Dial(t) PROVE Unopened'
  BY <1>3, DialDoes, OwnAt, UnopenedKeeps DEF HasIt, Conns, Within
<1>4. ASSUME Backend(t) PROVE Unopened'
  BY <1>4, BackendDoes, UnopenedKeeps DEF Asks
<1>5. ASSUME Use(t) PROVE Unopened'
  BY <1>5, UseDoes, UnopenedKeeps
<1>6. ASSUME Relative(t) PROVE Unopened'
  BY <1>6, RelativeDoes, UnopenedKeeps DEF Same
<1>7. ASSUME Login(t) PROVE Unopened'
  BY <1>7, LoginDoes, UnopenedKeeps
<1>8. ASSUME CloseChannel(t) PROVE Unopened'
  BY <1>8, CloseChannelDoes, UnopenedKeeps
<1>9. ASSUME Flavour(t) PROVE Unopened'
  BY <1>9, FlavourDoes, UnopenedKeeps DEF Same
<1>10. ASSUME Detect(t) PROVE Unopened'
  BY <1>10, DetectDoes, UnopenedKeeps DEF Same
<1>11. ASSUME Create(t) PROVE Unopened'
  BY <1>11, CreateDoes, UnopenedKeeps DEF Same, At1
<1>12. ASSUME Wait(t) PROVE Unopened'
  BY <1>12, WaitDoes, UnopenedKeeps DEF Same, At1
<1>13. ASSUME Terminate(t) PROVE Unopened'
  BY <1>13, TerminateDoes, UnopenedKeeps
<1>14. ASSUME Close(t) PROVE Unopened'
  BY <1>14, CloseDoes, UnopenedKeeps DEF Same, At1
<1>15. ASSUME Invalidate(t) PROVE Unopened'
  BY <1>15, InvalidateDoes, UnopenedKeeps DEF Same, At1
<1>16. ASSUME HangUp(t) PROVE Unopened'
  BY <1>16, HangUpDoes, UnopenedKeeps DEF Same, At1
<1>17. ASSUME Closed(t) PROVE Unopened'
  BY <1>17, ClosedDoes, UnopenedKeeps
<1>18. ASSUME Fork PROVE Unopened'
  <2>1. UNCHANGED opened /\ generation'[1] = generation[1] /\ generation[2] = 0
    BY <1>18 DEF Fork, Having, Own, Procs
  <2> QED
    BY <2>1 DEF Unopened, Procs
<1>19. ASSUME Lose PROVE Unopened'
  BY <1>19 DEF Lose, Unopened
<1>20. ASSUME CommandEnds PROVE Unopened'
  BY <1>20 DEF CommandEnds, Unopened
<1> QED
  BY <1>1, <1>2, <1>3, <1>4, <1>5, <1>6, <1>7, <1>8, <1>9, <1>10, <1>11, <1>12,
     <1>13, <1>14, <1>15, <1>16, <1>17, <1>18, <1>19, <1>20 DEF Step

(* Nothing that is open is of a process that has just been forked. *)
LEMMA UnopenedAt ==
  ASSUME Unopened, NEW t \in Threads, generation[Of(t)] \notin {0, Of(t)}
  PROVE  \A c \in DOMAIN opened: opened[c] # Of(t)
BY OfIs DEF Unopened

(* A close leaves no connection of the process open. *)
LEMMA NoneLeft ==
  ASSUME Having, OneOpen, NEW t \in Threads,
         ssh[Of(t)] = 0 \/ dead' = dead \cup {ssh[Of(t)]}, dead \subseteq dead'
  PROVE  \A c \in DOMAIN opened: opened[c] = Of(t) => c \in dead'
<1>1. \A c \in DOMAIN opened: c # 0
  BY DEF Having
<1> QED
  BY <1>1 DEF OneOpen

LEMMA SteadyAt ==
  ASSUME Steady, NEW t \in Threads
  PROVE  Fits(th[t], ssh[Of(t)], dead)
BY DEF Steady

LEMMA SteadyDial ==
  ASSUME Steady, NEW t \in Threads, th[t].at = "dial"
  PROVE  ssh[Of(t)] = 0 \/ ssh[Of(t)] \in dead
BY SteadyAt DEF Fits

LEMMA OneOpenKeeps ==
  ASSUME Having, OneOpen, NEW t \in Threads, dead \subseteq dead',
         \/ UNCHANGED <<ssh, opened>>
         \/ /\ ssh' = [ssh EXCEPT ![Of(t)] = 0] /\ UNCHANGED opened
            /\ \A c \in DOMAIN opened: opened[c] = Of(t) => c \in dead'
         \/ /\ ssh' = [ssh EXCEPT ![Of(t)] = Len(opened) + 1]
            /\ opened' = Append(opened, Of(t)) /\ (ssh[Of(t)] = 0 \/ ssh[Of(t)] \in dead)
  PROVE  OneOpen'
<1>1. /\ Of(t) \in Procs /\ opened \in Seq(Procs) /\ DOMAIN ssh = Procs
      /\ \A c \in DOMAIN opened: c # 0 /\ opened[c] \in Procs
  BY OfIs DEF Having
<1>2. CASE UNCHANGED <<ssh, opened>>
  BY <1>2 DEF OneOpen
<1>3. CASE /\ ssh' = [ssh EXCEPT ![Of(t)] = 0] /\ UNCHANGED opened
           /\ \A c \in DOMAIN opened: opened[c] = Of(t) => c \in dead'
  BY <1>1, <1>3 DEF OneOpen
<1>4. CASE /\ ssh' = [ssh EXCEPT ![Of(t)] = Len(opened) + 1]
           /\ opened' = Append(opened, Of(t)) /\ (ssh[Of(t)] = 0 \/ ssh[Of(t)] \in dead)
  <2> SUFFICES ASSUME NEW c \in DOMAIN opened', c \notin dead' PROVE ssh'[opened'[c]] = c
    BY DEF OneOpen
  <2>1. CASE c = Len(opened) + 1
    BY <1>1, <1>4, <2>1, OpensIs
  <2>2. CASE c # Len(opened) + 1
    <3>1. c \in DOMAIN opened /\ opened'[c] = opened[c]
      BY <1>1, <1>4, <2>2, OpensIs
    <3>2. ssh[opened[c]] = c /\ c \notin dead
      BY <3>1 DEF OneOpen
    <3> QED
      BY <1>1, <1>4, <3>1, <3>2
  <2> QED
    BY <2>1, <2>2
<1> QED
  BY <1>2, <1>3, <1>4

(* The connection that is open is the one cached. *)
LEMMA OneOpenStep ==
  ASSUME Typed, Doing, Having, TypeOK, Own, Unopened, OneOpen, Steady, [Next]_vars
  PROVE  OneOpen'
<1>0. ASSUME UNCHANGED vars PROVE OneOpen'
  BY <1>0 DEF vars, OneOpen
<1> SUFFICES ASSUME NEW t \in Threads,
                    \/ Step(t)
                    \/ \E op \in Calls[t]: Begin(t, op)
                    \/ Fork \/ Lose \/ CommandEnds
             PROVE  OneOpen'
  BY <1>0 DEF Next, Threads
<1>1. ASSUME NEW op \in Calls[t], Begin(t, op) PROVE OneOpen'
  BY <1>1, BeginDoes, OneOpenKeeps
<1>2. ASSUME Access(t) PROVE OneOpen'
  BY <1>2, AccessDoes, UnopenedAt, OneOpenKeeps DEF Same, At1, HasIt
<1>3. ASSUME Dial(t) PROVE OneOpen'
  BY <1>3, DialDoes, SteadyDial, OneOpenKeeps DEF HasIt, Conns
<1>4. ASSUME Backend(t) PROVE OneOpen'
  BY <1>4, BackendDoes, OneOpenKeeps DEF Asks
<1>5. ASSUME Use(t) PROVE OneOpen'
  BY <1>5, UseDoes, OneOpenKeeps
<1>6. ASSUME Relative(t) PROVE OneOpen'
  BY <1>6, RelativeDoes, OneOpenKeeps DEF Same
<1>7. ASSUME Login(t) PROVE OneOpen'
  BY <1>7, LoginDoes, OneOpenKeeps
<1>8. ASSUME CloseChannel(t) PROVE OneOpen'
  BY <1>8, CloseChannelDoes, UnopenedAt, OneOpenKeeps
<1>9. ASSUME Flavour(t) PROVE OneOpen'
  BY <1>9, FlavourDoes, OneOpenKeeps DEF Same
<1>10. ASSUME Detect(t) PROVE OneOpen'
  BY <1>10, DetectDoes, OneOpenKeeps DEF Same
<1>11. ASSUME Create(t) PROVE OneOpen'
  BY <1>11, CreateDoes, OneOpenKeeps DEF Same, At1
<1>12. ASSUME Wait(t) PROVE OneOpen'
  BY <1>12, WaitDoes, OneOpenKeeps DEF Same, At1
<1>13. ASSUME Terminate(t) PROVE OneOpen'
  BY <1>13, TerminateDoes, OneOpenKeeps
<1>14. ASSUME Close(t) PROVE OneOpen'
  BY <1>14, CloseDoes, UnopenedAt, OneOpenKeeps DEF Same, At1
<1>15. ASSUME Invalidate(t) PROVE OneOpen'
  BY <1>15, InvalidateDoes, OneOpenKeeps DEF Same, At1
<1>16. ASSUME HangUp(t) PROVE OneOpen'
  BY <1>16, HangUpDoes, NoneLeft, OneOpenKeeps DEF Same, At1
<1>17. ASSUME Closed(t) PROVE OneOpen'
  BY <1>17, ClosedDoes, OneOpenKeeps
<1>18. ASSUME Fork PROVE OneOpen'
  <2>1. /\ \A c \in DOMAIN opened: opened[c] \in Procs /\ opened[c] # 2
        /\ ssh'[1] = ssh[1] /\ UNCHANGED <<opened, dead>>
    BY <1>18 DEF Fork, Having, Own, Unopened, Procs
  <2> QED
    BY <2>1 DEF OneOpen, Procs
<1>19. ASSUME Lose PROVE OneOpen'
  BY <1>19 DEF Lose, OneOpen
<1>20. ASSUME CommandEnds PROVE OneOpen'
  BY <1>20 DEF CommandEnds, OneOpen
<1> QED
  BY <1>1, <1>2, <1>3, <1>4, <1>5, <1>6, <1>7, <1>8, <1>9, <1>10, <1>11, <1>12,
     <1>13, <1>14, <1>15, <1>16, <1>17, <1>18, <1>19, <1>20 DEF Step

LEMMA SteadyKeeps ==
  ASSUME Having, Locked, Steady, NEW t \in Threads, Others(t), dead \subseteq dead',
         \/ UNCHANGED ssh
         \/ lock[Of(t)] \in {0, t} /\ \A q \in Procs: q # Of(t) => ssh'[q] = ssh[q],
         Fits(th'[t], ssh'[Of(t)], dead')
  PROVE  Steady'
<1> SUFFICES ASSUME NEW u \in Threads \ {t} PROVE Fits(th[u], ssh'[Of(u)], dead')
  BY DEF Steady, Others
<1>1. Fits(th[u], ssh[Of(u)], dead)
  BY SteadyAt
<1>2. CASE ssh'[Of(u)] = ssh[Of(u)]
  BY <1>1, <1>2 DEF Fits
<1>3. CASE lock[Of(t)] \in {0, t} /\ Of(u) = Of(t)
  <2>1. ~Locks(th[u])
    BY <1>3, Alone
  <2> QED
    BY <2>1 DEF Locks, Fits
<1> QED
  BY <1>2, <1>3, OfIs

(* A thread with the lock knows the connection there is. *)
LEMMA SteadyStep ==
  ASSUME Typed, Doing, Having, TypeOK, Own, Locked, Unopened, OneOpen, Steady, [Next]_vars
  PROVE  Steady'
<1>0. ASSUME UNCHANGED vars PROVE Steady'
  BY <1>0 DEF vars, Steady
<1> SUFFICES ASSUME NEW t \in Threads,
                    \/ Step(t)
                    \/ \E op \in Calls[t]: Begin(t, op)
                    \/ Fork \/ Lose \/ CommandEnds
             PROVE  Steady'
  BY <1>0 DEF Next, Threads
<1>1. ASSUME NEW op \in Calls[t], Begin(t, op) PROVE Steady'
  BY <1>1, BeginDoes, SteadyKeeps, SteadyAt, IdleIs DEF Fits
<1>2. ASSUME Access(t) PROVE Steady'
  <2>1. Others(t) /\ dead \subseteq dead'
    BY <1>2, AccessDoes DEF Same, At1, HasIt
  <2>2. lock[Of(t)] \in {0, t} /\ (ssh' = ssh \/ ssh' = [ssh EXCEPT ![Of(t)] = 0])
    BY <1>2, AccessDoes DEF Same, At1, HasIt
  <2>3. \A q \in Procs: q # Of(t) => ssh'[q] = ssh[q]
    BY <2>2, PutIs DEF Having
  <2>4. Fits(th'[t], ssh'[Of(t)], dead')
    BY <1>2, AccessDoes, IdleIs DEF Same, At1, HasIt, Fits
  <2> QED
    BY <2>1, <2>2, <2>3, <2>4, SteadyKeeps
<1>3. ASSUME Dial(t) PROVE Steady'
  <2>1. Others(t) /\ dead \subseteq dead'
    BY <1>3, DialDoes DEF HasIt, Conns
  <2>2. lock[Of(t)] \in {0, t} /\ (ssh' = ssh \/ ssh' = [ssh EXCEPT ![Of(t)] = Len(opened) + 1])
    BY <1>3, DialDoes DEF HasIt, Conns, Locked, Locks
  <2>3. \A q \in Procs: q # Of(t) => ssh'[q] = ssh[q]
    BY <2>2, PutIs DEF Having
  <2>4. Fits(th'[t], ssh'[Of(t)], dead')
    <3>1. ssh' = [ssh EXCEPT ![Of(t)] = Len(opened) + 1] => ssh'[Of(t)] = Len(opened) + 1
      BY OfIs DEF Having
    <3>2. \/ th'[t] = Idle
          \/ /\ ssh' = [ssh EXCEPT ![Of(t)] = Len(opened) + 1]
             /\ th'[t].conn = Len(opened) + 1
             /\ th'[t].at \in {"backend", "detect", "login", "relative", "create"}
      BY <1>3, DialDoes DEF HasIt
    <3> QED
      BY <3>1, <3>2, IdleIs DEF Fits
  <2> QED
    BY <2>1, <2>2, <2>3, <2>4, SteadyKeeps
<1>4. ASSUME Backend(t) PROVE Steady'
  BY <1>4, BackendDoes, SteadyKeeps, SteadyAt, IdleIs DEF Asks, Fits
<1>5. ASSUME Use(t) PROVE Steady'
  BY <1>5, UseDoes, SteadyKeeps, SteadyAt, IdleIs DEF Fits
<1>6. ASSUME Relative(t) PROVE Steady'
  BY <1>6, RelativeDoes, SteadyKeeps, SteadyAt, IdleIs DEF Same, Fits
<1>7. ASSUME Login(t) PROVE Steady'
  BY <1>7, LoginDoes, SteadyKeeps, SteadyAt, IdleIs DEF Fits
<1>8. ASSUME CloseChannel(t) PROVE Steady'
  <2>1. Others(t) /\ dead \subseteq dead'
    BY <1>8, CloseChannelDoes
  <2>2. lock[Of(t)] \in {0, t} /\ (ssh' = ssh \/ ssh' = [ssh EXCEPT ![Of(t)] = 0])
    BY <1>8, CloseChannelDoes
  <2>3. \A q \in Procs: q # Of(t) => ssh'[q] = ssh[q]
    BY <2>2, PutIs DEF Having
  <2>4. Fits(th'[t], ssh'[Of(t)], dead')
    BY <1>8, CloseChannelDoes, IdleIs DEF Fits
  <2> QED
    BY <2>1, <2>2, <2>3, <2>4, SteadyKeeps
<1>9. ASSUME Flavour(t) PROVE Steady'
  BY <1>9, FlavourDoes, SteadyKeeps, SteadyAt, IdleIs DEF Same, Fits
<1>10. ASSUME Detect(t) PROVE Steady'
  BY <1>10, DetectDoes, SteadyKeeps, SteadyAt, IdleIs DEF Same, Fits
<1>11. ASSUME Create(t) PROVE Steady'
  BY <1>11, CreateDoes, SteadyKeeps, SteadyAt, IdleIs DEF Same, At1, Fits
<1>12. ASSUME Wait(t) PROVE Steady'
  BY <1>12, WaitDoes, SteadyKeeps, SteadyAt, IdleIs DEF Same, At1, Fits
<1>13. ASSUME Terminate(t) PROVE Steady'
  BY <1>13, TerminateDoes, SteadyKeeps, SteadyAt, IdleIs DEF Fits
<1>14. ASSUME Close(t) PROVE Steady'
  <2>1. Others(t) /\ dead \subseteq dead'
    BY <1>14, CloseDoes DEF Same, At1
  <2>2. lock[Of(t)] \in {0, t} /\ (ssh' = ssh \/ ssh' = [ssh EXCEPT ![Of(t)] = 0])
    BY <1>14, CloseDoes DEF Same, At1
  <2>3. \A q \in Procs: q # Of(t) => ssh'[q] = ssh[q]
    BY <2>2, PutIs DEF Having
  <2>4. Fits(th'[t], ssh'[Of(t)], dead')
    BY <1>14, CloseDoes, IdleIs DEF Same, At1, Fits
  <2> QED
    BY <2>1, <2>2, <2>3, <2>4, SteadyKeeps
<1>15. ASSUME Invalidate(t) PROVE Steady'
  BY <1>15, InvalidateDoes, SteadyKeeps, SteadyAt, IdleIs DEF Same, At1, Fits
<1>16. ASSUME HangUp(t) PROVE Steady'
  <2>1. Others(t) /\ dead \subseteq dead'
    BY <1>16, HangUpDoes DEF Same, At1
  <2>2. lock[Of(t)] \in {0, t} /\ (ssh' = ssh \/ ssh' = [ssh EXCEPT ![Of(t)] = 0])
    BY <1>16, HangUpDoes DEF Same, At1, Locked, Locks
  <2>3. \A q \in Procs: q # Of(t) => ssh'[q] = ssh[q]
    BY <2>2, PutIs DEF Having
  <2>4. Fits(th'[t], ssh'[Of(t)], dead')
    BY <1>16, HangUpDoes, IdleIs DEF Same, At1, Fits
  <2> QED
    BY <2>1, <2>2, <2>3, <2>4, SteadyKeeps
<1>17. ASSUME Closed(t) PROVE Steady'
  BY <1>17, ClosedDoes, SteadyKeeps, SteadyAt, IdleIs DEF Fits
<1>18. ASSUME Fork PROVE Steady'
  <2>1. th[Child].at = "idle" /\ ssh'[1] = ssh[1] /\ UNCHANGED <<th, dead>>
    BY <1>18 DEF Fork, Having, Own, Procs
  <2>2. \A u \in Threads \ {Child}: Of(u) = 1
    BY DEF Of
  <2>3. \A u \in Threads: Fits(th[u], ssh'[Of(u)], dead)
    BY <2>1, <2>2, SteadyAt DEF Fits
  <2> QED
    BY <2>1, <2>3 DEF Steady
<1>19. ASSUME Lose PROVE Steady'
  BY <1>19, SteadyAt DEF Lose, Steady, Fits
<1>20. ASSUME CommandEnds PROVE Steady'
  BY <1>20 DEF CommandEnds, Steady
<1> QED
  BY <1>1, <1>2, <1>3, <1>4, <1>5, <1>6, <1>7, <1>8, <1>9, <1>10, <1>11, <1>12,
     <1>13, <1>14, <1>15, <1>16, <1>17, <1>18, <1>19, <1>20 DEF Step

LEMMA IdlePast ==
  ASSUME NEW d
  PROVE  Past(Idle, d)
BY IdleIs DEF Past

LEMMA SaneAt ==
  ASSUME Doing, NEW t \in Threads
  PROVE  Sane(th[t])
BY DEF Doing

LEMMA QuietPast ==
  ASSUME NEW t \in Threads, Sane(th[t]),
         \/ th'[t] = Idle
         \/ /\ th[t].at # "idle" /\ th'[t].at \notin {"closed", "use"}
            /\ th'[t].end = th[t].end
  PROVE  Past(th'[t], dead')
BY IdleIs DEF Past, Sane

LEMMA KeptKeeps ==
  ASSUME Kept, NEW t \in Threads, Others(t), dead \subseteq dead',
         Past(th[t], dead) => Past(th'[t], dead')
  PROVE  Kept'
BY DEF Kept, Others, Past

(* A close closes what there was, a request goes to what there was. *)
LEMMA KeptStep ==
  ASSUME Typed, Doing, Having, TypeOK, Steady, Kept, [Next]_vars
  PROVE  Kept'
<1>0. ASSUME UNCHANGED vars PROVE Kept'
  BY <1>0 DEF vars, Kept, Past
<1> SUFFICES ASSUME NEW t \in Threads,
                    \/ Step(t)
                    \/ \E op \in Calls[t]: Begin(t, op)
                    \/ Fork \/ Lose \/ CommandEnds
             PROVE  Kept'
  BY <1>0 DEF Next, Threads
<1>1. ASSUME NEW op \in Calls[t], Begin(t, op) PROVE Kept'
  BY <1>1, BeginDoes, IdlePast, SaneAt, KeptKeeps DEF Past, Sane
<1>2. ASSUME Access(t) PROVE Kept'
  <2>1. Others(t)
    BY <1>2, AccessDoes DEF Same, At1, HasIt
  <2>2. dead \subseteq dead'
    BY <1>2, AccessDoes DEF Same, At1, HasIt
  <2>3. \/ th'[t] = Idle
        \/ /\ th[t].at # "idle" /\ th'[t].at \notin {"closed", "use"}
           /\ th'[t].end = th[t].end
    BY <1>2, AccessDoes DEF Same, At1, HasIt
  <2>4. Past(th'[t], dead')
    BY <2>3, QuietPast, SaneAt DEF Past
  <2> QED
    BY <2>1, <2>2, <2>3, <2>4, KeptKeeps
<1>3. ASSUME Dial(t) PROVE Kept'
  BY <1>3, DialDoes, IdlePast, SaneAt, KeptKeeps DEF HasIt, Conns, Past, Sane
<1>4. ASSUME Backend(t) PROVE Kept'
  <2>1. /\ Others(t)
        /\ dead \subseteq dead'
        /\ Past(th[t], dead) => Past(th'[t], dead')
    BY <1>4, BackendDoes, SteadyAt, IdlePast, SaneAt DEF Asks, Past, Sane, Fits
  <2> QED
    BY <2>1, KeptKeeps
<1>5. ASSUME Use(t) PROVE Kept'
  BY <1>5, UseDoes, IdlePast, SaneAt, KeptKeeps DEF Past, Sane
<1>6. ASSUME Relative(t) PROVE Kept'
  <2>1. Others(t)
    BY <1>6, RelativeDoes DEF Same
  <2>2. dead \subseteq dead'
    BY <1>6, RelativeDoes DEF Same
  <2>3. \/ th'[t] = Idle
        \/ /\ th[t].at # "idle" /\ th'[t].at \notin {"closed", "use"}
           /\ th'[t].end = th[t].end
    BY <1>6, RelativeDoes DEF Same
  <2>4. Past(th'[t], dead')
    BY <2>3, QuietPast, SaneAt DEF Past
  <2> QED
    BY <2>1, <2>2, <2>3, <2>4, KeptKeeps
<1>7. ASSUME Login(t) PROVE Kept'
  BY <1>7, LoginDoes, IdlePast, SaneAt, KeptKeeps DEF Past, Sane
<1>8. ASSUME CloseChannel(t) PROVE Kept'
  <2>1. Others(t) /\ th'[t] = Idle /\ UNCHANGED dead
    BY <1>8, CloseChannelDoes
  <2> QED
    BY <2>1, IdlePast, KeptKeeps
<1>9. ASSUME Flavour(t) PROVE Kept'
  BY <1>9, FlavourDoes, IdlePast, SaneAt, KeptKeeps DEF Same, Past, Sane
<1>10. ASSUME Detect(t) PROVE Kept'
  BY <1>10, DetectDoes, IdlePast, SaneAt, KeptKeeps DEF Same, Past, Sane
<1>11. ASSUME Create(t) PROVE Kept'
  BY <1>11, CreateDoes, IdlePast, SaneAt, KeptKeeps DEF Same, At1, Past, Sane
<1>12. ASSUME Wait(t) PROVE Kept'
  BY <1>12, WaitDoes, IdlePast, SaneAt, KeptKeeps DEF Same, At1, Past, Sane
<1>13. ASSUME Terminate(t) PROVE Kept'
  BY <1>13, TerminateDoes, IdlePast, SaneAt, KeptKeeps DEF Past, Sane
<1>14. ASSUME Close(t) PROVE Kept'
  <2>1. Others(t) /\ UNCHANGED dead
    BY <1>14, CloseDoes DEF At1
  <2>2. CASE th'[t].at = "invalidate"
    <3>1. At(t, "close") /\ th'[t].end = th[t].end
      BY <1>14, CloseDoes DEF At1, Same
    <3>2. Past(th'[t], dead')
      BY <2>2, <3>1, QuietPast, SaneAt DEF At
    <3> QED
      BY <2>1, <3>2, KeptKeeps
  <2>3. CASE th'[t].at # "invalidate"
    <3>1. At(t, "close") /\ th'[t].at = "closed" /\ th'[t].was = th[t].was
      BY <1>14, <2>3, CloseDoes DEF At1, Same
    <3>2. th[t].was = 0
      BY <3>1, SaneAt DEF At, Sane
    <3>3. Past(th'[t], dead')
      BY <3>1, <3>2 DEF Past
    <3> QED
      BY <2>1, <3>3, KeptKeeps
  <2> QED
    BY <2>2, <2>3
<1>15. ASSUME Invalidate(t) PROVE Kept'
  BY <1>15, InvalidateDoes, IdlePast, SaneAt, KeptKeeps DEF Same, At1, Past, Sane
<1>16. ASSUME HangUp(t) PROVE Kept'
  <2>1. Others(t)
    BY <1>16, HangUpDoes DEF Same, At1
  <2>2. dead \subseteq dead'
    BY <1>16, HangUpDoes DEF Same, At1
  <2>3. /\ th'[t].at = "closed" /\ th'[t].was = ssh[Of(t)]
        /\ ssh[Of(t)] = 0 \/ dead' = dead \cup {ssh[Of(t)]}
    BY <1>16, HangUpDoes, SteadyAt DEF Same, At1, Fits
  <2>4. Past(th[t], dead) => Past(th'[t], dead')
    BY <2>3 DEF Past
  <2> QED
    BY <2>1, <2>2, <2>3, <2>4, KeptKeeps
<1>17. ASSUME Closed(t) PROVE Kept'
  <2>1. Others(t)
    BY <1>17, ClosedDoes
  <2>2. dead \subseteq dead'
    BY <1>17, ClosedDoes
  <2>3. /\ th[t].at = "closed" /\ th'[t].at = "idle"
        /\ th'[t].was = th[t].was /\ UNCHANGED dead
    BY <1>17, ClosedDoes
  <2>4. Past(th[t], dead) => Past(th'[t], dead')
    BY <2>3 DEF Past
  <2> QED
    BY <2>1, <2>2, <2>3, <2>4, KeptKeeps
<1>18. ASSUME Fork PROVE Kept'
  BY <1>18 DEF Fork, Busy, Kept, Past
<1>19. ASSUME Lose PROVE Kept'
  BY <1>19 DEF Lose, Kept, Past
<1>20. ASSUME CommandEnds PROVE Kept'
  BY <1>20 DEF CommandEnds, Kept, Past
<1> QED
  BY <1>1, <1>2, <1>3, <1>4, <1>5, <1>6, <1>7, <1>8, <1>9, <1>10, <1>11, <1>12,
     <1>13, <1>14, <1>15, <1>16, <1>17, <1>18, <1>19, <1>20 DEF Step

(* The connection that is open in a process is that of a thread that asks  *)
(* for a backend.                                                          *)
LEMMA AtBackend ==
  ASSUME OneOpen, Steady, NEW t \in Threads, th[t].at = "backend"
  PROVE  \A c \in DOMAIN opened \ dead: opened[c] = Of(t) => th[t].conn = c
BY SteadyAt DEF OneOpen, Fits

LEMMA OpenedIs ==
  ASSUME Having
  PROVE  \A c \in DOMAIN opened: opened[c] \in Procs
BY DEF Having

LEMMA ChannelsPrimed ==
  ASSUME \A c \in DOMAIN opened' \ dead':
             c \in channels' \/ (\E u \in Threads: th'[u].at = "use" /\ th'[u].conn = c) =>
                 \/ sftp'[opened'[c]] = c
                 \/ \E u \in Threads: th'[u].at = "hang up" /\ Of(u) = opened'[c]
  PROVE  Channels'
BY DEF Channels, MayHave, HangsUp

(* What a step of t does to the channels of its own process, and what      *)
(* keeps those of the others.                                              *)
LEMMA ChannelsKeep ==
  ASSUME Having, Channels, NEW t \in Threads, Others(t), UNCHANGED opened,
         dead \subseteq dead',
         \A q \in Procs: q # Of(t) => sftp'[q] = sftp[q],
         \A c \in channels': MayHave(c),
         th'[t].at = "use" => opened[th'[t].conn] = Of(t),
         \A c \in DOMAIN opened \ dead': opened[c] = Of(t) =>
             \/ sftp'[Of(t)] = c
             \/ th'[t].at = "hang up"
             \/ ~MayHave(c) /\ th'[t].at # "use"
             \/ UNCHANGED sftp /\ th[t].at # "hang up" /\ th'[t].at # "use"
  PROVE  Channels'
<1> SUFFICES ASSUME NEW c \in DOMAIN opened \ dead',
                    c \in channels' \/ \E u \in Threads: th'[u].at = "use" /\ th'[u].conn = c
             PROVE  \/ sftp'[opened[c]] = c
                    \/ \E u \in Threads: th'[u].at = "hang up" /\ Of(u) = opened[c]
  BY ChannelsPrimed
<1>1. opened[c] \in Procs /\ c \notin dead
  <2>1. c \notin dead
    OBVIOUS
  <2> QED
    BY <2>1, OpenedIs
<1>2. ASSUME th'[t].at # "use" \/ opened[c] # Of(t) PROVE MayHave(c)
  BY <1>2 DEF MayHave, Others
<1>3. ASSUME MayHave(c) PROVE sftp[opened[c]] = c \/ HangsUp(opened[c])
  BY <1>1, <1>3 DEF Channels
<1>4. CASE opened[c] # Of(t)
  <2>1. sftp[opened[c]] = c \/ HangsUp(opened[c])
    BY <1>2, <1>3, <1>4
  <2>2. sftp'[opened[c]] = sftp[opened[c]]
    BY <1>1, <1>4
  <2>3. ASSUME NEW u \in Threads, th[u].at = "hang up", Of(u) = opened[c]
        PROVE  th'[u].at = "hang up"
    BY <1>4, <2>3 DEF Others
  <2> QED
    BY <2>1, <2>2, <2>3 DEF HangsUp
<1>5. CASE opened[c] = Of(t)
  <2>1. CASE sftp'[Of(t)] = c \/ th'[t].at = "hang up"
    BY <1>5, <2>1
  <2>2. CASE ~MayHave(c) /\ th'[t].at # "use"
    BY <1>2, <2>2
  <2>3. CASE UNCHANGED sftp /\ th[t].at # "hang up" /\ th'[t].at # "use"
    <3>1. sftp[opened[c]] = c \/ HangsUp(opened[c])
      BY <1>2, <1>3, <2>3
    <3>2. ASSUME NEW u \in Threads, th[u].at = "hang up", Of(u) = opened[c]
          PROVE  th'[u].at = "hang up"
      BY <2>3, <3>2 DEF Others
    <3> QED
      BY <2>3, <3>1, <3>2 DEF HangsUp
  <2> QED
    BY <1>5, <2>1, <2>2, <2>3
<1> QED
  BY <1>4, <1>5

(* A backend that a thread finds to be another's has no channel that the   *)
(* thread's connection, or any thread over it, may have.                   *)
LEMMA NotYet ==
  ASSUME Having, Locked, OneOpen, Steady, Channels, NEW t \in Threads,
         th[t].at = "backend", sftp[Of(t)] # th[t].conn
  PROVE  \A c \in DOMAIN opened \ dead: opened[c] = Of(t) => ~MayHave(c)
<1> TAKE c \in DOMAIN opened \ dead
<1> SUFFICES ASSUME opened[c] = Of(t), MayHave(c) PROVE FALSE
  OBVIOUS
<1>1. th[t].conn = c
  BY AtBackend
<1>2. HangsUp(Of(t))
  BY <1>1 DEF Channels
<1>3. PICK u \in Threads: th[u].at = "hang up" /\ Of(u) = Of(t)
  BY <1>2 DEF HangsUp
<1>4. Locks(th[t]) /\ Locks(th[u])
  BY <1>3 DEF Locks
<1>5. lock[Of(t)] = t /\ lock[Of(t)] = u
  BY <1>3, <1>4 DEF Locked
<1> QED
  BY <1>3, <1>5

(* An open channel is that of the backend cached. *)
LEMMA ChannelsStep ==
  ASSUME Typed, Doing, Having, TypeOK, Own, Locked, OnOwn, Unopened, OneOpen,
         Steady, Channels, [Next]_vars
  PROVE  Channels'
<1>0. ASSUME UNCHANGED vars PROVE Channels'
  BY <1>0 DEF vars, Channels, MayHave, HangsUp
<1> SUFFICES ASSUME NEW t \in Threads,
                    \/ Step(t)
                    \/ \E op \in Calls[t]: Begin(t, op)
                    \/ Fork \/ Lose \/ CommandEnds
             PROVE  Channels'
  BY <1>0 DEF Next, Threads
<1>1. ASSUME NEW op \in Calls[t], Begin(t, op) PROVE Channels'
  BY <1>1, BeginDoes, ChannelsKeep, IdleIs DEF MayHave
<1>2. ASSUME Access(t) PROVE Channels'
  <2>1. Others(t) /\ UNCHANGED opened /\ dead \subseteq dead'
    BY <1>2, AccessDoes DEF Same, At1, HasIt
  <2>2. sftp' = sftp \/ sftp' = [sftp EXCEPT ![Of(t)] = 0]
    BY <1>2, AccessDoes DEF Same, At1, HasIt
  <2>3. \A q \in Procs: q # Of(t) => sftp'[q] = sftp[q]
    BY <2>2, PutIs DEF Having
  <2>5. \A c \in channels': MayHave(c)
    <3>1. channels' \subseteq channels
      BY <1>2, AccessDoes DEF Same, At1, HasIt
    <3> QED
      BY <3>1 DEF MayHave
  <2>6. /\ th'[t].at # "use" /\ th[t].at # "hang up"
        /\ UNCHANGED sftp \/ generation[Of(t)] \notin {0, Of(t)}
    BY <1>2, AccessDoes, IdleIs DEF Same, At1, HasIt
  <2>7. UNCHANGED sftp \/ \A c \in DOMAIN opened: opened[c] # Of(t)
    BY <2>6, UnopenedAt
  <2> QED
    BY <2>1, <2>3, <2>5, <2>6, <2>7, ChannelsKeep
<1>3. ASSUME Dial(t) PROVE Channels'
  <2>1. CASE UNCHANGED opened
    <3>1. /\ Others(t) /\ UNCHANGED <<sftp, channels, dead>>
          /\ th'[t].at # "use" /\ th[t].at # "hang up"
      BY <1>3, DialDoes, IdleIs DEF HasIt
    <3>2. \A c \in channels': MayHave(c)
      BY <3>1 DEF MayHave
    <3> QED
      BY <2>1, <3>1, <3>2, ChannelsKeep
  <2>2. CASE opened' # opened
    <3>1. /\ opened' = Append(opened, Of(t)) /\ Others(t) /\ UNCHANGED <<sftp, channels, dead>>
          /\ th'[t].at # "use" /\ th[t].at # "hang up"
      BY <1>3, <2>2, DialDoes, IdleIs DEF HasIt
    <3>2. \A c: (c \in channels' \/ \E u \in Threads: th'[u].at = "use" /\ th'[u].conn = c)
                => MayHave(c) /\ c \in DOMAIN opened
      <4>1. ASSUME NEW c \in channels' PROVE MayHave(c) /\ c \in DOMAIN opened
        BY <3>1, <4>1 DEF MayHave, TypeOK
      <4>2. ASSUME NEW c, NEW u \in Threads, th'[u].at = "use", th'[u].conn = c
            PROVE  MayHave(c) /\ c \in DOMAIN opened
        <5>1. th'[u] = th[u]
          BY <3>1, <4>2 DEF Others
        <5>2. th[u].at = "use" /\ th[u].conn = c
          BY <4>2, <5>1
        <5>3. th[u].at \in WithConn
          BY <5>2 DEF WithConn
        <5> QED
          BY <5>2, <5>3, OnOwnAt DEF MayHave
      <4> QED
        BY <4>1, <4>2
    <3>3. \A c \in DOMAIN opened: opened'[c] = opened[c]
      BY <3>1, GrowsIs
    <3>4. \A p: HangsUp(p) => \E u \in Threads: th'[u].at = "hang up" /\ Of(u) = p
      BY <3>1 DEF HangsUp, Others
    <3>5. \A c \in DOMAIN opened \ dead: MayHave(c) =>
              sftp[opened[c]] = c \/ HangsUp(opened[c])
      BY DEF Channels
    <3> SUFFICES ASSUME NEW c \in DOMAIN opened' \ dead',
                        \/ c \in channels'
                        \/ \E u \in Threads: th'[u].at = "use" /\ th'[u].conn = c
                 PROVE  \/ sftp'[opened'[c]] = c
                        \/ \E u \in Threads: th'[u].at = "hang up" /\ Of(u) = opened'[c]
      BY ChannelsPrimed
    <3>6. MayHave(c) /\ c \in DOMAIN opened \ dead
      BY <3>1, <3>2
    <3>7. sftp[opened[c]] = c \/ HangsUp(opened[c])
      BY <3>5, <3>6
    <3> QED
      BY <3>1, <3>3, <3>4, <3>6, <3>7
  <2> QED
    BY <2>1, <2>2
<1>4. ASSUME Backend(t) PROVE Channels'
  <2>1. Others(t) /\ UNCHANGED opened /\ dead \subseteq dead'
    BY <1>4, BackendDoes DEF Asks
  <2>2. \/ sftp' = sftp \/ sftp' = [sftp EXCEPT ![Of(t)] = 0]
        \/ sftp' = [sftp EXCEPT ![Of(t)] = th[t].conn]
    BY <1>4, BackendDoes
  <2>3. \A q \in Procs: q # Of(t) => sftp'[q] = sftp[q]
    BY <2>2, PutIs DEF Having
  <2>5. \A c \in channels': MayHave(c)
    <3>1. channels' \subseteq channels
      BY <1>4, BackendDoes DEF Asks
    <3> QED
      BY <3>1 DEF MayHave
  <2>6. th'[t].at = "use" => opened[th'[t].conn] = Of(t)
    <3>1. opened[th[t].conn] = Of(t)
      BY <1>4, BackendDoes, OnOwnAt DEF WithConn
    <3> QED
      BY <1>4, <3>1, BackendDoes, IdleIs DEF Asks
  <2>7. \A c \in DOMAIN opened \ dead': opened[c] = Of(t) =>
            sftp'[Of(t)] = c \/ (~MayHave(c) /\ th'[t].at # "use")
    <3>1. /\ th[t].at = "backend" /\ UNCHANGED dead
          /\ \/ sftp[Of(t)] = th[t].conn /\ UNCHANGED sftp
             \/ sftp' = [sftp EXCEPT ![Of(t)] = th[t].conn]
             \/ sftp[Of(t)] # th[t].conn /\ th'[t] = Idle
      BY <1>4, BackendDoes
    <3>2. \A c \in DOMAIN opened \ dead: opened[c] = Of(t) => th[t].conn = c
      BY <3>1, AtBackend
    <3>3. CASE sftp[Of(t)] = th[t].conn /\ UNCHANGED sftp
      BY <3>1, <3>2, <3>3
    <3>4. CASE sftp' = [sftp EXCEPT ![Of(t)] = th[t].conn]
      <4>1. sftp'[Of(t)] = th[t].conn
        BY <3>4, OfIs DEF Having
      <4> QED
        BY <3>1, <3>2, <4>1
    <3>5. CASE sftp[Of(t)] # th[t].conn /\ th'[t] = Idle
      BY <3>1, <3>5, NotYet, IdleIs
    <3> QED
      BY <3>1, <3>3, <3>4, <3>5
  <2> QED
    BY <2>1, <2>3, <2>5, <2>6, <2>7, ChannelsKeep
<1>5. ASSUME Use(t) PROVE Channels'
  BY <1>5, UseDoes, ChannelsKeep, IdleIs DEF MayHave
<1>6. ASSUME Relative(t) PROVE Channels'
  BY <1>6, RelativeDoes, ChannelsKeep, IdleIs DEF MayHave, Same
<1>7. ASSUME Login(t) PROVE Channels'
  BY <1>7, LoginDoes, ChannelsKeep, IdleIs DEF MayHave
<1>8. ASSUME CloseChannel(t) PROVE Channels'
  <2>1. Others(t) /\ UNCHANGED opened /\ dead \subseteq dead'
    BY <1>8, CloseChannelDoes
  <2>2. sftp' = sftp \/ sftp' = [sftp EXCEPT ![Of(t)] = 0]
    BY <1>8, CloseChannelDoes
  <2>3. \A q \in Procs: q # Of(t) => sftp'[q] = sftp[q]
    BY <2>2, PutIs DEF Having
  <2>5. \A c \in channels': MayHave(c)
    <3>1. channels' \subseteq channels
      BY <1>8, CloseChannelDoes
    <3> QED
      BY <3>1 DEF MayHave
  <2>6. /\ th'[t].at # "use" /\ th[t].at # "hang up"
        /\ UNCHANGED sftp \/ generation[Of(t)] \notin {0, Of(t)}
    BY <1>8, CloseChannelDoes, IdleIs
  <2>7. UNCHANGED sftp \/ \A c \in DOMAIN opened: opened[c] # Of(t)
    BY <2>6, UnopenedAt
  <2> QED
    BY <2>1, <2>3, <2>5, <2>6, <2>7, ChannelsKeep
<1>9. ASSUME Flavour(t) PROVE Channels'
  BY <1>9, FlavourDoes, ChannelsKeep, IdleIs DEF MayHave, Same
<1>10. ASSUME Detect(t) PROVE Channels'
  BY <1>10, DetectDoes, ChannelsKeep, IdleIs DEF MayHave, Same
<1>11. ASSUME Create(t) PROVE Channels'
  BY <1>11, CreateDoes, ChannelsKeep, IdleIs DEF MayHave, Same, At1
<1>12. ASSUME Wait(t) PROVE Channels'
  BY <1>12, WaitDoes, ChannelsKeep, IdleIs DEF MayHave, Same, At1
<1>13. ASSUME Terminate(t) PROVE Channels'
  BY <1>13, TerminateDoes, ChannelsKeep, IdleIs DEF MayHave
<1>14. ASSUME Close(t) PROVE Channels'
  <2>1. Others(t) /\ UNCHANGED opened /\ dead \subseteq dead'
    BY <1>14, CloseDoes DEF Same, At1
  <2>2. sftp' = sftp \/ sftp' = [sftp EXCEPT ![Of(t)] = 0]
    BY <1>14, CloseDoes DEF Same, At1
  <2>3. \A q \in Procs: q # Of(t) => sftp'[q] = sftp[q]
    BY <2>2, PutIs DEF Having
  <2>5. \A c \in channels': MayHave(c)
    <3>1. channels' \subseteq channels
      BY <1>14, CloseDoes DEF Same, At1
    <3> QED
      BY <3>1 DEF MayHave
  <2>6. /\ th'[t].at # "use" /\ th[t].at # "hang up"
        /\ UNCHANGED sftp \/ generation[Of(t)] \notin {0, Of(t)}
    BY <1>14, CloseDoes, IdleIs DEF Same, At1
  <2>7. UNCHANGED sftp \/ \A c \in DOMAIN opened: opened[c] # Of(t)
    BY <2>6, UnopenedAt
  <2> QED
    BY <2>1, <2>3, <2>5, <2>6, <2>7, ChannelsKeep
<1>15. ASSUME Invalidate(t) PROVE Channels'
  <2>1. Others(t) /\ UNCHANGED opened /\ dead \subseteq dead'
    BY <1>15, InvalidateDoes DEF Same, At1
  <2>2. sftp' = sftp \/ sftp' = [sftp EXCEPT ![Of(t)] = 0]
    BY <1>15, InvalidateDoes DEF Same, At1
  <2>3. \A q \in Procs: q # Of(t) => sftp'[q] = sftp[q]
    BY <2>2, PutIs DEF Having
  <2>5. \A c \in channels': MayHave(c)
    <3>1. channels' \subseteq channels
      BY <1>15, InvalidateDoes DEF Same, At1
    <3> QED
      BY <3>1 DEF MayHave
  <2>6. th'[t].at = "hang up"
    BY <1>15, InvalidateDoes DEF At1
  <2> QED
    BY <2>1, <2>3, <2>5, <2>6, ChannelsKeep
<1>16. ASSUME HangUp(t) PROVE Channels'
  <2>1. Others(t) /\ UNCHANGED opened /\ dead \subseteq dead'
    BY <1>16, HangUpDoes DEF Same, At1
  <2>3. UNCHANGED sftp
    BY <1>16, HangUpDoes DEF Same, At1
  <2>5. \A c \in channels': MayHave(c)
    <3>1. channels' \subseteq channels
      BY <1>16, HangUpDoes DEF Same, At1
    <3> QED
      BY <3>1 DEF MayHave
  <2>6. th'[t].at # "use" /\ (ssh[Of(t)] = 0 \/ dead' = dead \cup {ssh[Of(t)]})
    BY <1>16, HangUpDoes DEF At1
  <2>7. \A c \in DOMAIN opened: opened[c] = Of(t) => c \in dead'
    BY <2>1, <2>6, NoneLeft
  <2> QED
    BY <2>1, <2>3, <2>5, <2>6, <2>7, ChannelsKeep
<1>17. ASSUME Closed(t) PROVE Channels'
  BY <1>17, ClosedDoes, ChannelsKeep, IdleIs DEF MayHave
<1>18. ASSUME Fork PROVE Channels'
  <2>1. /\ \A c \in DOMAIN opened: opened[c] = 1
        /\ sftp'[1] = sftp[1] /\ UNCHANGED <<opened, dead, channels, th>>
    BY <1>18 DEF Fork, Having, Own, Unopened, Procs
  <2>2. \A c \in DOMAIN opened \ dead: MayHave(c) => sftp[1] = c \/ HangsUp(1)
    BY <2>1 DEF Channels
  <2> QED
    BY <2>1, <2>2, ChannelsPrimed DEF MayHave, HangsUp
<1>19. ASSUME Lose PROVE Channels'
  BY <1>19 DEF Lose, Channels, MayHave, HangsUp
<1>20. ASSUME CommandEnds PROVE Channels'
  BY <1>20 DEF CommandEnds, Channels, MayHave, HangsUp
<1> QED
  BY <1>1, <1>2, <1>3, <1>4, <1>5, <1>6, <1>7, <1>8, <1>9, <1>10, <1>11, <1>12,
     <1>13, <1>14, <1>15, <1>16, <1>17, <1>18, <1>19, <1>20 DEF Step

LEMMA CmdIs ==
  ASSUME Typed, TypeOK, NEW t \in Threads
  PROVE  th[t].cmd \in Nat /\ calls \in Nat
BY ThreadIs, SSHAssumption DEF TypeOK

LEMMA NumberedAt ==
  ASSUME Numbered, NEW t \in Threads
  PROVE  th[t].cmd <= calls /\ (th[t].at # "idle" => th[t].cmd >= 1)
BY DEF Numbered

LEMMA NumberedKeeps ==
  ASSUME Typed, TypeOK, Numbered, NEW t \in Threads, Others(t),
         \/ /\ UNCHANGED calls /\ th'[t].cmd \in {0, th[t].cmd}
            /\ th'[t].at # "idle" => th'[t].cmd = th[t].cmd /\ th[t].at # "idle"
         \/ calls' = calls + 1 /\ th'[t].cmd = calls + 1,
         \A c \in running': c \in running \/ (c = th[t].cmd /\ th[t].at # "idle")
  PROVE  Numbered'
<1>1. calls \in Nat /\ calls <= calls' /\ calls' \in Nat
  BY SSHAssumption DEF TypeOK
<1>2. \A u \in Threads: th[u].cmd \in Nat /\ th[u].cmd <= calls
  BY ThreadIs, NumberedAt
<1>3. th'[t].cmd <= calls' /\ (th'[t].at # "idle" => th'[t].cmd >= 1)
  BY <1>1, <1>2, NumberedAt
<1>4. \A u \in Threads: th'[u].cmd <= calls' /\ (th'[u].at # "idle" => th'[u].cmd >= 1)
  BY <1>1, <1>2, <1>3, NumberedAt DEF Others
<1>5. \A u \in Threads \ {t}: th'[t].cmd # 0 => th'[u].cmd # th'[t].cmd
  BY <1>1, <1>2 DEF Others, Numbered
<1>6. \A u, v \in Threads: u # v /\ th'[u].cmd # 0 => th'[u].cmd # th'[v].cmd
  BY <1>5 DEF Others, Numbered
<1>7. running' \subseteq 1 .. calls'
  <2>1. running \subseteq 1 .. calls
    BY DEF Numbered
  <2>2. th[t].at # "idle" => th[t].cmd \in 1 .. calls
    BY <1>1, <1>2, NumberedAt
  <2>3. \A c \in 1 .. calls: c \in 1 .. calls'
    BY <1>1
  <2> QED
    BY <2>1, <2>2, <2>3
<1> QED
  BY <1>4, <1>6, <1>7 DEF Numbered

(* A command is of one call. *)
LEMMA NumberedStep ==
  ASSUME Typed, Doing, Having, TypeOK, Numbered, [Next]_vars
  PROVE  Numbered'
<1>0. ASSUME UNCHANGED vars PROVE Numbered'
  BY <1>0 DEF vars, Numbered
<1> SUFFICES ASSUME NEW t \in Threads,
                    \/ Step(t)
                    \/ \E op \in Calls[t]: Begin(t, op)
                    \/ Fork \/ Lose \/ CommandEnds
             PROVE  Numbered'
  BY <1>0 DEF Next, Threads
<1>1. ASSUME NEW op \in Calls[t], Begin(t, op) PROVE Numbered'
  BY <1>1, BeginDoes, NumberedKeeps
<1>2. ASSUME Access(t) PROVE Numbered'
  BY <1>2, AccessDoes, IdleIs, NumberedKeeps DEF Same, At1, HasIt
<1>3. ASSUME Dial(t) PROVE Numbered'
  BY <1>3, DialDoes, IdleIs, NumberedKeeps DEF HasIt, Conns
<1>4. ASSUME Backend(t) PROVE Numbered'
  BY <1>4, BackendDoes, IdleIs, NumberedKeeps DEF Asks
<1>5. ASSUME Use(t) PROVE Numbered'
  BY <1>5, UseDoes, IdleIs, NumberedKeeps
<1>6. ASSUME Relative(t) PROVE Numbered'
  BY <1>6, RelativeDoes, IdleIs, NumberedKeeps DEF Same
<1>7. ASSUME Login(t) PROVE Numbered'
  BY <1>7, LoginDoes, IdleIs, NumberedKeeps
<1>8. ASSUME CloseChannel(t) PROVE Numbered'
  BY <1>8, CloseChannelDoes, IdleIs, NumberedKeeps
<1>9. ASSUME Flavour(t) PROVE Numbered'
  BY <1>9, FlavourDoes, IdleIs, NumberedKeeps DEF Same
<1>10. ASSUME Detect(t) PROVE Numbered'
  BY <1>10, DetectDoes, IdleIs, NumberedKeeps DEF Same
<1>11. ASSUME Create(t) PROVE Numbered'
  BY <1>11, CreateDoes, IdleIs, NumberedKeeps DEF Same, At1
<1>12. ASSUME Wait(t) PROVE Numbered'
  BY <1>12, WaitDoes, IdleIs, NumberedKeeps DEF Same, At1
<1>13. ASSUME Terminate(t) PROVE Numbered'
  BY <1>13, TerminateDoes, IdleIs, NumberedKeeps
<1>14. ASSUME Close(t) PROVE Numbered'
  BY <1>14, CloseDoes, IdleIs, NumberedKeeps DEF Same, At1
<1>15. ASSUME Invalidate(t) PROVE Numbered'
  BY <1>15, InvalidateDoes, IdleIs, NumberedKeeps DEF Same, At1
<1>16. ASSUME HangUp(t) PROVE Numbered'
  BY <1>16, HangUpDoes, IdleIs, NumberedKeeps DEF Same, At1
<1>17. ASSUME Closed(t) PROVE Numbered'
  BY <1>17, ClosedDoes, IdleIs, NumberedKeeps
<1>18. ASSUME Fork PROVE Numbered'
  BY <1>18 DEF Fork, Busy, Numbered
<1>19. ASSUME Lose PROVE Numbered'
  BY <1>19 DEF Lose, Numbered
<1>20. ASSUME CommandEnds PROVE Numbered'
  BY <1>20 DEF CommandEnds, Numbered
<1> QED
  BY <1>1, <1>2, <1>3, <1>4, <1>5, <1>6, <1>7, <1>8, <1>9, <1>10, <1>11, <1>12,
     <1>13, <1>14, <1>15, <1>16, <1>17, <1>18, <1>19, <1>20 DEF Step

LEMMA ConnIs ==
  ASSUME Having
  PROVE  0 \notin DOMAIN opened
BY DEF Having

LEMMA OverKeeps ==
  ASSUME Numbered, Over, NEW t \in Threads, Others(t), dead \subseteq dead',
         \A c \in running': c \in running \/ (c = th[t].cmd /\ th[t].at # "idle"),
         Stops(th'[t], running', dead')
  PROVE  Over'
<1> SUFFICES ASSUME NEW u \in Threads \ {t}, th[u].end = "stopped", th[u].cmd \in running'
             PROVE  th[u].conn \in dead'
  BY DEF Over, Stops, Others
<1>1. th[t].at # "idle" => th[t].cmd # th[u].cmd
  <2>1. th[t].at # "idle" => th[t].cmd # 0
    BY NumberedAt
  <2> QED
    BY <2>1 DEF Numbered
<1>2. th[u].cmd \in running
  BY <1>1
<1> QED
  BY <1>2 DEF Over, Stops

LEMMA OverStep ==
  ASSUME Typed, Doing, Having, TypeOK, OnOwn, Numbered, Over, [Next]_vars
  PROVE  Over'
<1>0. ASSUME UNCHANGED vars PROVE Over'
  BY <1>0 DEF vars, Over, Stops
<1> SUFFICES ASSUME NEW t \in Threads,
                    \/ Step(t)
                    \/ \E op \in Calls[t]: Begin(t, op)
                    \/ Fork \/ Lose \/ CommandEnds
             PROVE  Over'
  BY <1>0 DEF Next, Threads
<1>1. ASSUME NEW op \in Calls[t], Begin(t, op) PROVE Over'
  BY <1>1, BeginDoes, IdleIs, SaneAt, OverKeeps DEF Stops, Sane
<1>2. ASSUME Access(t) PROVE Over'
  BY <1>2, AccessDoes, IdleIs, SaneAt, OverKeeps DEF Same, At1, HasIt, Stops, Sane
<1>3. ASSUME Dial(t) PROVE Over'
  BY <1>3, DialDoes, IdleIs, SaneAt, OverKeeps DEF HasIt, Conns, Stops, Sane
<1>4. ASSUME Backend(t) PROVE Over'
  BY <1>4, BackendDoes, IdleIs, SaneAt, OverKeeps DEF Asks, Stops, Sane
<1>5. ASSUME Use(t) PROVE Over'
  BY <1>5, UseDoes, IdleIs, SaneAt, OverKeeps DEF Stops, Sane
<1>6. ASSUME Relative(t) PROVE Over'
  BY <1>6, RelativeDoes, IdleIs, SaneAt, OverKeeps DEF Same, Stops, Sane
<1>7. ASSUME Login(t) PROVE Over'
  BY <1>7, LoginDoes, IdleIs, SaneAt, OverKeeps DEF Stops, Sane
<1>8. ASSUME CloseChannel(t) PROVE Over'
  BY <1>8, CloseChannelDoes, IdleIs, SaneAt, OverKeeps DEF Stops, Sane
<1>9. ASSUME Flavour(t) PROVE Over'
  BY <1>9, FlavourDoes, IdleIs, SaneAt, OverKeeps DEF Same, Stops, Sane
<1>10. ASSUME Detect(t) PROVE Over'
  BY <1>10, DetectDoes, IdleIs, SaneAt, OverKeeps DEF Same, Stops, Sane
<1>11. ASSUME Create(t) PROVE Over'
  BY <1>11, CreateDoes, IdleIs, SaneAt, OverKeeps DEF Same, At1, Stops, Sane
<1>12. ASSUME Wait(t) PROVE Over'
  BY <1>12, WaitDoes, IdleIs, SaneAt, OverKeeps DEF Same, At1, Stops, Sane
<1>13. ASSUME Terminate(t) PROVE Over'
  BY <1>13, TerminateDoes, IdleIs, OnOwnAt, ConnIs, OverKeeps DEF Stops, WithConn
<1>14. ASSUME Close(t) PROVE Over'
  BY <1>14, CloseDoes, IdleIs, SaneAt, OverKeeps DEF Same, At1, Stops, Sane
<1>15. ASSUME Invalidate(t) PROVE Over'
  BY <1>15, InvalidateDoes, IdleIs, SaneAt, OverKeeps DEF Same, At1, Stops, Sane
<1>16. ASSUME HangUp(t) PROVE Over'
  BY <1>16, HangUpDoes, IdleIs, SaneAt, OverKeeps DEF Same, At1, Stops, Sane
<1>17. ASSUME Closed(t) PROVE Over'
  BY <1>17, ClosedDoes, IdleIs, SaneAt, OverKeeps DEF Stops, Sane
<1>18. ASSUME Fork PROVE Over'
  BY <1>18 DEF Fork, Busy, Over, Stops
<1>19. ASSUME Lose PROVE Over'
  BY <1>19 DEF Lose, Over, Stops
<1>20. ASSUME CommandEnds PROVE Over'
  BY <1>20 DEF CommandEnds, Over, Stops
<1> QED
  BY <1>1, <1>2, <1>3, <1>4, <1>5, <1>6, <1>7, <1>8, <1>9, <1>10, <1>11, <1>12,
     <1>13, <1>14, <1>15, <1>16, <1>17, <1>18, <1>19, <1>20 DEF Step

(* Nothing of another process is used or closed. *)
LEMMA OwnOnlyStep ==
  ASSUME Typed, Doing, Having, TypeOK, Own, OnOwn, Cached, OwnOnly, [Next]_vars
  PROVE  OwnOnly'
<1>0. ASSUME UNCHANGED vars PROVE OwnOnly'
  BY <1>0 DEF vars, OwnOnly
<1> SUFFICES ASSUME NEW t \in Threads,
                    \/ Step(t)
                    \/ \E op \in Calls[t]: Begin(t, op)
                    \/ Fork \/ Lose \/ CommandEnds
             PROVE  OwnOnly'
  BY <1>0 DEF Next, Threads
<1>1. ASSUME NEW op \in Calls[t], Begin(t, op) PROVE OwnOnly'
  BY <1>1, BeginDoes DEF Others, OwnOnly
<1>2. ASSUME Access(t) PROVE OwnOnly'
  BY <1>2, AccessDoes DEF Others, Same, At1, HasIt, OwnOnly
<1>3. ASSUME Dial(t) PROVE OwnOnly'
  BY <1>3, DialDoes DEF Others, HasIt, Conns, OwnOnly
<1>4. ASSUME Backend(t) PROVE OwnOnly'
  <2>1. \/ UNCHANGED crossed
        \/ /\ sftp[Of(t)] # 0
           /\ crossed' = (crossed \/ opened[sftp[Of(t)]] # Of(t))
    BY <1>4, BackendDoes DEF Asks
  <2>2. generation[Of(t)] \in {0, Of(t)}
    BY <1>4, BackendDoes, OwnAt DEF Within, WithConn
  <2>3. CASE UNCHANGED crossed
    BY <2>3 DEF OwnOnly
  <2>4. CASE crossed' # crossed
    <3>1. opened[sftp[Of(t)]] = Of(t)
      BY <2>1, <2>4, <2>2, NeatIs
    <3> QED
      BY <2>1, <3>1 DEF OwnOnly
  <2> QED
    BY <2>3, <2>4
<1>5. ASSUME Use(t) PROVE OwnOnly'
  <2>1. /\ crossed' = (crossed \/ opened[th[t].conn] # Of(t)) /\ th[t].at \in WithConn
    BY <1>5, UseDoes DEF WithConn
  <2>2. opened[th[t].conn] = Of(t)
    BY <2>1, OnOwnAt
  <2> QED
    BY <2>1, <2>2 DEF OwnOnly
<1>6. ASSUME Relative(t) PROVE OwnOnly'
  BY <1>6, RelativeDoes DEF Others, Same, OwnOnly
<1>7. ASSUME Login(t) PROVE OwnOnly'
  <2>1. /\ crossed' = (crossed \/ opened[th[t].conn] # Of(t)) /\ th[t].at \in WithConn
    BY <1>7, LoginDoes DEF WithConn
  <2>2. opened[th[t].conn] = Of(t)
    BY <2>1, OnOwnAt
  <2> QED
    BY <2>1, <2>2 DEF OwnOnly
<1>8. ASSUME CloseChannel(t) PROVE OwnOnly'
  <2>1. \/ UNCHANGED crossed
        \/ /\ sftp[Of(t)] # 0
           /\ crossed' = (crossed \/ opened[sftp[Of(t)]] # Of(t))
           /\ generation[Of(t)] \in {0, Of(t)}
    BY <1>8, CloseChannelDoes
  <2>3. CASE UNCHANGED crossed
    BY <2>3 DEF OwnOnly
  <2>4. CASE crossed' # crossed
    <3>1. opened[sftp[Of(t)]] = Of(t)
      BY <2>1, <2>4, NeatIs
    <3> QED
      BY <2>1, <3>1 DEF OwnOnly
  <2> QED
    BY <2>3, <2>4
<1>9. ASSUME Flavour(t) PROVE OwnOnly'
  BY <1>9, FlavourDoes DEF Others, Same, OwnOnly
<1>10. ASSUME Detect(t) PROVE OwnOnly'
  <2>1. /\ crossed' = (crossed \/ opened[th[t].conn] # Of(t)) /\ th[t].at \in WithConn
    BY <1>10, DetectDoes DEF WithConn, Same
  <2>2. opened[th[t].conn] = Of(t)
    BY <2>1, OnOwnAt
  <2> QED
    BY <2>1, <2>2 DEF OwnOnly
<1>11. ASSUME Create(t) PROVE OwnOnly'
  <2>1. /\ crossed' = (crossed \/ opened[th[t].conn] # Of(t)) /\ th[t].at \in WithConn
    BY <1>11, CreateDoes DEF WithConn, Same, At1
  <2>2. opened[th[t].conn] = Of(t)
    BY <2>1, OnOwnAt
  <2> QED
    BY <2>1, <2>2 DEF OwnOnly
<1>12. ASSUME Wait(t) PROVE OwnOnly'
  BY <1>12, WaitDoes DEF Others, Same, At1, OwnOnly
<1>13. ASSUME Terminate(t) PROVE OwnOnly'
  BY <1>13, TerminateDoes DEF Others, OwnOnly
<1>14. ASSUME Close(t) PROVE OwnOnly'
  BY <1>14, CloseDoes DEF Others, Same, At1, OwnOnly
<1>15. ASSUME Invalidate(t) PROVE OwnOnly'
  <2>1. \/ UNCHANGED crossed
        \/ /\ sftp[Of(t)] # 0
           /\ crossed' = (crossed \/ opened[sftp[Of(t)]] # Of(t))
    BY <1>15, InvalidateDoes DEF Same, At1
  <2>2. generation[Of(t)] \in {0, Of(t)}
    BY <1>15, InvalidateDoes, OwnAt DEF Within, WithConn
  <2>3. CASE UNCHANGED crossed
    BY <2>3 DEF OwnOnly
  <2>4. CASE crossed' # crossed
    <3>1. opened[sftp[Of(t)]] = Of(t)
      BY <2>1, <2>4, <2>2, NeatIs
    <3> QED
      BY <2>1, <3>1 DEF OwnOnly
  <2> QED
    BY <2>3, <2>4
<1>16. ASSUME HangUp(t) PROVE OwnOnly'
  <2>1. \/ UNCHANGED crossed
        \/ /\ ssh[Of(t)] # 0
           /\ crossed' = (crossed \/ opened[ssh[Of(t)]] # Of(t))
    BY <1>16, HangUpDoes DEF Same, At1
  <2>2. generation[Of(t)] \in {0, Of(t)}
    BY <1>16, HangUpDoes, OwnAt DEF Within, WithConn
  <2>3. CASE UNCHANGED crossed
    BY <2>3 DEF OwnOnly
  <2>4. CASE crossed' # crossed
    <3>1. opened[ssh[Of(t)]] = Of(t)
      BY <2>1, <2>4, <2>2, NeatIs
    <3> QED
      BY <2>1, <3>1 DEF OwnOnly
  <2> QED
    BY <2>3, <2>4
<1>17. ASSUME Closed(t) PROVE OwnOnly'
  BY <1>17, ClosedDoes DEF Others, OwnOnly
<1>18. ASSUME Fork PROVE OwnOnly'
  BY <1>18 DEF Fork, Busy, OwnOnly
<1>19. ASSUME Lose PROVE OwnOnly'
  BY <1>19 DEF Lose, OwnOnly
<1>20. ASSUME CommandEnds PROVE OwnOnly'
  BY <1>20 DEF CommandEnds, OwnOnly
<1> QED
  BY <1>1, <1>2, <1>3, <1>4, <1>5, <1>6, <1>7, <1>8, <1>9, <1>10, <1>11, <1>12,
     <1>13, <1>14, <1>15, <1>16, <1>17, <1>18, <1>19, <1>20 DEF Step

(* What is dead, open or running is among what there is. *)
Bounded ==
    /\ dead \subseteq DOMAIN opened /\ channels \subseteq DOMAIN opened
    /\ running \subseteq 1 .. MaxCalls /\ calls \in 0 .. MaxCalls

LEMMA BoundedKeeps ==
  ASSUME Typed, TypeOK, Having, Numbered, NEW t \in Threads,
         opened' = opened \/ opened' = Append(opened, Of(t)),
         dead' = dead \/ (ssh[Of(t)] # 0 /\ dead' = dead \cup {ssh[Of(t)]}),
         \A c \in channels': c \in channels \/ c \in DOMAIN opened,
         UNCHANGED calls \/ (calls' = calls + 1 /\ calls < MaxCalls),
         \A c \in running': c \in running \/ (c = th[t].cmd /\ th[t].at # "idle")
  PROVE  Bounded'
<1>1. \A c \in DOMAIN opened: c \in DOMAIN opened'
  BY GrowsIs
<1>2. /\ dead \subseteq DOMAIN opened /\ channels \subseteq DOMAIN opened
      /\ ssh[Of(t)] # 0 => ssh[Of(t)] \in DOMAIN opened
  BY OfIs DEF TypeOK
<1>3. dead' \subseteq DOMAIN opened' /\ channels' \subseteq DOMAIN opened'
  BY <1>1, <1>2
<1>4. /\ calls \in Nat /\ MaxCalls \in Nat /\ calls <= MaxCalls
      /\ running \subseteq 1 .. MaxCalls
  BY SSHAssumption DEF TypeOK
<1>5. calls' \in 0 .. MaxCalls
  BY <1>4
<1>6. th[t].at # "idle" => th[t].cmd \in 1 .. MaxCalls
  BY <1>4, CmdIs, NumberedAt
<1>7. running' \subseteq 1 .. MaxCalls
  BY <1>4, <1>6
<1> QED
  BY <1>3, <1>5, <1>7 DEF Bounded

LEMMA BoundedStep ==
  ASSUME Typed, Doing, Having, TypeOK, OnOwn, Numbered, [Next]_vars
  PROVE  Bounded'
<1>0. ASSUME UNCHANGED vars PROVE Bounded'
  BY <1>0 DEF vars, Bounded, TypeOK
<1> SUFFICES ASSUME NEW t \in Threads,
                    \/ Step(t)
                    \/ \E op \in Calls[t]: Begin(t, op)
                    \/ Fork \/ Lose \/ CommandEnds
             PROVE  Bounded'
  BY <1>0 DEF Next, Threads
<1>1. ASSUME NEW op \in Calls[t], Begin(t, op) PROVE Bounded'
  BY <1>1, BeginDoes, BoundedKeeps
<1>2. ASSUME Access(t) PROVE Bounded'
  BY <1>2, AccessDoes, BoundedKeeps DEF Same, At1, HasIt
<1>3. ASSUME Dial(t) PROVE Bounded'
  BY <1>3, DialDoes, BoundedKeeps DEF HasIt, Conns
<1>4. ASSUME Backend(t) PROVE Bounded'
  BY <1>4, BackendDoes, BoundedKeeps DEF Asks
<1>5. ASSUME Use(t) PROVE Bounded'
  BY <1>5, UseDoes, OnOwnAt, BoundedKeeps DEF WithConn
<1>6. ASSUME Relative(t) PROVE Bounded'
  BY <1>6, RelativeDoes, BoundedKeeps DEF Same
<1>7. ASSUME Login(t) PROVE Bounded'
  BY <1>7, LoginDoes, BoundedKeeps
<1>8. ASSUME CloseChannel(t) PROVE Bounded'
  BY <1>8, CloseChannelDoes, BoundedKeeps
<1>9. ASSUME Flavour(t) PROVE Bounded'
  BY <1>9, FlavourDoes, BoundedKeeps DEF Same
<1>10. ASSUME Detect(t) PROVE Bounded'
  BY <1>10, DetectDoes, BoundedKeeps DEF Same
<1>11. ASSUME Create(t) PROVE Bounded'
  BY <1>11, CreateDoes, BoundedKeeps DEF Same, At1
<1>12. ASSUME Wait(t) PROVE Bounded'
  BY <1>12, WaitDoes, BoundedKeeps DEF Same, At1
<1>13. ASSUME Terminate(t) PROVE Bounded'
  BY <1>13, TerminateDoes, BoundedKeeps
<1>14. ASSUME Close(t) PROVE Bounded'
  BY <1>14, CloseDoes, BoundedKeeps DEF Same, At1
<1>15. ASSUME Invalidate(t) PROVE Bounded'
  BY <1>15, InvalidateDoes, BoundedKeeps DEF Same, At1
<1>16. ASSUME HangUp(t) PROVE Bounded'
  BY <1>16, HangUpDoes, BoundedKeeps DEF Same, At1
<1>17. ASSUME Closed(t) PROVE Bounded'
  BY <1>17, ClosedDoes, BoundedKeeps
<1>18. ASSUME Fork PROVE Bounded'
  BY <1>18 DEF Fork, Bounded, TypeOK
<1>19. ASSUME Lose PROVE Bounded'
  BY <1>19 DEF Lose, Bounded, TypeOK
<1>20. ASSUME CommandEnds PROVE Bounded'
  BY <1>20 DEF CommandEnds, Bounded, TypeOK
<1> QED
  BY <1>1, <1>2, <1>3, <1>4, <1>5, <1>6, <1>7, <1>8, <1>9, <1>10, <1>11, <1>12,
     <1>13, <1>14, <1>15, <1>16, <1>17, <1>18, <1>19, <1>20 DEF Step

LEMMA NeatCached ==
  ASSUME NEW f \in [Procs -> Nat], NEW g, NEW o, Neat(f, g, o)
  PROVE  \A p \in Procs: f[p] \in DOMAIN o \cup {0}
BY DEF Neat

LEMMA TypeStep ==
  ASSUME Having', Cached', Bounded'
  PROVE  TypeOK'
<1>1. \A p \in Procs: {ssh'[p], sftp'[p], login'[p]} \subseteq DOMAIN opened' \cup {0}
  <2>1. /\ ssh' \in [Procs -> Nat] /\ sftp' \in [Procs -> Nat] /\ login' \in [Procs -> Nat]
        /\ Neat(ssh', generation', opened') /\ Neat(sftp', generation', opened')
        /\ Neat(login', generation', opened')
    BY DEF Having, Cached
  <2>2. \A p \in Procs: ssh'[p] \in DOMAIN opened' \cup {0}
    BY <2>1, NeatCached
  <2>3. \A p \in Procs: sftp'[p] \in DOMAIN opened' \cup {0}
    BY <2>1, NeatCached
  <2>4. \A p \in Procs: login'[p] \in DOMAIN opened' \cup {0}
    BY <2>1, NeatCached
  <2> QED
    BY <2>2, <2>3, <2>4
<1>2. \A p \in Procs: /\ lock'[p] \in Threads \cup {0}
                      /\ dialect'[p] \in BOOLEAN /\ generation'[p] \in {0, 1, 2}
  BY DEF Having
<1> QED
  BY <1>1, <1>2 DEF TypeOK, Bounded

-----------------------------------------------------------------------------
LEMMA InvInit == Init => TransportInv
<1> SUFFICES ASSUME Init PROVE TransportInv
  OBVIOUS
<1>1. Having /\ TypeOK /\ OwnOnly
  BY SSHAssumption DEF Init, Having, TypeOK, OwnOnly, Procs, Threads
<1>2. DOMAIN opened = {} /\ \A t \in Threads: th[t] = Idle
  BY DEF Init
<1>3. Typed
  BY IdleIs DEF Init, Typed
<1>4. Doing /\ Locked /\ Kept /\ Over
  BY <1>2, IdleIs DEF Doing, Sane, Locked, Locks, Kept, Past, Over, Stops
<1>5. Own /\ OnOwn /\ Unopened /\ OneOpen
  <2>1. "idle" \notin Within /\ "idle" \notin WithConn /\ Child \in Threads
    BY DEF Within, WithConn, Child, Threads
  <2>2. generation[1] = 0 /\ generation[2] = 0
    BY DEF Init, Procs
  <2> QED
    BY <1>2, <2>1, <2>2, IdleIs DEF Own, OnOwn, Unopened, OneOpen
<1>6. Cached
  BY DEF Init, Cached, Neat
<1>7. Steady /\ Channels
  BY <1>2, IdleIs DEF Steady, Fits, Channels
<1>8. Numbered
  BY <1>2, IdleIs DEF Init, Numbered
<1> QED
  BY <1>1, <1>3, <1>4, <1>5, <1>6, <1>7, <1>8 DEF TransportInv

LEMMA InvStep == TransportInv /\ [Next]_vars => TransportInv'
<1> SUFFICES ASSUME TransportInv, [Next]_vars PROVE TransportInv'
  OBVIOUS
<1>1. /\ TypeOK /\ Typed /\ Doing /\ Having /\ Locked /\ Own /\ OnOwn /\ Cached /\ Unopened
      /\ OneOpen /\ Steady /\ Kept /\ Channels /\ Numbered /\ Over /\ OwnOnly
  BY DEF TransportInv
<1>2. Typed' /\ Doing' /\ Having' /\ Locked' /\ Own'
  BY <1>1, TypedStep, DoingStep, HavingStep, LockedStep, OwnStep
<1>3. OnOwn' /\ Cached' /\ Unopened' /\ OneOpen' /\ Steady'
  BY <1>1, OnOwnStep, CachedStep, UnopenedStep, OneOpenStep, SteadyStep
<1>4. Kept' /\ Channels' /\ Numbered' /\ Over' /\ OwnOnly'
  BY <1>1, KeptStep, ChannelsStep, NumberedStep, OverStep, OwnOnlyStep
<1>5. TypeOK'
  BY <1>1, <1>2, <1>3, BoundedStep, TypeStep
<1> QED
  BY <1>2, <1>3, <1>4, <1>5 DEF TransportInv

LEMMA InvSound == TransportInv => ConnectionSound
<1> SUFFICES ASSUME TransportInv PROVE ConnectionSound
  OBVIOUS
<1>1. /\ TypeOK /\ Typed /\ Doing /\ Having /\ Locked /\ OneOpen /\ Kept /\ Channels /\ Over
      /\ OwnOnly
  BY DEF TransportInv
<1>2. ClosesIt
  BY <1>1 DEF ClosesIt, OneOpen, Kept, Past, Alive
<1>3. \A t \in Threads: At(t, "use") => th[t].conn = th[t].was
  BY <1>1 DEF Kept, Past
<1>4. ASSUME NEW c \in channels \ dead, lock[opened[c]] = 0
      PROVE  sftp[opened[c]] = c
  <2>1. c \in DOMAIN opened \ dead /\ MayHave(c)
    BY <1>1, <1>4 DEF TypeOK, MayHave
  <2>2. sftp[opened[c]] = c \/ HangsUp(opened[c])
    BY <1>1, <2>1 DEF Channels
  <2>3. ASSUME NEW u \in Threads, th[u].at = "hang up", Of(u) = opened[c] PROVE FALSE
    <3>1. lock[Of(u)] = u
      BY <1>1, <2>3 DEF Locked, Locks
    <3>2. u # 0
      BY DEF Threads
    <3>3. lock[opened[c]] = 0
      BY <1>4
    <3> QED
      BY <2>3, <3>1, <3>2, <3>3
  <2> QED
    BY <2>2, <2>3 DEF HangsUp
<1>5. StoppedIsOver
  BY <1>1 DEF StoppedIsOver, Over, Stops
<1> QED
  BY <1>1, <1>2, <1>3, <1>4, <1>5 DEF ConnectionSound, BackendCurrent

(* Of any number of calls over any number of connections: no process uses  *)
(* or closes what another opened before a fork, a connection that lives is *)
(* the one that `close` will find, a request is given the backend of the   *)
(* connection there was, and what was stopped is over.                     *)
THEOREM ConnectionIsSound == Spec => []ConnectionSound
<1>1. Init /\ [][Next]_vars => []TransportInv
  BY InvInit, InvStep, PTL
<1> QED
  BY <1>1, InvSound, PTL DEF Spec

-----------------------------------------------------------------------------
(* SSHProcess: the handle of a process.                                    *)

(* A thread that reads or waits; one that closes does neither. *)
Takes(t) == uses[t].at \notin {"idle", "close"}

Bytes == Seq(Nat)
Handling == [at: {"idle", "read", "take", "channel", "wait", "hold", "add", "close"},
             size: Int, seen: Bytes, out: Bytes,
             end: {"none", "done", "eof", "all", "expired", "failed"}]

HandleTyped ==
    /\ written \in Nat /\ ended \in BOOLEAN /\ closed \in BOOLEAN /\ mixed \in BOOLEAN
    /\ channel \in Bytes /\ buffered \in Bytes /\ read \in Bytes
    /\ uses \in [P!Threads -> Handling]

OneTakes == \A t, u \in P!Threads: Takes(t) /\ Takes(u) => t = u

(* What a thread has taken, and what it knows of the rest. *)
Carries(t) ==
    /\ uses[t].at \notin {"channel", "hold", "add"} => uses[t].out = <<>>
    /\ uses[t].at = "channel" => buffered = <<>> /\ (uses[t].size >= 0 => uses[t].out = <<>>)
    /\ uses[t].at \in {"take", "add"} => uses[t].seen = buffered
    /\ uses[t].at = "take" => buffered # <<>>

(* Nothing is lost, doubled or out of order on its way through the handle. *)
Whole(t) == read \o buffered \o uses[t].out \o channel = P!Output(written)
InOrder == \A t \in P!Threads: Takes(t) \/ (\A u \in P!Threads: ~Takes(u)) => Whole(t)

(* An end that was told leaves nothing to read.                            *)
EndTold ==
    (\E t \in P!Threads: uses[t].end \in {"eof", "all"}) =>
        /\ ended \/ closed
        /\ read = P!Output(written) /\ buffered = <<>> /\ channel = <<>>
        /\ \A u \in P!Threads: uses[u].out = <<>>

ReadingKept == OneTakes /\ (\A t \in P!Threads: Carries(t)) /\ InOrder /\ EndTold
HandleInv == HandleTyped /\ (mixed \/ ReadingKept)

LEMMA OutputGrows ==
  ASSUME NEW n \in Nat
  PROVE  /\ P!Output(n) \in Bytes
         /\ Append(P!Output(n), n + 1) = P!Output(n + 1)
<1>1. P!Output(n) \in Bytes /\ P!Output(n + 1) \in Bytes
  BY DEF P!Output, Bytes
<1>2. Len(P!Output(n)) = n /\ Len(P!Output(n + 1)) = n + 1
  BY DEF P!Output
<1>3. /\ Append(P!Output(n), n + 1) \in Bytes /\ Len(Append(P!Output(n), n + 1)) = n + 1
      /\ \A i \in 1 .. n: Append(P!Output(n), n + 1)[i] = P!Output(n)[i]
      /\ Append(P!Output(n), n + 1)[n + 1] = n + 1
  BY <1>1, <1>2, AppendProperties DEF Bytes
<1>4. /\ \A i \in 1 .. n: P!Output(n)[i] = i
      /\ \A i \in 1 .. n + 1: P!Output(n + 1)[i] = i
  BY DEF P!Output
<1>5. \A i \in 1 .. n + 1: Append(P!Output(n), n + 1)[i] = P!Output(n + 1)[i]
  BY <1>3, <1>4
<1> QED
  BY <1>1, <1>2, <1>3, <1>5, SeqEqual DEF Bytes

LEMMA AppendLast ==
  ASSUME NEW a \in Bytes, NEW b \in Bytes, NEW e \in Nat
  PROVE  a \o Append(b, e) = Append(a \o b, e)
<1>1. Append(b, e) = b \o <<e>> /\ <<e>> \in Bytes
  BY AppendIsConcat DEF Bytes
<1>2. a \o b \in Bytes
  BY ConcatProperties DEF Bytes
<1>3. Append(a \o b, e) = (a \o b) \o <<e>>
  BY <1>2, AppendIsConcat DEF Bytes
<1> QED
  BY <1>1, <1>3, ConcatAssociative DEF Bytes

LEMMA HeadMoves ==
  ASSUME NEW a \in Bytes, NEW b \in Bytes, b # <<>>
  PROVE  /\ Append(a, Head(b)) \in Bytes /\ Tail(b) \in Bytes
         /\ Append(a, Head(b)) \o Tail(b) = a \o b
<1>1. Head(b) \in Nat /\ Tail(b) \in Bytes /\ <<Head(b)>> \in Bytes
  BY HeadTailProperties DEF Bytes
<1>2. Append(a, Head(b)) = a \o <<Head(b)>> /\ Append(a, Head(b)) \in Bytes
  BY <1>1, AppendIsConcat, AppendProperties DEF Bytes
<1>3. Len(b) \in Nat \ {0} /\ b[1] = Head(b)
  BY EmptySeq DEF Bytes
<1>4. b = <<Head(b)>> \o Tail(b)
  <2>1. SubSeq(b, 1, Len(b)) = b /\ Tail(b) = SubSeq(b, 2, Len(b))
    BY SubSeqFull, TailIsSubSeq DEF Bytes
  <2>2. SubSeq(b, 1, Len(b)) = <<b[1]>> \o SubSeq(b, 2, Len(b))
    BY <1>3, SubSeqRecursiveFirst DEF Bytes
  <2> QED
    BY <1>3, <2>1, <2>2
<1> QED
  BY <1>1, <1>2, <1>4, ConcatAssociative DEF Bytes

LEMMA Joins ==
  ASSUME NEW a \in Bytes, NEW b \in Bytes
  PROVE  /\ a \o b \in Bytes
         /\ a \o <<>> = a /\ <<>> \o a = a
         /\ <<>> \in Bytes
         /\ \A c \in Bytes: (a \o b) \o c = a \o (b \o c)
BY ConcatProperties, ConcatEmptySeq, ConcatAssociative, EmptySeq DEF Bytes

LEMMA Grouped ==
  ASSUME NEW a \in Bytes, NEW b \in Bytes, NEW c \in Bytes
  PROVE  (a \o b) \o c = a \o (b \o c)
BY ConcatAssociative DEF Bytes

LEMMA PartMoves ==
  ASSUME NEW a \in Bytes, NEW b \in Bytes, NEW n \in 0 .. Len(b)
  PROVE  /\ SubSeq(b, 1, n) \in Bytes /\ SubSeq(b, n + 1, Len(b)) \in Bytes
         /\ a \o SubSeq(b, 1, n) \in Bytes
         /\ (a \o SubSeq(b, 1, n)) \o SubSeq(b, n + 1, Len(b)) = a \o b
<1>0. Len(b) \in Nat /\ n \in Nat /\ \A i \in 1 .. Len(b): b[i] \in Nat
  BY LenProperties, ElementOfSeq DEF Bytes
<1>1. SubSeq(b, 1, n) \in Bytes
  BY <1>0, SubSeqProperties DEF Bytes
<1>2. SubSeq(b, n + 1, Len(b)) \in Bytes
  BY <1>0, SubSeqProperties DEF Bytes
<1>3. SubSeq(b, 1, n) \o SubSeq(b, n + 1, Len(b)) = b
  <2>1. 1 \in 1 .. Len(b) + 1 /\ n \in 1 - 1 .. Len(b) /\ Len(b) \in n .. Len(b)
    BY <1>0
  <2>2. SubSeq(b, 1, n) \o SubSeq(b, n + 1, Len(b)) = SubSeq(b, 1, Len(b))
    BY <2>1, ConcatAdjacentSubSeq DEF Bytes
  <2> QED
    BY <2>2, SubSeqFull DEF Bytes
<1>4. a \o SubSeq(b, 1, n) \in Bytes
  BY <1>1, ConcatProperties DEF Bytes
<1>5. (a \o SubSeq(b, 1, n)) \o SubSeq(b, n + 1, Len(b))
        = a \o (SubSeq(b, 1, n) \o SubSeq(b, n + 1, Len(b)))
  BY <1>1, <1>2, Grouped, Zenon
<1> QED
  BY <1>1, <1>2, <1>3, <1>4, <1>5

(* A step of the thread that reads or waits. *)
LEMMA TakerStep ==
  ASSUME HandleTyped, ReadingKept, NEW t \in P!Threads, Takes(t),
         \A u \in P!Threads: u # t => uses'[u] = uses[u],
         Carries(t)', Whole(t)', EndTold'
  PROVE  ReadingKept'
<1>1. \A u \in P!Threads: u # t => ~Takes(u) /\ ~Takes(u)'
  BY DEF ReadingKept, OneTakes, Takes
<1>2. OneTakes'
  BY <1>1 DEF OneTakes
<1>3. \A u \in P!Threads: u # t => Carries(u)' /\ uses'[u].out = <<>>
  BY <1>1 DEF ReadingKept, Carries, Takes
<1>4. InOrder'
  <2> SUFFICES ASSUME NEW u \in P!Threads, u # t, ~Takes(t)' PROVE Whole(u)'
    BY <1>1 DEF InOrder
  <2>1. uses'[t].out = <<>> /\ uses'[u].out = <<>>
    BY <1>3 DEF Carries, Takes
  <2> QED
    BY <2>1 DEF Whole
<1> QED
  BY <1>2, <1>3, <1>4 DEF ReadingKept


(* What the actions of a thread leave of it, field by field. *)
LEMMA ThreadTyped ==
  ASSUME HandleTyped, NEW t \in P!Threads
  PROVE  /\ uses[t] \in Handling
         /\ uses[t].at \in {"idle", "read", "take", "channel", "wait", "hold", "add", "close"}
         /\ uses[t].size \in Int /\ uses[t].seen \in Bytes /\ uses[t].out \in Bytes
         /\ uses[t].end \in {"none", "done", "eof", "all", "expired", "failed"}
<1>1. uses[t] \in Handling
  BY DEF HandleTyped
<1> QED
  BY <1>1 DEF Handling

LEMMA Ended ==
  ASSUME HandleTyped, NEW t \in P!Threads,
         NEW how \in {"none", "done", "eof", "all", "expired", "failed"}, P!Ends(t, how)
  PROVE  /\ uses' \in [P!Threads -> Handling]
         /\ uses'[t].at = "idle" /\ uses'[t].out = <<>> /\ uses'[t].seen = <<>>
         /\ uses'[t].size = 0 /\ uses'[t].end = how
         /\ \A u \in P!Threads: u # t => uses'[u] = uses[u]
<1>0. <<>> \in Bytes
  BY Joins, EmptySeq DEF Bytes
<1>1. [P!Idle EXCEPT !.end = how] \in Handling
  BY <1>0 DEF P!Idle, Handling
<1> QED
  BY <1>1 DEF HandleTyped, P!Ends, P!Idle

(* Who neither reads nor waits carries nothing; and while one reads or     *)
(* waits, nobody else carries anything.                                    *)
LEMMA OthersCarryNothing ==
  ASSUME ReadingKept, NEW t \in P!Threads, Takes(t)
  PROVE  \A u \in P!Threads: u # t => ~Takes(u) /\ uses[u].out = <<>>
BY DEF ReadingKept, OneTakes, Carries, Takes

LEMMA LookKeeps ==
  ASSUME HandleTyped, ReadingKept, NEW t \in P!Threads, P!Look(t)
  PROVE  ReadingKept'
<1>1. /\ uses[t].at = "read" /\ Takes(t)
      /\ uses'[t].at = (IF buffered = <<>> THEN "channel" ELSE "take")
      /\ uses'[t].seen = buffered /\ uses'[t].out = uses[t].out /\ uses'[t].end = uses[t].end
      /\ \A u \in P!Threads: u # t => uses'[u] = uses[u]
      /\ written' = written /\ ended' = ended /\ closed' = closed
      /\ channel' = channel /\ buffered' = buffered /\ read' = read
  <2>1. uses[t] \in Handling
    BY ThreadTyped
  <2> QED
    BY <2>1 DEF P!Look, P!At, HandleTyped, Takes, P!handle, P!history, Handling
<1>2. Carries(t) /\ Whole(t) /\ EndTold
  BY <1>1 DEF ReadingKept, InOrder
<1>3. Carries(t)'
  BY <1>1, <1>2 DEF Carries
<1>4. Whole(t)'
  BY <1>1, <1>2 DEF Whole, P!Output
<1>5. \A u \in P!Threads: uses'[u].end = uses[u].end /\ uses'[u].out = uses[u].out
  BY <1>1
<1>6. EndTold'
  BY <1>1, <1>2, <1>5 DEF EndTold, P!Output
<1> QED
  BY <1>1, <1>3, <1>4, <1>6, TakerStep

LEMMA TakeBufferedKeeps ==
  ASSUME HandleTyped, ReadingKept, NEW t \in P!Threads, P!TakeBuffered(t)
  PROVE  ReadingKept' /\ buffered' \in Bytes /\ read' \in Bytes
<1> DEFINE n == P!Amount(t)
<1>0. /\ uses[t].at = "take" /\ Takes(t) /\ P!Ends(t, "done")
      /\ written' = written /\ ended' = ended /\ closed' = closed /\ channel' = channel
      /\ buffered' = SubSeq(uses[t].seen, n + 1, Len(uses[t].seen))
      /\ read' = read \o SubSeq(uses[t].seen, 1, n)
  BY DEF P!TakeBuffered, P!At, Takes, P!Rest
<1>1. Carries(t) /\ Whole(t) /\ EndTold
  BY <1>0 DEF ReadingKept, InOrder
<1>2. uses[t].seen = buffered /\ uses[t].out = <<>>
  BY <1>0, <1>1 DEF Carries
<1>3. n \in 0 .. Len(buffered)
  <2>1. uses[t].size \in Int /\ Len(buffered) \in Nat
    BY ThreadTyped, LenProperties DEF HandleTyped, Bytes
  <2> QED
    BY <1>2, <2>1 DEF P!Amount
<1>4. read \in Bytes /\ buffered \in Bytes /\ channel \in Bytes
  BY DEF HandleTyped
<1> HIDE DEF n
<1>5. /\ buffered' \in Bytes /\ read' \in Bytes /\ read' \o buffered' = read \o buffered
  BY <1>0, <1>2, <1>3, <1>4, PartMoves
<1>6. /\ uses'[t].at = "idle" /\ uses'[t].out = <<>> /\ uses'[t].end = "done"
      /\ \A u \in P!Threads: u # t => uses'[u] = uses[u]
  BY <1>0, Ended
<1>7. Carries(t)'
  BY <1>6 DEF Carries
<1>8. Whole(t)'
  BY <1>0, <1>1, <1>2, <1>5, <1>6 DEF Whole, P!Output
<1>9. EndTold'
  <2>1. ASSUME NEW u \in P!Threads, uses'[u].end \in {"eof", "all"} PROVE FALSE
    <3>1. u # t /\ uses[u].end \in {"eof", "all"}
      BY <1>6, <2>1
    <3>2. buffered = <<>> /\ read = P!Output(written) /\ channel = <<>>
      BY <1>1, <3>1 DEF EndTold
    <3> QED
      BY <1>0, <1>1, <3>2 DEF Carries
  <2> QED
    BY <2>1 DEF EndTold
<1> QED
  BY <1>0, <1>5, <1>6, <1>7, <1>8, <1>9, TakerStep

LEMMA ReadSomeKeeps ==
  ASSUME HandleTyped, ReadingKept, NEW t \in P!Threads, P!ReadSome(t)
  PROVE  ReadingKept' /\ channel' \in Bytes /\ read' \in Bytes
<1>0. /\ uses[t].at = "channel" /\ uses[t].size > 0 /\ Takes(t) /\ P!Ends(t, "done")
      /\ channel # <<>>
      /\ written' = written /\ ended' = ended /\ closed' = closed /\ buffered' = buffered
      /\ read' = Append(read, Head(channel)) /\ channel' = Tail(channel)
  BY DEF P!ReadSome, P!At, Takes
<1>1. Carries(t) /\ Whole(t) /\ EndTold
  BY <1>0 DEF ReadingKept, InOrder
<1>2. uses[t].size \in Int
  BY ThreadTyped
<1>3. buffered = <<>> /\ uses[t].out = <<>>
  BY <1>0, <1>1, <1>2 DEF Carries
<1>4. read \in Bytes /\ channel \in Bytes
  BY DEF HandleTyped
<1>5. /\ channel' \in Bytes /\ read' \in Bytes /\ read' \o channel' = read \o channel
  BY <1>0, <1>4, HeadMoves
<1>6. /\ uses'[t].at = "idle" /\ uses'[t].out = <<>> /\ uses'[t].end = "done"
      /\ \A u \in P!Threads: u # t => uses'[u] = uses[u]
  BY <1>0, Ended
<1>7. Carries(t)'
  BY <1>6 DEF Carries
<1>8. Whole(t)'
  <2>1. read \o <<>> = read /\ read' \o <<>> = read'
    BY <1>4, <1>5, Joins
  <2> QED
    BY <1>0, <1>1, <1>3, <1>5, <1>6, <2>1 DEF Whole, P!Output
<1>9. EndTold'
  <2>1. ASSUME NEW u \in P!Threads, uses'[u].end \in {"eof", "all"} PROVE FALSE
    <3>1. u # t /\ uses[u].end \in {"eof", "all"}
      BY <1>6, <2>1
    <3> QED
      BY <1>0, <1>1, <3>1 DEF EndTold
  <2> QED
    BY <2>1 DEF EndTold
<1> QED
  BY <1>0, <1>5, <1>6, <1>7, <1>8, <1>9, TakerStep

LEMMA GatherKeeps ==
  ASSUME HandleTyped, ReadingKept, NEW t \in P!Threads, P!Gather(t)
  PROVE  ReadingKept'
<1>0. /\ uses[t].at = "channel" /\ uses[t].size < 0 /\ Takes(t) /\ channel # <<>> /\ channel' = <<>>
      /\ written' = written /\ ended' = ended /\ closed' = closed /\ buffered' = buffered
      /\ read' = read
  BY DEF P!Gather, P!At, Takes, P!history
<1>1. /\ uses'[t].at = "channel" /\ uses'[t].size = uses[t].size /\ uses'[t].end = uses[t].end
      /\ uses'[t].out = uses[t].out \o channel
      /\ \A u \in P!Threads: u # t => uses'[u] = uses[u]
  <2>1. uses[t] \in Handling
    BY ThreadTyped
  <2> QED
    BY <1>0, <2>1 DEF P!Gather, HandleTyped, Handling
<1>2. Carries(t) /\ Whole(t) /\ EndTold
  BY <1>0 DEF ReadingKept, InOrder
<1>3. read \in Bytes /\ channel \in Bytes /\ buffered \in Bytes /\ uses[t].out \in Bytes
  BY ThreadTyped DEF HandleTyped
<1>4. uses[t].size \in Int
  BY ThreadTyped
<1>5. Carries(t)'
  BY <1>0, <1>1, <1>2, <1>4 DEF Carries
<1>6. Whole(t)'
  <2>1. read \o buffered \in Bytes /\ uses[t].out \o channel \in Bytes
    BY <1>3, Joins
  <2>2. ((read \o buffered) \o uses[t].out) \o channel
        = (read \o buffered) \o (uses[t].out \o channel)
    <3> DEFINE b == read \o buffered
    <3>1. b \in Bytes
      BY <2>1
    <3> HIDE DEF b
    <3>2. (b \o uses[t].out) \o channel = b \o (uses[t].out \o channel)
      BY <1>3, <3>1, Grouped, Zenon
    <3> QED
      BY <3>2 DEF b
  <2>3. /\ (read \o buffered) \o (uses[t].out \o channel) \in Bytes
        /\ ((read \o buffered) \o (uses[t].out \o channel)) \o <<>>
           = (read \o buffered) \o (uses[t].out \o channel)
    BY <2>1, Joins
  <2> QED
    BY <1>0, <1>1, <1>2, <2>2, <2>3 DEF Whole, P!Output
<1>7. EndTold'
  <2>1. ASSUME NEW u \in P!Threads, uses'[u].end \in {"eof", "all"} PROVE FALSE
    <3>1. uses[u].end \in {"eof", "all"}
      BY <1>1, <2>1
    <3> QED
      BY <1>0, <1>2, <3>1 DEF EndTold
  <2> QED
    BY <2>1 DEF EndTold
<1> QED
  BY <1>0, <1>1, <1>5, <1>6, <1>7, TakerStep

LEMMA ReadEndKeeps ==
  ASSUME HandleTyped, ReadingKept, NEW t \in P!Threads, P!ReadEnd(t)
  PROVE  ReadingKept' /\ read' \in Bytes
<1> DEFINE how == IF uses[t].size < 0 THEN "all" ELSE "eof"
<1>0. /\ uses[t].at = "channel" /\ Takes(t) /\ channel = <<>> /\ channel' = channel
      /\ ended \/ closed
      /\ written' = written /\ ended' = ended /\ closed' = closed /\ buffered' = buffered
      /\ read' = read \o uses[t].out /\ P!Ends(t, how)
  BY DEF P!ReadEnd, P!At, Takes, P!handle
<1>1. Carries(t) /\ Whole(t)
  BY <1>0 DEF ReadingKept, InOrder
<1>2. how \in {"none", "done", "eof", "all", "expired", "failed"}
  OBVIOUS
<1> HIDE DEF how
<1>3. /\ uses'[t].at = "idle" /\ uses'[t].out = <<>>
      /\ \A u \in P!Threads: u # t => uses'[u] = uses[u]
  BY <1>0, <1>2, Ended
<1>4. buffered = <<>>
  BY <1>0, <1>1 DEF Carries
<1>5. read' \in Bytes /\ read' \o <<>> = read' /\ read \o <<>> = read
  BY <1>0, ThreadTyped, Joins DEF HandleTyped
<1>6. read' = P!Output(written)
  BY <1>0, <1>1, <1>4, <1>5 DEF Whole
<1>7. Carries(t)'
  BY <1>3 DEF Carries
<1>8. Whole(t)'
  BY <1>0, <1>3, <1>4, <1>5, <1>6 DEF Whole, P!Output
<1>9. EndTold'
  <2>1. \A u \in P!Threads: uses'[u].out = <<>>
    BY <1>0, <1>3, OthersCarryNothing
  <2> QED
    BY <1>0, <1>4, <1>6, <2>1 DEF EndTold, P!Output
<1> QED
  BY <1>0, <1>3, <1>5, <1>7, <1>8, <1>9, TakerStep

LEMMA WaitKeeps ==
  ASSUME HandleTyped, ReadingKept, NEW t \in P!Threads, P!Wait(t)
  PROVE  ReadingKept'
<1>0. /\ uses[t].at = "wait" /\ Takes(t) /\ channel' = <<>>
      /\ written' = written /\ ended' = ended /\ closed' = closed /\ buffered' = buffered
      /\ read' = read
  BY DEF P!Wait, P!At, Takes, P!history
<1>1. /\ uses'[t].at = "hold" /\ uses'[t].out = channel
      /\ uses'[t].end \in {"done", "expired"}
      /\ \A u \in P!Threads: u # t => uses'[u] = uses[u]
  <2>1. uses[t] \in Handling
    BY ThreadTyped
  <2> QED
    BY <2>1 DEF P!Wait, HandleTyped, Handling
<1>2. Carries(t) /\ Whole(t) /\ EndTold
  BY <1>0 DEF ReadingKept, InOrder
<1>3. read \in Bytes /\ channel \in Bytes /\ buffered \in Bytes
  BY DEF HandleTyped
<1>4. uses[t].out = <<>>
  BY <1>0, <1>2 DEF Carries
<1>5. Carries(t)'
  BY <1>1 DEF Carries
<1>6. Whole(t)'
  <2>1. /\ (read \o buffered) \o <<>> = read \o buffered
        /\ ((read \o buffered) \o channel) \o <<>> = (read \o buffered) \o channel
    BY <1>3, Joins
  <2> QED
    BY <1>0, <1>1, <1>2, <1>4, <2>1 DEF Whole, P!Output
<1>7. EndTold'
  <2> SUFFICES ASSUME NEW u \in P!Threads, uses'[u].end \in {"eof", "all"}
               PROVE  /\ ended \/ closed
                      /\ read = P!Output(written) /\ buffered = <<>> /\ channel = <<>>
                      /\ \A v \in P!Threads: uses[v].out = <<>>
    BY <1>0, <1>1 DEF EndTold, P!Output
  <2>1. u # t /\ uses[u].end \in {"eof", "all"}
    BY <1>1
  <2> QED
    BY <1>2, <2>1 DEF EndTold
<1> QED
  BY <1>0, <1>1, <1>5, <1>6, <1>7, TakerStep

LEMMA HoldKeeps ==
  ASSUME HandleTyped, ReadingKept, NEW t \in P!Threads, P!Hold(t)
  PROVE  ReadingKept'
<1>0. /\ uses[t].at = "hold" /\ Takes(t) /\ channel' = channel
      /\ written' = written /\ ended' = ended /\ closed' = closed /\ buffered' = buffered
      /\ read' = read
  BY DEF P!Hold, P!At, Takes, P!handle, P!history
<1>1. /\ uses'[t].at = "add" /\ uses'[t].seen = buffered /\ uses'[t].out = uses[t].out
      /\ uses'[t].end = uses[t].end
      /\ \A u \in P!Threads: u # t => uses'[u] = uses[u]
  <2>1. uses[t] \in Handling
    BY ThreadTyped
  <2> QED
    BY <2>1 DEF P!Hold, HandleTyped, Handling
<1>2. Whole(t) /\ EndTold
  BY <1>0 DEF ReadingKept, InOrder
<1>3. Carries(t)'
  BY <1>0, <1>1 DEF Carries
<1>4. Whole(t)'
  BY <1>0, <1>1, <1>2 DEF Whole, P!Output
<1>5. \A u \in P!Threads: uses'[u].end = uses[u].end /\ uses'[u].out = uses[u].out
  BY <1>1
<1>6. EndTold'
  BY <1>0, <1>2, <1>5 DEF EndTold, P!Output
<1> QED
  BY <1>0, <1>1, <1>3, <1>4, <1>6, TakerStep

LEMMA AddKeeps ==
  ASSUME HandleTyped, ReadingKept, NEW t \in P!Threads, P!Add(t)
  PROVE  ReadingKept'
<1>0. /\ uses[t].at = "add" /\ Takes(t) /\ channel' = channel
      /\ written' = written /\ ended' = ended /\ closed' = closed
      /\ buffered' = uses[t].seen \o uses[t].out /\ P!Ends(t, uses[t].end)
      /\ read' = read
  BY DEF P!Add, P!At, Takes, P!Keeps, P!history
<1>1. Carries(t) /\ Whole(t) /\ EndTold
  BY <1>0 DEF ReadingKept, InOrder
<1>2. /\ read \in Bytes /\ channel \in Bytes /\ buffered \in Bytes /\ uses[t].out \in Bytes
      /\ uses[t].end \in {"none", "done", "eof", "all", "expired", "failed"}
  BY ThreadTyped DEF HandleTyped
<1>3. /\ uses'[t].at = "idle" /\ uses'[t].out = <<>> /\ uses'[t].end = uses[t].end
      /\ \A u \in P!Threads: u # t => uses'[u] = uses[u]
  BY <1>0, <1>2, Ended
<1>4. buffered' = buffered \o uses[t].out
  BY <1>0, <1>1 DEF Carries
<1>5. Carries(t)'
  BY <1>3 DEF Carries
<1>6. Whole(t)'
  <2>1. /\ read \o (buffered \o uses[t].out) = (read \o buffered) \o uses[t].out
        /\ (read \o (buffered \o uses[t].out)) \o <<>> = read \o (buffered \o uses[t].out)
    <3>1. buffered \o uses[t].out \in Bytes /\ read \o (buffered \o uses[t].out) \in Bytes
      BY <1>2, Joins
    <3>2. read \o (buffered \o uses[t].out) = (read \o buffered) \o uses[t].out
      BY <1>2, Grouped, Zenon
    <3>3. (read \o (buffered \o uses[t].out)) \o <<>> = read \o (buffered \o uses[t].out)
      BY <3>1, Joins
    <3> QED
      BY <3>2, <3>3
  <2> QED
    BY <1>0, <1>1, <1>3, <1>4, <2>1 DEF Whole, P!Output
<1>7. EndTold'
  <2> SUFFICES ASSUME NEW u \in P!Threads, uses'[u].end \in {"eof", "all"}
               PROVE  /\ ended \/ closed
                      /\ read = P!Output(written) /\ buffered' = <<>> /\ channel = <<>>
                      /\ \A v \in P!Threads: uses'[v].out = <<>>
    BY <1>0 DEF EndTold, P!Output
  <2>1. uses[u].end \in {"eof", "all"}
    BY <1>3
  <2>2. /\ ended \/ closed
        /\ read = P!Output(written) /\ buffered = <<>> /\ channel = <<>>
        /\ \A v \in P!Threads: uses[v].out = <<>>
    BY <1>1, <2>1 DEF EndTold
  <2>3. <<>> \o <<>> = <<>>
    BY Joins
  <2> QED
    BY <1>3, <1>4, <2>2, <2>3
<1> QED
  BY <1>0, <1>3, <1>5, <1>6, <1>7, TakerStep

LEMMA WritesKeeps ==
  ASSUME HandleTyped, ReadingKept, P!Writes
  PROVE  ReadingKept' /\ channel' \in Bytes
<1>0. /\ ~ended /\ ~closed /\ written' = written + 1 /\ channel' = Append(channel, written + 1)
      /\ buffered' = buffered /\ read' = read /\ uses' = uses
  BY DEF P!Writes, P!history
<1>1. /\ read \in Bytes /\ buffered \in Bytes /\ channel \in Bytes /\ written \in Nat
      /\ \A t \in P!Threads: uses[t].out \in Bytes
  BY ThreadTyped DEF HandleTyped
<1>2. channel' \in Bytes
  BY <1>0, <1>1, AppendProperties DEF Bytes
<1>3. \A t \in P!Threads: Whole(t) => Whole(t)'
  <2> SUFFICES ASSUME NEW t \in P!Threads, Whole(t) PROVE Whole(t)'
    OBVIOUS
  <2> DEFINE b == (read \o buffered) \o uses[t].out
  <2>1. b \in Bytes
    BY <1>1, Joins
  <2>2. b \o channel = P!Output(written)
    BY DEF Whole
  <2> HIDE DEF b
  <2>3. b \o Append(channel, written + 1) = Append(b \o channel, written + 1)
    BY <1>1, <2>1, AppendLast
  <2>4. b \o Append(channel, written + 1) = P!Output(written + 1)
    BY <1>1, <2>2, <2>3, OutputGrows
  <2> QED
    BY <1>0, <2>4 DEF Whole, P!Output, b
<1>4. /\ \A t \in P!Threads: Takes(t)' = Takes(t) /\ Carries(t)' = Carries(t)
      /\ OneTakes' = OneTakes
  BY <1>0 DEF Takes, Carries, OneTakes
<1>5. InOrder'
  BY <1>3, <1>4 DEF ReadingKept, InOrder
<1>6. EndTold'
  BY <1>0 DEF ReadingKept, EndTold
<1> QED
  BY <1>2, <1>4, <1>5, <1>6 DEF ReadingKept

LEMMA ExitsKeeps ==
  ASSUME HandleTyped, ReadingKept, P!Exits
  PROVE  ReadingKept'
<1>0. /\ ended' = TRUE /\ written' = written /\ closed' = closed /\ channel' = channel
      /\ buffered' = buffered /\ read' = read /\ uses' = uses
  BY DEF P!Exits, P!handle, P!history
<1>1. EndTold'
  BY <1>0 DEF ReadingKept, EndTold, P!Output
<1>2. InOrder'
  BY <1>0 DEF ReadingKept, InOrder, Whole, Takes, P!Output
<1> QED
  BY <1>0, <1>1, <1>2 DEF ReadingKept, OneTakes, Takes, Carries

LEMMA BeginKeeps ==
  ASSUME HandleTyped, ReadingKept, NEW t \in P!Threads, NEW o \in P!Ops, P!Begin(t, o[1], o[2]),
         ~mixed'
  PROVE  ReadingKept'
<1>0. /\ uses[t].at = "idle"
      /\ mixed' = (mixed \/ (o[1] # "close" /\ \E u \in P!Threads: P!Busy(u) /\ ~P!At(u, "close")))
      /\ written' = written /\ ended' = ended /\ closed' = closed /\ channel' = channel
      /\ buffered' = buffered /\ read' = read
  BY DEF P!Begin, P!Busy, P!handle
<1>1. o[1] \in {"read", "wait", "close"} /\ o[2] \in Int
  BY DEF P!Ops
<1>2. /\ uses'[t].at = o[1] /\ uses'[t].out = <<>> /\ uses'[t].end = "none"
      /\ \A u \in P!Threads: u # t => uses'[u] = uses[u]
  BY DEF P!Begin, HandleTyped, P!Idle
<1>3. o[1] # "close" => \A u \in P!Threads: ~Takes(u)
  <2> SUFFICES ASSUME o[1] # "close", NEW u \in P!Threads, Takes(u) PROVE FALSE
    OBVIOUS
  <2>1. P!Busy(u) /\ ~P!At(u, "close")
    BY DEF Takes, P!Busy, P!At
  <2> QED
    BY <1>0, <2>1
<1>4. ~Takes(t) /\ uses[t].out = <<>>
  BY <1>0 DEF Takes, ReadingKept, Carries
<1>5. \A u \in P!Threads: uses'[u].out = uses[u].out
  BY <1>2, <1>4
<1>6. OneTakes'
  BY <1>1, <1>2, <1>3 DEF ReadingKept, OneTakes, Takes
<1>7. \A u \in P!Threads: Carries(u)'
  BY <1>0, <1>1, <1>2 DEF ReadingKept, Carries
<1>8. \A u \in P!Threads: Whole(u)' = Whole(u)
  BY <1>0, <1>5 DEF Whole, P!Output
<1>9. InOrder'
  <2>1. CASE o[1] = "close"
    <3>1. \A u \in P!Threads: Takes(u)' = Takes(u)
      BY <1>2, <1>4, <2>1 DEF Takes
    <3> QED
      BY <1>8, <3>1 DEF ReadingKept, InOrder
  <2>2. CASE o[1] # "close"
    BY <1>3, <1>8, <2>2 DEF ReadingKept, InOrder
  <2> QED
    BY <2>1, <2>2
<1>10. EndTold'
  <2> SUFFICES ASSUME NEW u \in P!Threads, uses'[u].end \in {"eof", "all"} PROVE EndTold'
    BY DEF EndTold
  <2>1. uses[u].end \in {"eof", "all"}
    BY <1>2
  <2> QED
    BY <1>0, <1>5, <2>1 DEF ReadingKept, EndTold, P!Output
<1> QED
  BY <1>6, <1>7, <1>9, <1>10 DEF ReadingKept

LEMMA CloseKeeps ==
  ASSUME HandleTyped, ReadingKept, NEW t \in P!Threads, P!Close(t)
  PROVE  ReadingKept' /\ closed' \in BOOLEAN
<1> DEFINE how == IF closed' = TRUE /\ P!Ends(t, "done") THEN "done" ELSE "failed"
<1>0. /\ uses[t].at = "close" /\ (closed => closed') /\ closed' \in BOOLEAN
      /\ written' = written /\ ended' = ended /\ channel' = channel
      /\ buffered' = buffered /\ read' = read
      /\ P!Ends(t, how) /\ how \in {"done", "failed"}
  BY DEF P!Close, P!At, HandleTyped, P!history
<1> HIDE DEF how
<1>1. /\ uses'[t].at = "idle" /\ uses'[t].out = <<>> /\ uses'[t].end = how
      /\ \A u \in P!Threads: u # t => uses'[u] = uses[u]
  BY <1>0, Ended
<1>2. ~Takes(t) /\ ~Takes(t)' /\ uses[t].out = <<>>
  BY <1>0, <1>1 DEF Takes, ReadingKept, Carries
<1>3. \A u \in P!Threads: Takes(u)' = Takes(u) /\ uses'[u].out = uses[u].out
  BY <1>1, <1>2 DEF Takes
<1>4. OneTakes'
  BY <1>3 DEF ReadingKept, OneTakes
<1>5. \A u \in P!Threads: Carries(u)'
  BY <1>0, <1>1 DEF ReadingKept, Carries
<1>6. InOrder'
  <2>1. \A u \in P!Threads: Whole(u)' = Whole(u)
    BY <1>0, <1>3 DEF Whole, P!Output
  <2> QED
    BY <1>3, <2>1 DEF ReadingKept, InOrder
<1>7. EndTold'
  <2> SUFFICES ASSUME NEW u \in P!Threads, uses'[u].end \in {"eof", "all"} PROVE EndTold'
    BY DEF EndTold
  <2>1. uses[u].end \in {"eof", "all"}
    BY <1>0, <1>1
  <2> QED
    BY <1>0, <1>3, <2>1 DEF ReadingKept, EndTold, P!Output
<1> QED
  BY <1>0, <1>4, <1>5, <1>6, <1>7 DEF ReadingKept

(* Types, also where reads overlap. *)
LEMMA TypesKept ==
  ASSUME HandleTyped, P!Next
  PROVE  HandleTyped'
<1>0. /\ written \in Nat /\ ended \in BOOLEAN /\ closed \in BOOLEAN /\ mixed \in BOOLEAN
      /\ channel \in Bytes /\ buffered \in Bytes /\ read \in Bytes
      /\ uses \in [P!Threads -> Handling] /\ <<>> \in Bytes
  BY Joins DEF HandleTyped
<1>1. CASE P!Writes
  <2>1. Append(channel, written + 1) \in Bytes
    BY <1>0, AppendProperties DEF Bytes
  <2> QED
    BY <1>0, <1>1, <2>1 DEF P!Writes, HandleTyped, P!history
<1>2. CASE P!Exits
  BY <1>0, <1>2 DEF P!Exits, HandleTyped, P!handle, P!history
<1>3. ASSUME NEW t \in P!Threads, NEW o \in P!Ops, P!Begin(t, o[1], o[2]) PROVE HandleTyped'
  <2>1. o[1] \in {"read", "wait", "close"} /\ o[2] \in Int
    BY DEF P!Ops
  <2>2. [P!Idle EXCEPT !.at = o[1], !.size = o[2]] \in Handling
    BY <1>0, <2>1 DEF P!Idle, Handling
  <2>3. mixed' \in BOOLEAN
    BY <1>3 DEF P!Begin
  <2> QED
    BY <1>0, <1>3, <2>2, <2>3 DEF P!Begin, HandleTyped, P!handle
<1>4. ASSUME NEW t \in P!Threads, P!Step(t) PROVE HandleTyped'
  <2>0. /\ uses[t] \in Handling /\ uses[t].seen \in Bytes /\ uses[t].out \in Bytes
        /\ uses[t].size \in Int
        /\ uses[t].end \in {"none", "done", "eof", "all", "expired", "failed"}
    BY ThreadTyped DEF HandleTyped
  <2>1. CASE P!Look(t)
    <3>1. [uses[t] EXCEPT !.at = IF buffered = <<>> THEN "channel" ELSE "take",
                        !.seen = buffered] \in Handling
      BY <1>0, <2>0 DEF Handling
    <3> QED
      BY <1>0, <2>1, <3>1 DEF P!Look, HandleTyped, P!handle, P!history
  <2>2. CASE P!TakeBuffered(t)
    <3>1. P!Amount(t) \in 0 .. Len(uses[t].seen)
      <4>1. Len(uses[t].seen) \in Nat
        BY <2>0, LenProperties DEF Bytes
      <4> QED
        BY <2>0, <4>1 DEF P!Amount
    <3>2. /\ SubSeq(uses[t].seen, 1, P!Amount(t)) \in Bytes /\ buffered' \in Bytes
          /\ read' \in Bytes
      BY <1>0, <2>0, <2>2, <3>1, PartMoves DEF P!TakeBuffered, P!Rest
    <3>3. uses' \in [P!Threads -> Handling]
      BY <2>2, Ended DEF P!TakeBuffered
    <3> QED
      BY <1>0, <2>2, <3>2, <3>3 DEF P!TakeBuffered, HandleTyped
  <2>3. CASE P!ReadSome(t)
    <3>1. read' \in Bytes /\ channel' \in Bytes
      BY <1>0, <2>3, HeadMoves DEF P!ReadSome
    <3>2. uses' \in [P!Threads -> Handling]
      BY <2>3, Ended DEF P!ReadSome
    <3> QED
      BY <1>0, <2>3, <3>1, <3>2 DEF P!ReadSome, HandleTyped
  <2>4. CASE P!Gather(t)
    <3>1. uses[t].out \o channel \in Bytes
      BY <1>0, <2>0, Joins
    <3>2. [uses[t] EXCEPT !.out = uses[t].out \o channel] \in Handling
      BY <2>0, <3>1 DEF Handling
    <3> QED
      BY <1>0, <2>4, <3>2 DEF P!Gather, HandleTyped, P!history
  <2>5. CASE P!ReadEnd(t)
    <3>1. read' \in Bytes
      BY <1>0, <2>0, <2>5, Joins DEF P!ReadEnd
    <3>2. uses' \in [P!Threads -> Handling]
      BY <2>5, Ended DEF P!ReadEnd
    <3> QED
      BY <1>0, <2>5, <3>1, <3>2 DEF P!ReadEnd, HandleTyped, P!handle
  <2>6. CASE P!Wait(t)
    <3>1. [uses[t] EXCEPT !.at = "hold", !.out = channel,
                        !.end = IF ended \/ closed THEN "done" ELSE "expired"] \in Handling
      BY <1>0, <2>0 DEF Handling
    <3> QED
      BY <1>0, <2>6, <3>1 DEF P!Wait, HandleTyped, P!history
  <2>7. CASE P!Hold(t)
    <3>1. [uses[t] EXCEPT !.at = "add", !.seen = buffered] \in Handling
      BY <1>0, <2>0 DEF Handling
    <3> QED
      BY <1>0, <2>7, <3>1 DEF P!Hold, HandleTyped, P!handle, P!history
  <2>8. CASE P!Add(t)
    <3>1. buffered' \in Bytes
      BY <2>0, <2>8, Joins DEF P!Add, P!Keeps
    <3>2. uses' \in [P!Threads -> Handling]
      BY <2>0, <2>8, Ended DEF P!Add
    <3> QED
      BY <1>0, <2>8, <3>1, <3>2 DEF P!Add, HandleTyped, P!history
  <2>9. CASE P!Close(t)
    <3>1. uses' \in [P!Threads -> Handling] /\ closed' \in BOOLEAN
      BY <1>0, <2>9, Ended DEF P!Close
    <3> QED
      BY <1>0, <2>9, <3>1 DEF P!Close, HandleTyped, P!history
  <2> QED
    BY <1>4, <2>1, <2>2, <2>3, <2>4, <2>5, <2>6, <2>7, <2>8, <2>9 DEF P!Step
<1> QED
  BY <1>1, <1>2, <1>3, <1>4 DEF P!Next

LEMMA HandleKept ==
  ASSUME HandleInv, [P!Next]_P!vars
  PROVE  HandleInv'
<1>1. CASE UNCHANGED P!vars
  BY <1>1 DEF HandleInv, HandleTyped, ReadingKept, OneTakes, InOrder, EndTold, Takes, Carries,
              Whole, P!Output, P!vars, P!handle, P!history
<1>2. CASE P!Next
  <2>1. HandleTyped'
    BY <1>2, TypesKept DEF HandleInv
  <2>2. mixed => mixed'
    BY <1>2 DEF P!Next, P!Step, P!Writes, P!Exits, P!Begin, P!Look, P!TakeBuffered,
                P!ReadSome, P!Gather, P!ReadEnd,
                P!Wait, P!Hold, P!Add, P!Close, P!history
  <2>3. ASSUME ReadingKept, ~mixed' PROVE ReadingKept'
    BY <1>2, <2>3, WritesKeeps, ExitsKeeps, BeginKeeps, LookKeeps, TakeBufferedKeeps,
       ReadSomeKeeps, GatherKeeps, ReadEndKeeps, WaitKeeps, HoldKeeps, AddKeeps, CloseKeeps
       DEF P!Next, P!Step, HandleInv
  <2> QED
    BY <2>1, <2>2, <2>3 DEF HandleInv
<1> QED
  BY <1>1, <1>2

LEMMA HandleStarts ==
  ASSUME P!Init
  PROVE  HandleInv
<1>1. /\ written = 0 /\ ended = FALSE /\ channel = <<>> /\ buffered = <<>> /\ closed = FALSE
      /\ read = <<>> /\ mixed = FALSE
      /\ \A t \in P!Threads: uses[t] = P!Idle
      /\ uses \in [P!Threads -> {P!Idle}]
  BY DEF P!Init
<1>2. <<>> \in Bytes /\ <<>> \o <<>> = <<>>
  <2>1. <<>> \in Bytes
    BY EmptySeq DEF Bytes
  <2> QED
    BY <2>1, Joins
<1>3. P!Idle \in Handling
  BY <1>2 DEF P!Idle, Handling
<1>4. HandleTyped
  BY <1>1, <1>2, <1>3 DEF HandleTyped
<1>5. P!Output(0) = <<>>
  BY DEF P!Output
<1>6. \A t \in P!Threads: Whole(t)
  BY <1>1, <1>2, <1>5 DEF Whole, P!Idle
<1> QED
  BY <1>1, <1>4, <1>6
     DEF HandleInv, ReadingKept, OneTakes, InOrder, EndTold, Takes, Carries, P!Idle

LEMMA OutputFollows ==
  ASSUME HandleInv
  PROVE  P!OutputKept
<1> SUFFICES ASSUME ~mixed PROVE P!OutputKept
  BY DEF P!OutputKept
<1>1. ReadingKept
  BY DEF HandleInv
<1>2. ASSUME \A t \in P!Threads: ~P!Busy(t) PROVE read \o buffered \o channel = P!Output(written)
  <2>1. \A u \in P!Threads: ~Takes(u)
    BY <1>2 DEF Takes, P!Busy
  <2>2. 1 \in P!Threads
    BY DEF P!Threads
  <2>3. Whole(1) /\ uses[1].out = <<>>
    BY <1>1, <2>1, <2>2 DEF ReadingKept, InOrder, Carries, Takes
  <2>4. (read \o buffered) \o <<>> = read \o buffered
    BY Joins DEF HandleInv, HandleTyped
  <2> QED
    BY <2>3, <2>4 DEF Whole
<1>3. \A t \in P!Threads: uses[t].end \in {"eof", "all"} => read = P!Output(written)
  BY <1>1 DEF ReadingKept, EndTold
<1> QED
  BY <1>2, <1>3 DEF P!OutputKept

-----------------------------------------------------------------------------
(* Of whatever a process writes, and of any number of reads and waits of   *)
(* two threads, one at a time: every byte is read once and in order, also  *)
(* those that a wait took and a timeout interrupted; and an end is told    *)
(* after the last of them.                                                 *)
THEOREM OutputIsKept == Run => []OutputKept
<1>1. RunInit => HandleInv
  BY HandleStarts DEF RunInit
<1>2. HandleInv /\ [RunNext]_all => HandleInv'
  <2> SUFFICES ASSUME HandleInv, [RunNext]_all PROVE HandleInv'
    OBVIOUS
  <2>1. [P!Next]_(P!vars)
    BY DEF RunNext, all, process, P!vars, P!handle, P!history
  <2> QED
    BY <2>1, HandleKept
<1>3. HandleInv => OutputKept
  BY OutputFollows DEF OutputKept
<1> QED
  BY <1>1, <1>2, <1>3, PTL DEF Run
=============================================================================
