---------------------------- MODULE WinRMTransport ----------------------------
(***************************************************************************)
(* `_WinRMTransport` (transports/winrm): the leg that was selected - the   *)
(* local PowerShell, pywinrm's shells or a PSRP runspace pool -, its lazy  *)
(* session, and one run over it with its deadline, its exit status and     *)
(* what it leaves on the server.  Two threads share the transport.         *)
(***************************************************************************)
EXTENDS Integers, FiniteSets

CONSTANTS Legs,        \* of "native", "pywinrm" and "psrp"
          LocalScripts, ShellScripts, PoolScripts,  \* of the scripts below, those each leg runs
          MaxCalls,    \* bound: calls of all threads, and so sessions and pools
          MaxSends     \* bound: pieces of `_STDIN_CHUNK` bytes in a script

ASSUME WinRMAssumption ==
    /\ Legs \subseteq {"native", "pywinrm", "psrp"}
    /\ LocalScripts \cup ShellScripts \cup PoolScripts \subseteq {"ok", "native", "pure", "forges"}
    /\ MaxCalls \in Nat /\ MaxSends \in Nat \ {0}

Scripts == [native |-> LocalScripts, pywinrm |-> ShellScripts, psrp |-> PoolScripts]

Threads == {1, 2}
Calls == 1 .. MaxCalls
Nobody == 0

(* What a script does last: succeed, fail in a native program with status  *)
(* 2, fail in PowerShell itself, or be ended by an error after printing    *)
(* the marker line of some other call.  A pipeline completes all the same  *)
(* when the native program fails.                                          *)
OwnStatusOf(script) == [ok |-> 0, native |-> 2, pure |-> 1, forges |-> 1][script]
Completes(script) == script \in {"ok", "native"}

VARIABLES leg,         \* which leg; it is selected once
          session,     \* `_session` or `_runspace`: which one (0: none)
          made,        \* how many were built
          pool,        \* `_pool` of each runspace session (0: none)
          open,        \* `_open` of each
          lifecycle,   \* `_lifecycle` of each: who holds it
          th,          \* what each thread is doing
          calls        \* how many calls were begun

VARIABLES pools,       \* how many pools were made
          poolsUp,     \* the pools open at the server
          shells,      \* the WinRS shells open at the server, by their call
          job,         \* the command of each call, at the server
          lastExit     \* `$LASTEXITCODE` of each pool's runspace

(* History, which no guard reads. *)
VARIABLES outcome,     \* how each call ended
          refused,     \* the shells and pools whose deletion failed, the shells
                       \* whose opening nobody was told of
          strays       \* the sessions closed while a call was opening them

client == <<leg, session, made, pool, open, lifecycle, calls>>
server == <<pools, poolsUp, shells, job, lastExit>>
history == <<outcome, refused, strays>>
vars == <<client, th, server, history>>

Idle == [op |-> "none", at |-> "idle", call |-> 0, sess |-> 0, held |-> 0, script |-> "ok",
         capture |-> FALSE, limit |-> FALSE, cmd |-> FALSE, sends |-> 0, so |-> "none"]
NoJob == [st |-> "none", pool |-> 0, marks |-> {}, script |-> "ok", capture |-> FALSE]

Init ==
    /\ leg \in Legs
    /\ session = 0 /\ made = 0 /\ calls = 0
    /\ pool = [s \in Calls |-> 0] /\ open = [s \in Calls |-> FALSE]
    /\ lifecycle = [s \in Calls |-> Nobody]
    /\ th = [t \in Threads |-> Idle]
    /\ pools = 0 /\ poolsUp = {} /\ shells = {}
    /\ job = [n \in Calls |-> NoJob] /\ lastExit = [p \in Calls |-> 0]
    /\ outcome = [n \in Calls |-> [how |-> "none", status |-> -1]]
    /\ refused = {} /\ strays = {}

-----------------------------------------------------------------------------
At(t, pc) == th[t].at = pc
Busy(t) == ~At(t, "idle")
Goes(t, pc) == th' = [th EXCEPT ![t].at = pc]
My(t) == th[t].call
Now(t) == pool[th[t].sess]

EndsHolding(t, s, how, status) ==
    /\ th' = [th EXCEPT ![t] = [Idle EXCEPT !.held = s]]
    /\ outcome' = [outcome EXCEPT ![My(t)] = [how |-> how, status |-> status]]
Ends(t, how, status) == EndsHolding(t, th[t].held, how, status)
Fails(t) == Ends(t, "failed", -1)

(* `run` always captures the status of its script; `invoke` only when it   *)
(* is told to (`capture_exit`).                                            *)
Begin(t, op, script, limit, capture) ==
    /\ ~Busy(t) /\ calls < MaxCalls
    /\ op \in {"connect", "run", "close"} \/ leg = "psrp"
    /\ op = "invoke" => th[t].held # 0
    /\ calls' = calls + 1
    /\ th' = [th EXCEPT ![t] =
           [Idle EXCEPT !.op = op, !.call = calls + 1, !.held = th[t].held, !.sess = th[t].held,
                        !.script = script, !.limit = limit, !.capture = capture,
                        !.at = CASE op = "close" -> "close"
                                 [] op = "invoke" -> "connect again"
                                 [] OTHER -> "session"]]
    /\ UNCHANGED <<leg, session, made, pool, open, lifecycle, server, history>>

(* The lazy session, built with the leg's lock held.  A session of the     *)
(* native leg or of pywinrm reaches nobody before it runs something.       *)
Fresh == made + 1         \* Mutant: each call builds one.
Current == IF session = 0 THEN made + 1 ELSE session

Session(t) ==
    /\ At(t, "session")
    /\ LET s == Current IN
       /\ session' = s /\ made' = (IF s > made THEN s ELSE made)
       /\ IF leg # "psrp" /\ th[t].op = "connect" THEN Ends(t, "done", -1)
          ELSE /\ th' = [th EXCEPT ![t].sess = s,
                                   ![t].at = CASE leg = "psrp" -> "connect"
                                               [] leg = "pywinrm" -> "shell"
                                               [] OTHER -> "relay"]
               /\ UNCHANGED outcome
    /\ UNCHANGED <<leg, pool, open, lifecycle, calls, server, refused, strays>>

BuildFails(t) ==
    /\ At(t, "session") /\ leg # "psrp" /\ session = 0
    /\ Fails(t)
    /\ UNCHANGED <<client, server, refused, strays>>

AlwaysFree(s) == TRUE     \* Mutant: it opens its pool without the lock.
Free(s) == lifecycle[s] = Nobody

(* `RunspaceSession.connect`, which a run goes through twice: the leg's    *)
(* accessor connects, and `invoke` again.                                  *)
Connected(t) ==
    CASE th[t].op = "connect" -> Ends(t, "done", -1)
      [] th[t].op = "runspace" -> EndsHolding(t, th[t].sess, "done", -1)
      [] OTHER -> /\ Goes(t, IF At(t, "connect") \/ At(t, "opening") THEN "connect again"
                             ELSE "pipeline")
                  /\ UNCHANGED outcome

Connect(t) ==
    /\ th[t].at \in {"connect", "connect again"}
    /\ LET s == th[t].sess IN
       /\ Free(s)
       /\ \/ /\ open[s] /\ Connected(t)
             /\ UNCHANGED <<lifecycle, pool, pools>>
          \/ /\ ~open[s]
             /\ lifecycle' = [lifecycle EXCEPT ![s] = t]
             /\ pools' = (IF pool[s] = 0 THEN pools + 1 ELSE pools)
             /\ pools' \in Calls
             /\ pool' = [pool EXCEPT ![s] = IF @ = 0 THEN pools' ELSE @]
             /\ Goes(t, IF At(t, "connect") THEN "opening" ELSE "opening again")
             /\ UNCHANGED outcome
          \/ ~open[s] /\ pool[s] = 0 /\ Fails(t) /\ UNCHANGED <<lifecycle, pool, pools>>
    /\ UNCHANGED <<leg, session, made, open, calls, poolsUp, shells, job, lastExit, refused, strays>>

Open(t) ==
    /\ th[t].at \in {"opening", "opening again"}
    /\ LET s == th[t].sess IN
       /\ lifecycle' = [lifecycle EXCEPT ![s] = Nobody]
       /\ \/ /\ open' = [open EXCEPT ![s] = TRUE]
             /\ poolsUp' = poolsUp \cup {pool[s]}
             /\ Connected(t)
          \/ /\ Fails(t)            \* It is not open, or nobody was told.
             /\ poolsUp' \in {poolsUp, poolsUp \cup {pool[s]}} /\ UNCHANGED open
    /\ UNCHANGED <<leg, session, made, pool, calls, pools, shells, job, lastExit, refused, strays>>

(* `close`: the leg lets go of its session, then closes it.                *)
Close(t) ==
    /\ At(t, "close")
    /\ session' = 0
    /\ IF leg = "psrp" /\ session # 0
       THEN th' = [th EXCEPT ![t].at = "close pool", ![t].sess = session] /\ UNCHANGED outcome
       ELSE Ends(t, "done", -1)
    /\ strays' = strays \cup
           {s \in {session} \ {0}: \E u \in Threads: th[u].sess = s \/ th[u].held = s}
    /\ UNCHANGED <<leg, made, pool, open, lifecycle, calls, server, refused>>

Gone(p) == [n \in Calls |-> IF job[n].pool = p /\ job[n].st \in {"queued", "running"}
                            THEN [job[n] EXCEPT !.st = "killed"] ELSE job[n]]

ClosePool(t) ==
    /\ At(t, "close pool")
    /\ LET s == th[t].sess
           p == pool[s]
       IN  /\ Free(s)
           /\ open' = [open EXCEPT ![s] = FALSE] /\ pool' = [pool EXCEPT ![s] = 0]
           /\ \/ /\ poolsUp' = poolsUp \ {p} /\ job' = (IF p = 0 THEN job ELSE Gone(p))
                 /\ Ends(t, "done", -1)
                 /\ UNCHANGED refused
              \/ /\ p # 0 /\ Fails(t) /\ refused' = refused \cup {<<"pool", p>>}
                 /\ UNCHANGED <<poolsUp, job>>
    /\ UNCHANGED <<leg, session, made, lifecycle, calls, pools, shells, lastExit, strays>>

-----------------------------------------------------------------------------
(* A pipeline.  `_pool` is read after `connect` gave the lock back, and a  *)
(* `close` may have taken it.                                              *)
Submit(t, p) ==
    job' = [job EXCEPT ![My(t)] = [NoJob EXCEPT !.st = IF p = 0 THEN "running" ELSE "queued",
                                                !.pool = p, !.script = th[t].script,
                                                !.capture = th[t].capture]]
Pipeline(t) ==
    /\ At(t, "pipeline")
    /\ \/ Now(t) \in poolsUp /\ Submit(t, Now(t)) /\ Goes(t, "poll") /\ UNCHANGED outcome
       \/ Now(t) \in poolsUp /\ Submit(t, Now(t)) /\ Fails(t)
       \/ Fails(t) /\ UNCHANGED job
    /\ UNCHANGED <<client, pools, poolsUp, shells, lastExit, refused, strays>>

(* The native leg: the local PowerShell relays the call.                   *)
Relay(t) ==
    /\ At(t, "relay")
    /\ Submit(t, 0) /\ Goes(t, "poll")
    /\ UNCHANGED <<client, pools, poolsUp, shells, lastExit, history>>

(* pywinrm: a shell, a command in it, and the script on its input.  The    *)
(* shell is opened before the `try`: when its answer is lost, it is left.  *)
Shell(t) ==
    /\ At(t, "shell")
    /\ \/ /\ shells' = shells \cup {My(t)} /\ Goes(t, "command")
          /\ UNCHANGED <<outcome, refused>>
       \/ /\ shells' = shells \cup {My(t)} /\ Fails(t)
          /\ refused' = refused \cup {<<"opening", My(t)>>}
       \/ Fails(t) /\ UNCHANGED <<shells, refused>>
    /\ UNCHANGED <<client, pools, poolsUp, job, lastExit, strays>>

ToCleanup(t, so) == th' = [th EXCEPT ![t].at = "cleanup", ![t].so = so]

CommandFailsOutside(t) == Fails(t)     \* Mutant: it is run before the `try`.
CommandFails(t) == ToCleanup(t, "failed") /\ UNCHANGED outcome

Command(t) ==
    /\ At(t, "command")
    /\ \/ th' = [th EXCEPT ![t].at = "send", ![t].cmd = TRUE] /\ UNCHANGED outcome
       \/ CommandFails(t)
    /\ UNCHANGED <<client, server, refused, strays>>

Send(t) ==
    /\ At(t, "send")
    /\ \/ /\ th[t].sends + 1 < MaxSends
          /\ th' = [th EXCEPT ![t].sends = @ + 1] /\ UNCHANGED job
       \/ Submit(t, 0) /\ Goes(t, "poll")
       \/ Submit(t, 0) /\ ToCleanup(t, "failed")
       \/ ToCleanup(t, "failed") /\ UNCHANGED job
    /\ UNCHANGED <<client, pools, poolsUp, shells, lastExit, history>>

-----------------------------------------------------------------------------
(* The answer.  A line that begins with this call's marker carries its     *)
(* status; without one, or when it is not captured, the state of the       *)
(* pipeline does.  pywinrm is told the status itself.                      *)
FixedMarker(n) == 0          \* Mutant: one marker for all calls.
Marker(n) == n

Status(n) ==
    IF job[n].capture /\ \E m \in job[n].marks: m[1] = Marker(n)
    THEN (CHOOSE m \in job[n].marks: m[1] = Marker(n))[2]
    ELSE IF job[n].st = "over" /\ Completes(job[n].script) THEN 0 ELSE 1

Over(n) == job[n].st \in {"over", "killed"}

Answered(t) ==
    /\ At(t, "poll") /\ Over(My(t))
    /\ IF leg = "pywinrm" THEN ToCleanup(t, "done") /\ UNCHANGED outcome
       ELSE Ends(t, "done", Status(My(t)))
    /\ UNCHANGED <<client, server, refused, strays>>

PollFails(t) ==
    /\ At(t, "poll")
    /\ IF leg = "pywinrm" THEN ToCleanup(t, "failed") /\ UNCHANGED outcome ELSE Fails(t)
    /\ UNCHANGED <<client, server, refused, strays>>

(* The deadline, which may pass at any time and is looked at between two   *)
(* receives: the end of the command is asked for, not awaited.             *)
StopAwaited(t) == Over(My(t)) /\ Ends(t, "orphaned", -1)    \* Mutant: it is.
StopAsked(t) == Ends(t, "orphaned", -1)

Expired(t) ==
    /\ At(t, "poll") /\ th[t].limit
    /\ IF leg = "pywinrm" THEN ToCleanup(t, "orphaned") /\ UNCHANGED outcome ELSE StopAsked(t)
    /\ UNCHANGED <<client, server, refused, strays>>

(* `finally`: the command is ended, when there is one, and its shell       *)
(* deleted whatever that raised; what they raise replaces a result, and    *)
(* not a timeout.                                                          *)
Cleanup(t) ==
    /\ At(t, "cleanup")
    /\ \E signalled \in IF th[t].cmd THEN BOOLEAN ELSE {TRUE}, deleted \in BOOLEAN:
       /\ shells' = (IF deleted THEN shells \ {My(t)} ELSE shells)
       /\ refused' = (IF deleted THEN refused ELSE refused \cup {<<"shell", My(t)>>})
       /\ job' = [job EXCEPT ![My(t)].st =
                      IF @ \in {"queued", "running"} /\ (deleted \/ (signalled /\ th[t].cmd))
                      THEN "killed" ELSE @]
       /\ IF th[t].so = "done" /\ signalled /\ deleted THEN Ends(t, "done", Status(My(t)))
          ELSE Ends(t, IF th[t].so = "orphaned" THEN "orphaned" ELSE "failed", -1)
    /\ UNCHANGED <<client, pools, poolsUp, lastExit, strays>>

-----------------------------------------------------------------------------
(* The server.  A pool has one runspace, which takes a pipeline when the   *)
(* one before has ended; its `$LASTEXITCODE` outlives the pipelines.       *)
NotReset(p) == lastExit[p]       \* Mutant: the script does not begin with the reset.
Reset(p) == 0

Start(n) ==
    /\ job[n].st = "queued"
    /\ \A m \in Calls: ~(job[m].pool = job[n].pool /\ job[m].st = "running")
    /\ job' = [job EXCEPT ![n].st = "running"]
    /\ lastExit' = (IF job[n].capture
                    THEN [lastExit EXCEPT ![job[n].pool] = Reset(job[n].pool)] ELSE lastExit)
    /\ UNCHANGED <<client, th, pools, poolsUp, shells, history>>

(* `POWERSHELL_STATUS`: 0 for a last statement that succeeded, else the    *)
(* native status there is, else 1.                                         *)
Reports(n) ==
    LET p == job[n].pool
        native == IF job[n].script = "native" THEN 2 ELSE IF p = 0 THEN 0 ELSE lastExit[p]
        status == IF job[n].script = "ok" THEN 0 ELSE IF native = 0 THEN 1 ELSE native
    IN  IF job[n].script = "forges" THEN {<<0, 0>>}
        ELSE IF job[n].capture THEN {<<Marker(n), status>>} ELSE {}

Finish(n) ==
    /\ job[n].st = "running"
    /\ job' = [job EXCEPT ![n].st = "over", ![n].marks = Reports(n)]
    /\ lastExit' = (IF job[n].pool # 0 /\ job[n].script = "native"
                    THEN [lastExit EXCEPT ![job[n].pool] = 2] ELSE lastExit)
    /\ UNCHANGED <<client, th, pools, poolsUp, shells, history>>

Step(t) ==
    \/ Session(t) \/ BuildFails(t) \/ Connect(t) \/ Open(t) \/ Close(t) \/ ClosePool(t)
    \/ Pipeline(t) \/ Relay(t) \/ Shell(t) \/ Command(t) \/ Send(t)
    \/ Answered(t) \/ Expired(t) \/ Cleanup(t)

Next ==
    \/ \E t \in Threads:
           \/ Step(t) \/ PollFails(t)
           \/ \E op \in {"connect", "runspace", "close"}: Begin(t, op, "ok", FALSE, FALSE)
           \/ \E script \in Scripts[leg], limit \in BOOLEAN:
                  \/ \E capture \in BOOLEAN: Begin(t, "invoke", script, limit, capture)
                  \/ Begin(t, "run", script, limit, TRUE)
    \/ \E n \in Calls: Start(n) \/ Finish(n)

Spec == Init /\ [][Next]_vars /\ \A t \in Threads: WF_vars(Step(t))

-----------------------------------------------------------------------------
(* Properties. *)

(* Every variable keeps its kind, and only one thread opens a session.     *)
TypeOK ==
    /\ leg \in Legs /\ session \in 0 .. made /\ made \in 0 .. MaxCalls /\ calls \in 0 .. MaxCalls
    /\ pool \in [Calls -> 0 .. MaxCalls] /\ open \in [Calls -> BOOLEAN]
    /\ lifecycle \in [Calls -> Threads \cup {Nobody}]
    /\ poolsUp \subseteq 1 .. pools /\ shells \subseteq Calls
    /\ \A s \in Calls: Cardinality({t \in Threads: th[t].sess = s
                                       /\ th[t].at \in {"opening", "opening again"}}) <= 1

(* The status a call returns is its own: not what an earlier command left  *)
(* in the runspace, nor what it printed of another's.  A pipeline that a   *)
(* close of the pool ended reports a failure.  An `invoke` that did not    *)
(* capture it tells only whether the pipeline completed: then a native     *)
(* program that failed is answered with 0.                                 *)
Due(j) ==
    IF j.st = "killed" THEN 1
    ELSE IF j.capture THEN OwnStatusOf(j.script)
    ELSE IF Completes(j.script) THEN 0 ELSE 1
OwnStatus ==
    \A n \in Calls: outcome[n].how = "done" /\ job[n].st # "none" =>
        outcome[n].status = Due(job[n])

(* A run that returned has ended at the server, and one that may go on was *)
(* reported so; a shell outlives its call only if its deletion failed or   *)
(* nobody was told that it had opened.                                     *)
Honest ==
    \A n \in Calls: outcome[n].how # "none" =>
        /\ job[n].st \in {"queued", "running"} => outcome[n].how \in {"orphaned", "failed"}
        /\ n \in shells => <<"shell", n>> \in refused \/ <<"opening", n>> \in refused

(* An open pool is that of a session some `close` reaches, unless closing  *)
(* it failed, or its session was closed while a thread was using it.       *)
PoolsOwned ==
    \A p \in poolsUp:
        \/ <<"pool", p>> \in refused
        \/ \E s \in Calls: /\ pool[s] = p
                           /\ \/ s = session \/ s \in strays
                              \/ \E t \in Threads: At(t, "close pool") /\ th[t].sess = s

(* What a run answers is so.                                               *)
HonestRuns == TypeOK /\ OwnStatus /\ Honest

(* A run with a deadline ends, whatever the command does, and so do the    *)
(* calls that wait for the session's lock.                                 *)
CallsEnd == \A t \in Threads: (Busy(t) /\ (th[t].limit \/ th[t].op \in {"connect", "close"})) ~> ~Busy(t)
=============================================================================
