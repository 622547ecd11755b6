------------------------------- MODULE GuestHost -------------------------------
(***************************************************************************)
(* `QEMUHost` (transports/qemu/_host.py): a host that several threads      *)
(* share, which builds its guest-agent transport, discovers the guest and  *)
(* assembles a path backend when they are first needed, and forgets them   *)
(* in `close`.  A path keeps the backend it was made with.                 *)
(*                                                                         *)
(* A framed transport does a request under its own lock, and reconnects    *)
(* when it has to; what a request says is GuestAgent's matter.  A libvirt  *)
(* transport locks its connect only, so its steps are told apart.          *)
(***************************************************************************)
EXTENDS Integers, Sequences, FiniteSets

CONSTANTS Threads,
          Kinds,          \* the kinds of transport to consider
          GuestHelps,     \* whether the guest supports a path helper
          MaxOps,         \* bound: calls of all threads, by kind
          MaxTransports,  \* bound: transports built
          MaxConns        \* bound: connections opened

(* What is taken for granted of the constants. *)
GuestHostAssumption ==
    /\ Kinds \subseteq {"framed", "libvirt"}
    /\ GuestHelps \in BOOLEAN
    /\ 0 \notin Threads
    /\ MaxTransports \in Nat

VARIABLES kind,        \* `config.transport`
          lock,        \* who holds the host's lock (0: nobody)
          transport,   \* `_transport` (0: none)
          built,       \* how many transports were built
          commands,    \* whether `_commands` is known
          osInfo,      \* whether `_os_info` is
          helper,      \* `_path_helper`
          backends,    \* the path backends that were made
          backend,     \* `_path_backend` (0: none)
          provider,    \* the backend of `_path_provider` (0: none)
          paths,       \* the backends of the paths that callers hold
          connLock,    \* who holds the lock of a libvirt transport
          conn,        \* a transport's `_connection` (0: none)
          domain,      \* the connection its `_domain` is of (0: none)
          open,        \* the connections that are open
          dialled,     \* how many were opened
          th,          \* what each thread is doing
          ops          \* how many calls were begun

(* History, which no guard reads. *)
VARIABLES overlapped,  \* transports closed while another call was under way
          lost,        \* backends that another took the place of
          torn         \* libvirt transports whose close met a connect

host == <<lock, transport, built, commands, osInfo, helper, backends, backend, provider, paths>>
wire == <<connLock, conn, domain, open, dialled>>
history == <<overlapped, lost, torn>>
vars == <<kind, host, wire, th, ops, history>>

AllTransports == 1 .. MaxTransports
Calls == {"run", "path", "use", "close"}

Idle == [op |-> "none", at |-> "idle", then |-> "none", back |-> "none",
         tr |-> 0, of |-> 0, be |-> 0, helps |-> FALSE, caps |-> FALSE, conn |-> 0]

Init ==
    /\ kind \in Kinds
    /\ lock = 0 /\ transport = 0 /\ built = 0
    /\ commands = FALSE /\ osInfo = FALSE /\ helper = "unprobed"
    /\ backends = <<>> /\ backend = 0 /\ provider = 0 /\ paths = {}
    /\ connLock = [i \in AllTransports |-> 0]
    /\ conn = [i \in AllTransports |-> 0] /\ domain = [i \in AllTransports |-> 0]
    /\ open = {} /\ dialled = 0
    /\ th = [t \in Threads |-> Idle]
    /\ ops = 0
    /\ overlapped = {} /\ lost = {} /\ torn = {}

-----------------------------------------------------------------------------
At(t, pc) == th[t].at = pc
Goes(t, pc) == th' = [th EXCEPT ![t].at = pc]

(* How a call ended, where a property asks: "idle" is a result or an error *)
(* of the transport.                                                       *)
Busy(t) == th[t].at \notin {"idle", "refused", "crashed", "asserted"}
Ends(t, how) == th' = [th EXCEPT ![t] = [Idle EXCEPT !.at = how]]

CanLockPlain(t) == lock = 0            \* Mutant: the lock is not re-entrant.
CanLock(t) == lock \in {0, t}          \* `_lock` is an RLock.
KeepsLock(t) == lock                   \* Mutant: it is never released.
Unlocked(t) == IF lock = t THEN 0 ELSE lock

Begin(t, op) ==
    /\ ~Busy(t) /\ ops < MaxOps[kind]
    /\ ops' = ops + 1
    /\ \/ /\ op \in {"run", "path"}
          /\ th' = [th EXCEPT ![t] = [Idle EXCEPT !.op = op, !.at = "connect", !.then = "capable"]]
       \/ /\ op = "use"
          /\ \E b \in paths: th' = [th EXCEPT ![t] = [Idle EXCEPT !.op = op, !.at = "use", !.be = b]]
       \/ /\ op = "close"
          /\ th' = [th EXCEPT ![t] = [Idle EXCEPT !.op = op, !.at = "close"]]
    /\ UNCHANGED <<kind, host, wire, history>>

BeingDiscovered(t) == commands \/ lock \notin {0, t}   \* Mutant: another thread's will do.
Discovered(t) == commands

(* `connect` reads `_commands` without the lock, and again with it.        *)
Connect(t) ==
    /\ At(t, "connect")
    /\ IF Discovered(t) THEN Goes(t, th[t].then) /\ UNCHANGED lock
       ELSE CanLock(t) /\ lock' = t /\ Goes(t, "obtain")
    /\ UNCHANGED <<kind, transport, built, commands, osInfo, helper, backends, backend, provider,
                   paths, wire, ops, history>>

(* The `transport` property, which builds one under the lock; the SSH      *)
(* connection that it builds on may fail.                                  *)
Execute(t, i, back) == th' = [th EXCEPT ![t].tr = i, ![t].at = "execute", ![t].back = back]

Obtain(t) ==
    /\ th[t].at \in {"obtain", "transport", "probing", "command"}
    /\ \/ /\ transport # 0
          /\ UNCHANGED <<transport, built>>
       \/ /\ transport = 0 /\ CanLock(t) /\ built < MaxTransports
          /\ transport' = built + 1 /\ built' = built + 1
    /\ CASE th[t].at = "obtain" -> Execute(t, transport', "info")
         [] th[t].at = "command" -> Execute(t, transport', "ran")
         [] th[t].at = "probing" -> Execute(t, transport', "probed")
         [] OTHER -> th' = [th EXCEPT ![t].of = transport', ![t].at = "connect",
                                      ![t].then = "commands"]
    /\ UNCHANGED <<kind, lock, commands, osInfo, helper, backends, backend, provider, paths, wire,
                   ops, history>>

(* An exception ends the call and leaves its lock; while the helper is     *)
(* probed it means that there is none.                                     *)
Fails(t, how) ==
    IF th[t].back = "probed"
    THEN /\ helper' = "none"
         /\ th' = [th EXCEPT ![t].at = "store", ![t].helps = FALSE, ![t].conn = 0]
         /\ UNCHANGED lock
    ELSE Ends(t, how) /\ lock' = Unlocked(t) /\ UNCHANGED helper

CannotBuild(t) ==
    /\ th[t].at \in {"obtain", "transport", "probing", "command"}
    /\ transport = 0 /\ CanLock(t)
    /\ IF th[t].at = "probing"
       THEN /\ helper' = "none"
            /\ th' = [th EXCEPT ![t].at = "store", ![t].helps = FALSE]
            /\ UNCHANGED lock
       ELSE Ends(t, "idle") /\ lock' = Unlocked(t) /\ UNCHANGED helper
    /\ UNCHANGED <<kind, transport, built, commands, osInfo, backends, backend, provider, paths,
                   wire, ops, history>>

-----------------------------------------------------------------------------
(* `_discover`: the commands and then the optional facts; "already         *)
(* discovered" is committed last.                                          *)
CommitFirst(back) == IF back = "info" THEN TRUE ELSE commands    \* Mutant: set with guest-info.
Commits(back) == IF back = "commit" THEN TRUE ELSE commands

Answered(t) ==
    LET back == th[t].back IN
    /\ commands' = Commits(back)
    /\ CASE back = "info" -> Execute(t, th[t].tr, "commit") /\ UNCHANGED <<osInfo, lock, helper>>
         [] back = "commit" -> /\ osInfo' = TRUE /\ lock' = Unlocked(t)
                               /\ Goes(t, th[t].then) /\ UNCHANGED helper
         [] back = "probed" -> /\ helper' = IF GuestHelps THEN "some" ELSE "none"
                               /\ th' = [th EXCEPT ![t].at = "store", ![t].helps = GuestHelps]
                               /\ UNCHANGED <<osInfo, lock>>
         [] OTHER -> Ends(t, "idle") /\ UNCHANGED <<osInfo, lock, helper>>
    /\ UNCHANGED <<transport, built, backends, backend, provider, paths>>

Refused(t, how) ==
    /\ Fails(t, how)
    /\ UNCHANGED <<transport, built, commands, osInfo, backends, backend, provider, paths>>

(* A framed transport: one request under its lock, over a connection that  *)
(* is opened when there is none and dropped when it fails.                 *)
Dial(i, c) ==
    /\ dialled < MaxConns /\ c = dialled + 1
    /\ dialled' = c /\ open' = open \cup {c}

Framed(t) ==
    /\ At(t, "execute") /\ kind = "framed"
    /\ LET i == th[t].tr IN
       \/ /\ conn[i] # 0 /\ Answered(t) /\ UNCHANGED <<conn, open, dialled>>
       \/ /\ conn[i] = 0 /\ Dial(i, dialled + 1)
          /\ conn' = [conn EXCEPT ![i] = dialled + 1]
          /\ Answered(t)
       \/ /\ Refused(t, "idle")
          /\ open' = open \ {conn[i]} /\ conn' = [conn EXCEPT ![i] = 0]
          /\ UNCHANGED dialled
    /\ UNCHANGED <<kind, connLock, domain, ops, history>>

(* `LibvirtGuestAgentTransport.execute`: `connect`, which reads `_domain`  *)
(* without the lock and again with it, then the call.                      *)
LibvirtConnect(t) ==
    /\ At(t, "execute") /\ kind = "libvirt"
    /\ LET i == th[t].tr IN
       \/ domain[i] # 0 /\ Goes(t, "call") /\ UNCHANGED <<connLock, open, dialled, helper, lock>>
       \/ /\ domain[i] = 0 /\ connLock[i] = 0
          /\ connLock' = [connLock EXCEPT ![i] = t]
          /\ Dial(i, dialled + 1)
          /\ th' = [th EXCEPT ![t].at = "bind", ![t].conn = dialled + 1]
          /\ UNCHANGED <<helper, lock>>
       \/ /\ domain[i] = 0 /\ connLock[i] = 0
          /\ Fails(t, "idle") /\ UNCHANGED <<connLock, open, dialled>>
    /\ UNCHANGED <<kind, transport, built, commands, osInfo, backends, backend, provider, paths,
                   conn, domain, ops, history>>

Bind(t) ==
    /\ At(t, "bind")
    /\ conn' = [conn EXCEPT ![th[t].tr] = th[t].conn]
    /\ Goes(t, "bound")
    /\ torn' = IF \E u \in Threads: At(u, "drop domain") /\ th[u].tr = th[t].tr
               THEN torn \cup {th[t].tr} ELSE torn
    /\ UNCHANGED <<kind, host, connLock, domain, open, dialled, ops, overlapped, lost>>

Bound(t) ==
    /\ At(t, "bound")
    /\ domain' = [domain EXCEPT ![th[t].tr] = th[t].conn]
    /\ connLock' = [connLock EXCEPT ![th[t].tr] = 0]
    /\ th' = [th EXCEPT ![t].at = "call", ![t].conn = 0]
    /\ torn' = IF \E u \in Threads: At(u, "drop domain") /\ th[u].tr = th[t].tr
               THEN torn \cup {th[t].tr} ELSE torn
    /\ UNCHANGED <<kind, host, conn, open, dialled, ops, overlapped, lost>>

Call(t) ==
    /\ At(t, "call")
    /\ LET d == domain[th[t].tr] IN
       \/ d = 0 /\ Refused(t, "asserted")     \* `assert self._domain is not None`.
       \/ d \in open /\ Answered(t)
       \/ d # 0 /\ Goes(t, "drop")
          /\ UNCHANGED <<lock, transport, built, commands, osInfo, helper, backends, backend,
                         provider, paths>>
    /\ UNCHANGED <<kind, wire, ops, history>>

(* `close` of the transport, which takes no lock of its own unless the     *)
(* transport is framed.                                                    *)
Drop(t) ==
    /\ At(t, "drop")
    /\ LET i == th[t].tr IN
       \/ /\ kind = "framed"
          /\ open' = open \ {conn[i]} /\ conn' = [conn EXCEPT ![i] = 0]
          /\ Goes(t, "dropped") /\ UNCHANGED torn
       \/ /\ kind = "libvirt"
          /\ conn' = [conn EXCEPT ![i] = 0] /\ UNCHANGED open
          /\ th' = [th EXCEPT ![t].at = "drop domain", ![t].conn = conn[i]]
          /\ torn' = IF connLock[i] = 0 THEN torn ELSE torn \cup {i}
    /\ UNCHANGED <<kind, host, connLock, domain, dialled, ops, overlapped, lost>>

DropDomain(t) ==
    /\ At(t, "drop domain")
    /\ LET i == th[t].tr IN
       /\ domain' = [domain EXCEPT ![i] = 0]
       /\ torn' = IF connLock[i] = 0 THEN torn ELSE torn \cup {i}
    /\ Goes(t, "hang up")
    /\ UNCHANGED <<kind, host, connLock, conn, open, dialled, ops, overlapped, lost>>

HangUp(t) ==
    /\ At(t, "hang up")
    /\ open' = open \ {th[t].conn}
    /\ th' = [th EXCEPT ![t].at = "dropped", ![t].conn = 0]
    /\ UNCHANGED <<kind, host, connLock, conn, domain, dialled, ops, history>>

(* The end of a request that failed, or of the host's close.               *)
Dropped(t) ==
    /\ At(t, "dropped")
    /\ IF th[t].op = "close"
       THEN Ends(t, "idle") /\ lock' = Unlocked(t) /\ UNCHANGED helper
       ELSE Fails(t, "idle")
    /\ UNCHANGED <<kind, transport, built, commands, osInfo, backends, backend, provider, paths,
                   wire, ops, history>>

-----------------------------------------------------------------------------
(* `run` and `path` read the capabilities once they are connected:         *)
(* `self._commands or frozenset()`.                                        *)
Capable(t) ==
    /\ At(t, "capable")
    /\ IF commands THEN Goes(t, IF th[t].op = "run" THEN "command" ELSE "backend")
       ELSE Ends(t, "refused")
    /\ UNCHANGED <<kind, host, wire, ops, history>>

(* `path` assembles the backend without the lock: its transport, the       *)
(* commands once more, and the helper.                                     *)
Backend(t) ==
    /\ At(t, "backend")
    /\ Goes(t, IF backend # 0 THEN "take" ELSE "transport")
    /\ UNCHANGED <<kind, host, wire, ops, history>>

Commands(t) ==
    /\ At(t, "commands")
    /\ th' = [th EXCEPT ![t].caps = commands, ![t].at = "helper"]
    /\ UNCHANGED <<kind, host, wire, ops, history>>

(* `_guest_path_helper` says that there is none while it probes for one.   *)
Helper(t) ==
    /\ At(t, "helper")
    /\ IF helper # "unprobed"
       THEN th' = [th EXCEPT ![t].helps = (helper = "some"), ![t].at = "store"] /\ UNCHANGED helper
       ELSE /\ helper' = "none"
            /\ th' = [th EXCEPT ![t].helps = FALSE, ![t].at = IF commands THEN "probing" ELSE "store"]
    /\ UNCHANGED <<kind, lock, transport, built, commands, osInfo, backends, backend, provider,
                   paths, wire, ops, history>>

Store(t) ==
    /\ At(t, "store")
    /\ backends' = Append(backends, [tr |-> th[t].of, helps |-> th[t].helps,
                                     caps |-> th[t].caps, closed |-> FALSE])
    /\ backend' = Len(backends')
    /\ lost' = IF backend = 0 THEN lost ELSE lost \cup {backend}
    /\ th' = [th EXCEPT ![t].at = "take", ![t].back = "none"]
    /\ UNCHANGED <<kind, lock, transport, built, commands, osInfo, helper, provider, paths,
                   wire, ops, overlapped, torn>>

(* The provider is made for the backend that was read before; what it      *)
(* makes has the backend that is there by then.                            *)
Take(t) ==
    /\ At(t, "take")
    /\ th' = [th EXCEPT ![t].be = backend, ![t].at = "provider"]
    /\ UNCHANGED <<kind, host, wire, ops, history>>

Provider(t) ==
    /\ At(t, "provider")
    /\ provider' = th[t].be
    /\ IF th[t].be = 0 THEN Ends(t, "refused") ELSE Goes(t, "probe")
    /\ UNCHANGED <<kind, lock, transport, built, commands, osInfo, helper, backends, backend,
                   paths, wire, ops, history>>

Probe(t) ==
    /\ At(t, "probe")
    /\ IF provider = 0 THEN Ends(t, "crashed")
       ELSE IF backends[provider].caps THEN Goes(t, "make") ELSE Ends(t, "refused")
    /\ UNCHANGED <<kind, host, wire, ops, history>>

Make(t) ==
    /\ At(t, "make")
    /\ IF provider = 0 \/ backend = 0 THEN Ends(t, "crashed") /\ UNCHANGED paths
       ELSE Ends(t, "idle") /\ paths' = paths \cup {backend}
    /\ UNCHANGED <<kind, lock, transport, built, commands, osInfo, helper, backends, backend,
                   provider, wire, ops, history>>

(* An operation of a path: `_require`, then the request.                   *)
Use(t) ==
    /\ At(t, "use")
    /\ IF backends[th[t].be].closed THEN Ends(t, "idle")
       ELSE Execute(t, backends[th[t].be].tr, "used")
    /\ UNCHANGED <<kind, host, wire, ops, history>>

InvalidateNone == backends      \* Mutant: a closed host's paths are left alone.
Invalidated == [b \in DOMAIN backends |-> [backends[b] EXCEPT !.closed = @ \/ b = backend]]

Close(t) ==
    /\ At(t, "close") /\ CanLock(t)
    /\ commands' = FALSE /\ osInfo' = FALSE /\ helper' = "unprobed"
    /\ backends' = Invalidated /\ backend' = 0 /\ provider' = 0
    /\ transport' = 0
    /\ IF transport = 0 THEN Ends(t, "idle") /\ UNCHANGED lock
       ELSE th' = [th EXCEPT ![t].tr = transport, ![t].at = "drop"] /\ lock' = t
    /\ overlapped' = IF transport # 0 /\ \E u \in Threads \ {t}: Busy(u)
                     THEN overlapped \cup {transport} ELSE overlapped
    /\ UNCHANGED <<kind, built, paths, wire, ops, lost, torn>>

Step(t) ==
    \/ Connect(t) \/ Obtain(t) \/ CannotBuild(t)
    \/ Framed(t) \/ LibvirtConnect(t) \/ Bind(t) \/ Bound(t) \/ Call(t)
    \/ Drop(t) \/ DropDomain(t) \/ HangUp(t) \/ Dropped(t)
    \/ Capable(t) \/ Backend(t) \/ Commands(t) \/ Helper(t) \/ Store(t)
    \/ Take(t) \/ Provider(t) \/ Probe(t) \/ Make(t) \/ Use(t) \/ Close(t)

Next == \E t \in Threads: Step(t) \/ \E op \in Calls: Begin(t, op)

(* A thread that can go on does, and a request ends by its deadline.       *)
Fairness == \A t \in Threads: WF_vars(Step(t))

Spec == Init /\ [][Next]_vars /\ Fairness

-----------------------------------------------------------------------------
(* Properties. *)

(* Every variable keeps its kind, and nobody holds the lock between calls. *)
TypeOK ==
    /\ kind \in Kinds /\ lock \in Threads \cup {0} /\ (lock # 0 => Busy(lock))
    /\ transport \in 0 .. built /\ built \in 0 .. MaxTransports
    /\ helper \in {"unprobed", "none", "some"}
    /\ {backend, provider} \subseteq 0 .. Len(backends) /\ paths \subseteq 1 .. Len(backends)
    /\ \A i \in AllTransports: /\ conn[i] \in 0 .. dialled /\ domain[i] \in 0 .. dialled
                               /\ connLock[i] \in Threads \cup {0}
    /\ open \subseteq 1 .. dialled
    /\ \A t \in Threads: th[t].tr \in 0 .. built /\ th[t].be \in 0 .. Len(backends)

Held(c) == \E t \in Threads: th[t].conn = c
Closing(i) == \E t \in Threads: th[t].op = "close" /\ th[t].tr = i

(* "A connection nobody owned and `close()` could not reach": an open      *)
(* connection is that of the host's transport, in the hands of a thread,   *)
(* or of a transport about to be closed.                                   *)
Owned(c) ==
    \/ Held(c)
    \/ \E i \in AllTransports: conn[i] = c /\ (i = transport \/ Closing(i))

(* A stray connection needs calls that overlap: the close of its transport *)
(* met a call that had fetched it before; or its backend was one of two    *)
(* that were built at once, of which `close` invalidates one; or a libvirt *)
(* transport was closed, without its lock, in the middle of a connect.     *)
Excused(c) ==
    \/ \E i \in AllTransports: /\ conn[i] = c
                               /\ i \in overlapped \/ \E b \in lost: backends[b].tr = i
    \/ torn # {}

StrayByOverlap == TypeOK /\ \A c \in open: Owned(c) \/ Excused(c)

(* Whoever finds the host discovered finds all of it: `_commands` is       *)
(* committed after the last optional probe, so that a probe that failed    *)
(* is repeated, and `_windows` never takes the facts that are missing for  *)
(* those of another guest.                                                 *)
DiscoveredWhole == commands => osInfo

(* A call is refused for what the guest lacks, or crashes, only when the   *)
(* host was closed while it was under way, or was used after it.           *)
RefusedForCause ==
    \A t \in Threads: th[t].at \in {"refused", "crashed"} =>
        overlapped # {} \/ torn # {}

(* What a call finds of the host is whole, and what it is told of it is so.*)
FindsWhole == DiscoveredWhole /\ RefusedForCause

(* A call ends: no two of them wait for each other, and none waits for a   *)
(* lock that it holds.                                                     *)
CallsEnd == \A t \in Threads: Busy(t) ~> ~Busy(t)
=============================================================================
