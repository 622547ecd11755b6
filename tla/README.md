# A verification project for hostctl

hostctl runs commands and handles files on remote hosts. A *host* has several
*providers* of executors and of paths (SSH, WinRM, a container, a guest agent, a
serial line), tries them in order of rank, and falls back from one that provably
did not start an operation to the next. These modules model the parts of hostctl
in which several threads, failures and retries meet. Paths below are relative to
`src/src/hostctl/`.

- [The system](#the-system): its components, their state and what can go wrong
- [The modules](#the-modules): how they correspond to the code
- [The runs](#the-runs): what each shows, within which bounds
- [The proofs](#the-proofs): what holds for all values of the constants, and why
- [Where code and words differ](#where-code-and-words-differ)
- [What is not modelled](#what-is-not-modelled)
- [The plan](#the-plan)

## The system

| component | state it keeps | operations | what makes it hard | what makes it correct | modules |
|---|---|---|---|---|---|
| provider selector (`provider/_selector.py`) | declines, probe cache, generation; a trace per thread | `select`, `probe`, `decline`, `retry_declined`, `invalidate` | the dictionaries are locked, `select` as a whole is not; probes call out of the lock | a refusal of one operation never fails a later one undialled; an operation is offered to a provider once; the trace tells the truth | `ProviderSelector`, `Failover` |
| system host (`system/_host.py`) | connected providers, closed transports, the initializer's generation, a lifecycle lock | `connect`, `close`, `run`, `path`, `replace_providers` | `run` dispatches outside the lock; transports reconnect by themselves; the initializer calls the host back | close closes everything; the initializer runs once per generation and before any command | `SystemHost` |
| composite paths (`paths/_mixin.py`) | the provider a path is pinned to, its backend path | every path operation, through `_dispatch` | pin, attempt, roll back; one selector shared with all other paths | a mutation is never repeated on another provider; a pinned path stays where its file is | `CompositePath` |
| staged I/O (`paths/_staged_io.py`) and the backends that move whole files (`winrm/_path.py`, `container/_path.py`, `qemu/_backend.py`) | the buffered content; a temporary; open handles | `staged_open`, `write_bytes`, `read_bytes` | several steps at another machine, any of which fails or is done late; other writers | content is written whole or not at all, nothing is left behind, what others put there is spared | `RemoteFiles`, `CompositePath` |
| links (`winrm/_path.py`, `container/_path.py`) | none | `stat`, `read`, `resolve`, ... | each backend follows chains itself | all operations follow the same chain to the same end | `Links` |
| executor base (`executor.py`) | targets, sinks and captures of a call; the holder of a `StreamLease` | `__call__`, `_dispatch_request`, `write_output`, `acquire`, `release`, `revoke` | declines, timeouts and failures before and after the command is sent; characters cut between pieces | nothing sent is declined; all output arrives where it was asked for | `ExecutorCall`, `ConsoleExecutor` |
| process handles (`process.py`) | closed, claimed, lease token | `read`, `write`, `wait`, `close` | close by its user and close at the end of the stream | the lease is released once | `SerialConsole`, `QEMUConsole` |
| console executor (`console/_executor.py`, `_posix.py`) | the terminal lock, the running command | `_send`, `_receive`, `_stop` | one terminal for all threads; ^C hits whatever runs | the terminal is let go; ^C interrupts its own command | `ConsoleExecutor` |
| console frame and typing (`console/_posix.py`) | the parser's buffer and positions; the batch typed | `feed`; `_typed_batches`, `prepare` | markers cut anywhere by reads; terminals that drop input or block | output is exact, prompt, complete; what is typed arrives whole | `ConsoleFrame`, `TypedCommand` |
| console profiles (`console/_profiles.py`) | the buffer a prompt is searched in | `run`, `drain`, `prepare` | echo, pages and prompts look like output | a run's reply is its own | `PromptConsole` |
| serial host (`transports/serial`) | the port, its lease, the port the login was made on | `connect`, `run`, `spawn`, `read`, `write`, `close` of host and of executor | close takes no lock; a fresh port knows no login; two handles on one port | one process at a time; nothing typed before the login; no port forgotten; limits and writes of two calls apart | `SerialConsole`, `SerialIO` |
| guest agent (`transports/qemu/_qga*.py`, `_executor.py`) | session, request ids, buffer; a command's pid | `connect`, `execute`, `run`, file handles, `close` | what earlier clients left in the stream; replies late or without an id | a reply answers the request it is returned for | `GuestAgent` |
| QEMU host (`transports/qemu/_host.py`) | transport, discovered commands, backend, helper | `connect`, `commands`, `path`, `close` | lazy state under one lock, which its parts take again | found whole; no connection out of reach | `GuestHost` |
| QEMU console (`transports/qemu/_console.py`) | stream, lease | `open`, `read`, `wait`, `close` | end of stream against close | as process handles | `QEMUConsole` |
| SSH (`transports/ssh`) | a cached connection, the SFTP backend, login directory and path style bound to it; a handle's buffers | `connect`, `run`, requests, `close`; `read`, `wait` | the server drops it; `fork`; threads | nothing of a dead or foreign connection is used; nothing read is lost | `SSHTransport`, `SSHProcess` |
| container (`transports/container`) | exec socket, demultiplexed buffers; client, container, backend | `read`, `write`, `wait`, `close`; `path`, `spawn` | reads block with the lock held; the host has no lock; docker-py reopens clients | streams are not mixed; close ends a wait; no client is left open | `ContainerProcess`, `ContainerHost` |
| WinRM (`transports/winrm`) | the leg in use, a session, a runspace pool | `run`, `connect`, `close` | three legs with different failures; a runspace that outlives a run | the status is the run's; pools and shells are closed | `WinRMTransport` |
| local (`transports/local/_executor.py`) | the tree of processes of a call | `__call__` | processes that fork or leave the group while being killed | nothing reachable survives; a timed call ends | `LocalCall` |
| deploy (`deploy`) | what is at the path on the target, its marker, `.new`, `.old` | `deploy`, `requirements`, `missing_on` | interruption between any two remote steps | a good program is always there; what is reported is so; what is needed is shipped | `Deploy`, `Closure` |
| command line (`cli/_fanout.py`, `_common.py`, `_status.py`) | the one password, the exit code | `run` on several hosts | hosts end in any order and fail with statuses of their own, one prompts, an interrupt comes | records whole, one prompt, the worst status | `FanOut` |
| shell flavours, URIs, configuration, resolvers, sync | none that changes | pure | quoting, parsing | the string rendered is the one meant | - |

How they interact. `SystemHost.run` asks the executor selector for a provider,
makes it ready under the lifecycle lock (connects it, runs the initializer) and
dispatches to it outside the lock; a refusal (`OperationNotStartedError`) is
recorded in the selector and the loop goes on. A `CompositePath` does the same
with the path selector, without telling the host of connections it opens. A
provider's executor is often a `StreamingExecutor`; the console executor types
its commands into a stream which a serial session, a QEMU console or a container
provides, and cuts the output out of that stream with a frame. A serial port and
a QEMU console give their one stream out under a `StreamLease`. All of this is
called by the user's threads directly: there is no scheduler and no queue, and only
deploy leaves something behind that a later call reads, so the behaviours to check are
interleavings, failures at every call out, and closes at any moment.

## The modules

Actions are named after what the code does at that point; `PROJECT.json` maps
each to its lines. In all of them an operation of a thread is split exactly where
the code holds no lock between two accesses to shared state (or calls a provider,
a port or a stream, which takes time), and is one step otherwise. Everything a
provider, port or stream answers is chosen freely, errors included. Variables
under the heading *history* are read by no guard; they let a property speak of
what happened earlier. Operators marked *Mutant* stand for a plausible mistake in the
definition below them and are used by nothing.

### Hosts and providers

**`Failover`** is the abstract specification of failing over, in four actions:
an operation begins, is offered to a provider that has not refused it, is refused,
ends. It says nothing of declines, probes or order. `ProviderSelector` and `CompositePath` implement it.

**`ProviderSelector`** is `ProviderSelector` together with the loop of
`SystemHost.run`. A provider is its rank. `select` is a loop over `cursor`
(`PassDeclined`, `PassExcluded`, `ProbeCached`, `ProbeStart`, `ProbeReturn`) whose
end (`Readmit`, `NoneAvailable`) is `_readmit_earlier_declines` and the call of
itself that follows. `ProbeStart` and `ProbeReturn` are apart because the
provider is asked outside the lock. `Refuse` is `decline` and `FailOver` the
exclusion of the loop; `Serve` ends the operation. `Invalidate`, `InitializerFails`
and `RetryDeclined` are what other threads may do in between. A decline and its
cause are one fact here, `declined`.

**`SystemHost`** has the host's lists and flags as its state, and `open`, the
transports that really have a connection. `lock` is the lifecycle lock: `connect`
holds it over its calls of providers (`Connects`, `ConnectRefused`,
`ConnectFails`), `close` over those of transports (`CloseTarget`, which marks a transport closed also when its
`close` raised and it stayed open), and the initializer's own commands are steps of the thread that holds it. `Ready` is
`_ensure_provider_connected`; `Dispatch` happens outside the lock and reopens the
transport if it must. `PathUse` is any operation of a path, at any later time.

**`LocalCall`** is one call of `LocalExecutor`: processes fork (`Fork`), leave the
group, let go of the pipe and exit while the caller waits, the deadline passes or an interrupt comes, the
tree is killed (`Reached` is what a kill finds: the group, or on Windows the tree below the child)
and the output drained under a bound (`DrainExpires`).

### Consoles

**`SerialConsole`** is `SerialHost`, `SerialExecutor`, `SerialProcess` and
`StreamLease`. Ports are numbered as they are opened, and
`injected` says that port 1 was given by the caller and is not the executor's to close. A
process is named by its lease token, `<<thread, "call">>` or
`<<thread, "session">>`. `SerialExecutor.connect` runs under its own lock, which
`close` does not take: it sees the port open (`SeesPort`) and reads it again
(`HostTakes`, `AttachTaken`), or opens a fresh one (`Connect`). A close reads the port,
revokes the lease, drops the port and closes it, in four steps (`ReadPort`, `Revoke`,
`DropPort`, `ShutPort`); when the port's own `close` raises (`ShutFails`) the port may stay open, which nobody has any more.
A `spawn` whose process cannot be made once the port is leased (`Unmade`) leaves the lease held.

**`SerialIO`** is what that leaves out: the reads and writes of two handles that are given
out one after the other on an injected port, under one `_io_lock`, with a limit saved, set and
restored around each call of the port (`_bounded`), writes in pieces, and reads that ask first how much there is.

**`QEMUConsole`** is the console of a guest for the three ways it may have its stream (a
factory, one it owns, one it borrows). A process is closed by its user or by the end of the
stream; `Claims` is the claim both compete for, `Release` the lease's. A process that cannot be made (`unmade`) leaves its
stream open and its lease held.

**`ConsoleExecutor`** is `ConsoleExecutor` under `StreamingExecutor`'s loop.
`alive` holds the commands that run in the console, `verdict` what a call is going to
raise once it has interrupted its command and released the terminal, `drops`
whether a subclass's `_abandon` ends the whole session. `settled` collects the
commands of which a call has said that they are over.

**`ConsoleFrame`** is `_Frame.feed` as an operator on a record, `Fed`, applied to
pieces of any size of the stream the console sends. The parts of the stream are
drawn from small sets; `Unambiguous` is the code's reliance on random tokens.

**`TypedCommand`** types a script in batches (`Groups` is `_typed_batches`), each read by
the shell and acknowledged before the next, into a terminal that echoes, stops taking input while its echo is not
read, and either drops what overruns its queue or makes the writer wait.

**`PromptConsole`** is a device that echoes, pages and prompts, and the profile that runs a
command there: it drains what is late, types, reads until marker and prompt (`Window` is where a reply may begin), answers
pages and reads the status. Its devices may print what looks like a marker, a prompt or a page.

**`ExecutorCall`** is one call of a `BufferedExecutor` or `StreamingExecutor`: what is refused before the
caller's input is read, which target each stream resolves to, where a piece goes (`WriteOutput`), what is captured,
decoded and flushed. A byte stands for a whole character, half of one, or none.

### Files

**`CompositePath`** is `_CompositePathMixin`: the provider, cached backend path and pin of
each path (`routing`), and `_dispatch` as a loop over candidates (`Pinned`, `Offer`,
`Readmit`, `Exhausted`) around `Connect` and a callback. The callback is one call of the
backend (`Call`) or, for a copy or move no backend can do itself, a sequence of
dispatches of both paths (`CallGeneric`, `Push`, `Resume`), so that `stack` is the dispatches under
way. `Caught` is the code's two `except` clauses: undo the pin, decline the provider,
go on; or give the error to the caller. A stream opened for writing is uploaded by the backend that
opened it when it is closed (`CloseStream`). There is one caller, because a path is not
made to be shared between threads; what threads do to each other in the selector is
`ProviderSelector`'s.

**`RemoteFiles`** writes and reads one path by each of the backends that move whole files: WinRM's staged
writes by scripts, the archive API of a container, the guest agent's handles and its helper. Every step may fail without effect, with it, or
have it later (`late`); another program changes the path in between. A `guest-file-open` that was done but not answered
leaves a handle that nobody knows (`orphaned`).

**`Links`** follows a chain of links by every operation of the WinRM and container backends, link by link.

### Transports

**`GuestAgent`** is the framed session on two FIFO streams that may hold what earlier clients left (`Leftovers`):
synchronisation by delimiter, correlation, the errors without an id, timeouts and reconnects, an agent that restarts, and above it
`guest-exec` with its polling and a file written or read by handle in parts. **`GuestHost`** is the host that builds its transport,
discovers commands, commits them, and makes backend and helper, shared by two threads and closed at any time.

**`SSHTransport`** has the connection and what is cached with it twice, for the process and for a child forked from it
(thread 3). **`SSHProcess`** is a handle whose waits empty the channel into their result or into the timeout they raise.

**`ContainerProcess`** is an exec's socket with frames cut anywhere, the buffers and decoders of both streams, the drain
that must not block, and its handles. **`ContainerHost`** is client, container, attributes and path backend, none of them locked.

**`WinRMTransport`** is the transport with one of three legs: the relay of a local PowerShell, pywinrm's shells and PSRP's runspace pool, each with its lazy
session, its way of bounding a run and of telling the status. `run` captures the status of its script, `invoke` only when it is told to
(`capture`): otherwise the runspace is not reset, no marker is printed, and the status is whether the pipeline completed. A shell
may be opened and the answer lost (`Shell`).

### Deploy and command line

**`Deploy`** has the entries at and beside the path, and one action per remote step of `install_pyz` and
`install_tree`; each may fail before, after or half way through its effect, and `Interrupt` ends the deploy between
two. Others may put a file or a directory at the target, or remove what is there (`Outside`), the file also where a zipapp was whose marker stays. **`Closure`** is the work list of `requirements` and `missing_on`. **`FanOut`** is one command on several hosts with a bounded pool of threads, the one
password prompt, the printing lock and the exit code. A host fails, or its close does, with any status that `ERRORS` or its default gives (`Failures`).
A `KeyboardInterrupt` is no host's failure: one host's thread ends by it with nothing reported (`Interrupted`), or the thread that waits for all is
the one interrupted (`Cancelled`); once the pool knows, no host is begun any more, those at work go on, and the command exits with 130.

### Together

`Hosts` (`SystemHost`, `LocalCall`, `GuestHost`, `GuestAgent`), `Consoles` (`SerialConsole`, `QEMUConsole`, `SerialIO`), `Files` (`CompositePath`,
`RemoteFiles`, `Links`), `SSHSessions` (`SSHTransport`, `SSHProcess`) and `Commands` (`Deploy`, `Closure`, `FanOut`) put the modules side by side
whose components belong together but share no state: a behaviour of `Run` is one of either, and the variable `part` says which (what is not its part stays fixed, so that
nothing is multiplied). They hold the assumptions on the constants, and both the runs and the theorems are about them. Modules `MC...` give the constants values: `MCHosts` for the runs `host` and `guest`,
`MCSerialConsole` on `Consoles`, `MCFiles` on `Files`, `MCDeploy` on `Commands`, `MCConsole` and `MCContainerProcess` on the modules of
`console` and `container`; the runs `ssh`, `winrm` and `deploy_stale` need no module of their own.
`MCFiles` and `MCDeploy` begin with the parts that are idle in one state only, and `MCDeploy` with hosts that are alike but for how many of them call for the password.
`...Proofs` hold theorems and proofs.

## The runs

Deadlock checking is off in all of them since every model stops when the threads
have made their calls. Symmetry is not used: the threads have different roles, or
the run checks liveness.

| run | bounds | states | what it shows |
|---|---|---|---|
| `selector` | 2 threads, 2 providers of which one can spawn, 2 + 1 operations, 1 new generation | 326,000 | An operation fails only if each provider refused it or was found unusable, unless another thread dropped declines meanwhile (`HonestRefusal`); the trace it raises with, and the fallback it reports, name who refused (`HonestReport`); the loop implements `Failover` (`OfferedOnce`); operations end (`OperationEnds`). |
| `host` | 2 threads, 3 + 1 operations, transport `A` shared by an executor and a path provider, `C` of an executor that is replaced; a local call's tree of 3 processes on POSIX, with a terminal, and on Windows | 410,000 | No provider is connected twice over, and what a close skips or leaves was reopened behind it, connected for a replaced provider, or raised when it was closed (`TransportsAccounted`); the initializer's place (`InitializedFirst`); a local kill leaves nothing that could be reached, spares the caller and loses no output of a call that ended (`LocalSound`); operations and timed local calls end (`HostEnds`). |
| `serial` | 2 threads, 3 + 2 operations, 3 ports; 5 calls on a QEMU console; 2 handles, 3 calls and 2 bytes on one port | 2,560,000 | The lease (`LeaseSound`), the login (`LoginSound`), the ports (`PortsReachable`), with a process that cannot be made and a close that raises among the steps; a QEMU console's stream given back once and used by its holder (`ConsoleSound`), and limits and writes of overlapping calls (`IOSound`). |
| `serial_race` | as above | | Without the exception for a port replaced in between, `LoginSound` fails. |
| `console` | 2 threads, 2 calls each; markers of 3 bytes that begin alike, reads of 1 to 3 bytes, `_KEEP` 3; scripts of up to 5 lines, batches of 1, 2 and all; replies with pages and look-alikes; every kind of target and capture | 800,000 | The terminal is let go, ^C interrupts its own command, and no call says a command is over that is not (`ExecutorSafe`); output exact, prompt, complete, bounded (`OwnOutput`); what is typed arrives whole and what is declined did not run (`TypedWhole`); output is where it was asked for (`Delivered`); timed calls and typing end (`ConsoleEnds`). |
| `files` | 2 paths over 2 providers, 3 operations or derivations; 2 writers of 2 pieces, 2 changes by others; chains of up to 10 links | 2,000,000 | One provider carries what is written through a path, nothing started is offered again, only who refused is declined (`RoutingSound`), `_dispatch` implements `Failover` (`OfferedOnce`); files are written whole or not at all, reported truly, and temporaries removed and handles closed, but for those nobody was told of (`WrittenWhole`), directories, other's files and owners spared (`Spares`); all operations agree on where a link leads (`SameEnd`). |
| `guest` | 2 threads, 4 calls (3 for libvirt), 2 transports, 3 connections; a session with 7 request ids and 2 calls on 4 leftovers | 587,000 | The host is found whole and refuses for a cause (`FindsWhole`); a connection out of reach comes of overlapping calls only (`StrayByOverlap`); a session's answers are its own, and what is said of commands and files is so (`AgentSound`); calls end (`CallsEnd`). |
| `container` | 2 threads, 3 calls on outputs with characters cut by frames; 3 calls on the host | 706,000 | What is read is what was written, to its end (`ReadsWhole`); handles, clients and backends are let go (`NothingLeft`); calls end once the process has (`CallsEnd`). |
| `ssh` | 2 threads and a forked child, 3 calls, 2 connections; 3 pieces of output, 4 calls | 383,000 | One connection per process, its own, closed by close, its backend current, and what was stopped is over (`ConnectionSound`); output is kept across waits (`OutputKept`); calls end (`CallsEnd`). |
| `winrm` | 2 threads, 3 calls, 2 pieces of input, each leg with the scripts that may confuse it | 519,000 | Statuses are the run's own, of an invoke that captures none only whether its pipeline completed, and what may go on is said to (`HonestRuns`); pools are reachable (`PoolsOwned`); calls with a deadline end (`CallsEnd`). |
| `deploy` | 3 deploys of 2 programs in both modes, 1 change by others; every graph of 3 distributions; 3 hosts, 2 at a time, failing with 1 or 126, 1 call for the password each, 1 interrupted in its work | 3,020,000 | What can be run is whole (`HeldGood`); a deploy's answer is so, with its exceptions, and what others put there is spared, but for a file beside the marker that a zipapp left (`Answers`); needed and missing distributions are shipped (`ShipsNeeded`); records, prompt and status of a fan-out, interrupted or not (`FannedOut`). |
| `deploy_stale` | 3 zipapp deploys, nobody else | | Without its exceptions, the documented half of `Answers` fails. |

Why the bounds are enough to be interesting. Two providers give a preferred one and
a fallback; the second operation of the first thread meets the declines of its
first; one generation suffices for a probe to cross its end. On the host, three
operations of one thread are connect, use and close, or close, use of an old path
and close, against one operation of another; three processes are a child, one that outlives it and one forked during the kill. On the serial line, three operations
allow a login, a close and a use of the fresh port; three ports are one more than
a connect and a reconnect need. In the frame, all hazards are within a marker's length of a border between two parts, and every
border is cut at every byte; output of 8 bytes is more than `_KEEP` and a read, so
that the buffer is trimmed. Of two paths pinned apart, each is as foreign to the other as one of another host;
three operations are open, write and close around a derivation, or two writes after a
refusal, and a transfer counts as one with all the dispatches inside it. Two pieces are the least that can be mixed, and two outside changes make a file appear and go between
the steps of a write. Chains of up to ten links are everything from none to two more than are followed.
A session that synchronises twice with a command between uses 7 ids; its leftovers hold the same number as a fresh
client's would, which a client that restarts does send. On SSH three calls open a connection, lose it, and meet what that left. Three deploys are one that succeeds, one that is interrupted, and
one that meets it. Of three hosts, two at a time, one waits while another fails or is interrupted.

Fairness. `WF` on the steps of a thread inside an operation, where liveness is checked:
threads are scheduled by the operating system, and the calls out return.
That is an assumption on probes, `connect`, `close` and stream writes, which the
transports bound with timeouts of their own. Nothing is assumed of threads that have
not begun an operation, of commands in a console, a guest or a shell (they may run for ever), of which
failures happen, or of data arriving. Weak fairness is enough for the locks, because each
thread makes finitely many calls: it cannot be overtaken for ever. `ConsoleEnds` further assumes the terminal to echo and the shell to read its
lines (`WF` on both), since the typing waits for them; `HostEnds` assumes nothing of the processes of a local call.

Each property has a *mutant*: a variant of one definition, written beside it and
marked as such, that stands for a plausible mistake (a guard dropped, a field not
reset). `PROJECT.json` pairs one with each; with the mutant in place of the definition the
run must fail with that property. The other mutants in the modules were found to break the property of the same module's run too.

## The proofs

TLAPS checks the following for any number of threads, providers, transports, ports, connections, streams, paths, calls, digests, hosts, distributions, links and
deploys (the threads of `SSHTransport` are three, those of `WinRMTransport` two). The assumptions are the named ones on the constants
(`SelectorAssumption`, `HostAssumption`, `ConsoleAssumption`, `ExecutorAssumption`, `SSHAssumption`, `PathAssumption`, `WinRMAssumption`, `DeployAssumption`, `HostsAssumption`, `ConsolesAssumption`,
`SessionsAssumption`, `FilesAssumption`, `CommandsAssumption`),
which type them and tell null values from others, and one hypothesis of `ExecutorIsSafe`, named below. Where components are put together the theorem is of
`Run`, the composition's specification, and not only of the starts an `MC` module picks.

**`ProviderSelectorProofs`.** `TypeCorrect`, `RefusalIsHonest`
(`Spec => []HonestRefusal`), `ReportIsHonest` (`Spec => []HonestReport`), `FailoverImplemented` (`Spec => F!Spec`, the run's
`OfferedOnce`). The invariant is
`IInv == TypeOK /\ \A t: Local(t) /\ Passed(t)`. `HonestRefusal` speaks of a scan
that is at its end; to be inductive it must say at any point of the scan what holds
of the providers already passed. `Passed(t)` does: each provider before the cursor
is one this operation has excluded, one its probe found unusable, or one declined
now, unless declines were dropped meanwhile. At the end no decline is
one of an earlier operation (else `Readmit` would take it), which gives the
theorem. `Local(t)` adds what a thread's own variables say: a thread that has
chosen has a provider under its cursor, and what it has tried is what it has
excluded. The refinement then follows step by step, with lemmas for the
four kinds of abstract step (`IsStutter`, `IsOffer`, `IsRefuse`, `IsEnd`). `ReportIsHonest` adds what the trace says of
the providers passed so far, and that what was tried is declined until declines are dropped.

**`SystemHostProofs`.** `TransportsAreAccounted` (`Spec => []TransportsAccounted`) and `InitializerFirst`
(`Spec => []InitializedFirst`). `HostInv` begins with who holds the lifecycle lock (`Locked`), and with what only its holder
has (`Held`, `Placed`): providers a `connect` has connected but not yet listed, transports a close has yet to mark. On these rest

- `ConnectedOnce`, which is so because the list and what the lock's holder is about to append to it are disjoint;
- `Skipped`, `TransportsAccounted`'s first half for the transports about to be marked too;
- `OpenBased`, `ListBased`, `UseBased`: each transport that is open, listed or about to be used belongs to a provider the host has, to a
  closed one or to a stray; hence a close, which goes through all of these (`Closes`), forgets none but those whose own `close` raised (`unclosed`);
- `Once`: the initializer's count is that of the generation's flag, and a thread inside it finds the flag down.

A provider that is given both as an executor and as a path provider may be listed twice by `connect`, which appends without
looking: the lists are counted, and `ConnectedOnce` speaks of the others (`BothKinds`).

The same module has `StrayOnlyByOverlap` (`Run => []StrayByOverlap`) and `GuestFoundWhole` (`Run => []FindsWhole`), of the
host of a QEMU guest (`GuestHost`, in `Hosts` called `G`), for any number of callers, calls, transports and connections and for either kind of
transport. `GuestInv` has two halves. `HostOwn` is of what the callers
share, and a step that leaves the wire alone keeps the other half by one lemma (`HostSettles`):

- `Stands`, `LockOwn`: what a call may take for granted at each place, and that the host's lock is held only to discover and to close.
- `Uses`, `BackendsOwn`: the transport a call has fetched is the host's, or one whose close met the call (`overlapped`), or that of a backend whose place
  another took (`lost`). A call without a transport is why the two cases are told apart: nothing was closed under it.
- `Found`: until a close meets a call, a call past the discovery finds the commands, and one past the assembly a backend and a provider. Every
  exit with "refused" or a crash contradicts one of its parts, which is `FindsWhole`.

`WireOwn` is of the connections. `JoinOwn` and `Joins`: who holds a libvirt transport's lock is binding the connection it dialled, over a transport that has
none. `Wired`: a transport has a connection only with its domain or on the way to it, so that a dial never covers one up. `Shuts`: a transport that is being
closed is not the host's, and what is dialled on it after its drop was dialled by a call that the close met. With these `OpenOwn`, that each open connection has an owner or an
excuse, is inductive; a close that met a connect in its middle (`torn`) excuses the rest. TLC checked both halves for two and three callers first.

And it has `LocalIsSound` (`Run => []LocalSound`), of a call on this machine with a tree of any size. `CallInv` says that the tree grows from the child, who leads its
group when it was made to (`TreeGrown`), that once the tree was killed whoever lives had escaped (`TreeKilled`), and that a drain which ended by itself
leaves nobody who could still print (`CallEnded`).

**`ConsoleExecutorProofs`.** `ExecutorIsSafe` (`Spec => []ExecutorSafe`), when `WriteErrors` has no decline: no stream of the repository
raises `OperationNotStartedError` from a write once it is open. (With a decline the property is false, see *Console* below.) `ExecutorInv`
is that the terminal's holder is the thread at a place that holds it (`Held`), what a call on its way out will say (`Judged`), that commands are of
calls that were made and not said to be over before their call ends (`Numbered`, `Unsaid`), that a call runs no command before it has
typed it or after it has its status (`Untyped`), and that a dropped session runs nothing until the terminal is let go (`Dropped`).

**`SSHTransportProofs`.** `ConnectionIsSound` (`Spec => []ConnectionSound`), for any number of calls, connections and losses, whatever each thread calls, and a fork
at any point between two calls of its thread. `TransportInv` has these parts beside the types:

- `Doing` and `Locked`: which places follow which, and that a thread at work with the connection holds its process's lock. Two threads
  of a process are therefore never at work at once (`Alone`), on which the next parts rest.
- `Own`, `OnOwn`, `Cached`, `Unopened`: whatever a thread works over, or a process that has looked for a fork has cached, it opened itself, and a process
  that has not looked has opened nothing. This gives `OwnOnly`.
- `OneOpen`, `Steady`, `Kept`: the open connection is the cached one, there is none at a dial, and what a close or a request has read
  under the lock is still so until it gives the lock back.
- `Channels`: an open channel, or one that a request may yet open without the lock, is that of the cached backend, except between
  the two halves of a close. A request that is late thus cannot open
  a channel that a later close does not find.
- `Numbered`, `Over`: commands have numbers of their own, so that none is started again after it was stopped.

One lemma per action (`AccessDoes`, ...) says what it does to the thread and to the lock, one per part of the invariant (`OwnKeeps`, ...) what suffices to keep it, and
the steps combine the two. Each invariant above was checked by TLC on the run first.

`OutputIsKept` (`Run => []OutputKept`) is of the handle of a process: until threads overlap on it (`mixed`), one of them takes at a time (`OneTakes`), it carries what it says
(`Carries`), what was read, is held, is carried and is still in the channel are in this order what was written (`InOrder`), and an end that was told leaves nothing (`EndTold`).

**`CompositePathProofs`.** `RoutingIsSound` (`Spec => []RoutingSound`) and `DispatchImplemented` (`Spec => F!Spec`, the run's
`OfferedOnce`), for any paths, hosts, providers and what these declare. `RoutingInv` relates the stack of dispatches to the routing of their paths:

- `Tied`: whatever was written through a path, or will be when a stream is closed, is of the provider the path is pinned to, and a cached
  backend path is of the path's provider. This gives `OneWriter`.
- `Stacked`: each dispatch is consistent by itself (`Plain`: a provider is tried only once it is excluded, only a transfer is touched
  before it ends) and with its path (`Holds`: the path is on the provider that carries the dispatch, or still as it will be restored).
- `Ordered`: through a path that was not pinned when a dispatch of it began, nothing is written until that dispatch calls its backend; what a transfer made is
  the step its list says (`Makes`); and between two steps of a transfer, a refusal means that nothing was written through its path yet
  (`Spent`): what mutates the source of a transfer is a rename, which refuses before it mutates, or the last step, after which nothing is
  tried. Without this a failed copy would take back the pin of a path that was written.

The lemmas say what happens to the innermost dispatch: it goes on (`TopChanges`), is taken back (`RetryKeeps`), ends (`TopEnds`) or makes another
(`TopMakes`). For the refinement the outermost dispatch is Failover's operation, and every step of an inner one a stutter (`KeepsProvider`).

`WrittenIsWhole` (`Run => []WrittenWhole`) and `OthersSpared` (`Run => Spares`) are of `RemoteFiles`, for any number of callers and pieces, and rest on one invariant, `FilesInv`. For
each call it says where it can be (`Sits`), what it gave up and may be done yet (`Gives`), that its temporary is its own and holds what it has sent (`Stages`), that a handle is open for
a call at work on it, was not closed because its close failed, or was never told (`Held`), and, unless another overtook it, what it may rely on at the path (`Finds`).
`EndIsSame` (`Run => []SameEnd`) is of `Links`, for chains, hop limits and forms of any size: the place is on the chain, as far along it as the hops spent say (`Chained`).

**`WinRMTransportProofs`.** `RunsAreHonest` (`Spec => []HonestRuns`) and `PoolsAreOwned` (`Spec => []PoolsOwned`), for any legs, scripts and number of
calls. `WinRMInv` has, beside the types and which leg each place is of:

- `Counted` and `Calling`: a call builds at most one session, and a busy thread has a call of its own that has not ended, so that no
  command or shell is that of two runs.
- `Ran` and `OneRuns`: a pool's runspace runs one pipeline, which found `$LASTEXITCODE` cleared when it captures; a command that is over has printed
  its own status, or the marker of no call, and without capture it is judged by whether its pipeline completed. With these `StatusIs`: what a call reads of a finished command is that command's status.
- `Sent`, `Answers`: a call has no command before it submits one, and one that has its answer has none at work.
- `Shelled`: a shell is of a call at work on it, unless deleting it failed or nobody was told that it was opened.
- `Opening`: a thread that opens a pool holds its session's lock, which is why no two open one session.
- `Owned`: a session that a thread works with is the leg's or a stray, since a close makes a stray of one in use. Whatever pool that thread
  opens therefore has an owner.

`CommandStep` covers every step of a run at the server at once, `SessionStep` what the steps on sessions and pools do not touch.

**`SerialConsoleProofs`.** `TypeCorrect`, `LeaseIsSound` (`LeaseSound`, of `OneHolder` and
`HolderAccountedFor`), `NoPortForgotten` (`PortsReachable`), `LoginIsSound` (`LoginSound`, of
`LoginKnown` and `TypedLoggedIn`). The invariant is built in layers, each
using those below it:

1. `IndPlaces == TypeOK /\ Places`: which operation and stage a thread may be in at
   each place, so that the steps of an operation come in their order.
2. `Leases == LeaseExclusive /\ LeaseLive /\ LeaseAccounted`: a process that has not
   ended holds the lease, the holder has not ended, and it is accounted
   for, also as that of a `spawn` which could not make its process (`abandoned`). None of the three is inductive alone.
3. `PortsReachable`, on its own above layer 1; ports whose own `close` raised (`unclosed`) are its exception.
4. `Logins == Numbered /\ LoginRemembered /\ \A t: LoginState(t)`: no variable names
   a port that has not been opened, so that a fresh port is one no login is
   remembered of; and what each thread knows of the login on its port at each
   place, which is what carries a login from `connect` to the command typed.

The module also has `ConsoleIsSound` (`Run => []ConsoleSound`), of a QEMU guest's console and any number of threads and calls on it
(`QEMUConsole`), and `CallsAreApart` (`Run => []IOSound`), of any number of calls on one port (`SerialIO`). `ConsoleInv` says
what each place takes for granted (`Placing`), that one call opens and one tears down (`OneTears`), who the lease belongs to
(`LeaseHeld`), that each stream the console owns is of one process (`OneEach`), and that it was let go of exactly when that process is torn down (`Letting`,
`EndsLast`): of these `LetGoOnce`, `NeverLost` and `HonestEnd` follow, while `NeverShared` is kept by them. `IOInv` says that the lock's holder is the call within it (`LockOwn`), that
the port's limits are the holder's or the configured ones and what the holder will restore are the latter (`SetOwn`, `OldOwn`), that only the holder
has written in part (`PiecesWithin`), and that, until reads race (`OneTakes`), what was counted stays there (`CountKept`).

**`DeployProofs`.** `TargetIsHeld` (`Spec => []HeldGood`) and `DeployAnswers` (`Spec => Answers`), however many
deploys there are and wherever each is interrupted. The properties speak of the target; to be inductive they need what is
beside it, and what each step has yet to do:

- `Typed`: every entry is nothing, another's directory or file, a deploy's file or a tree, and a step is one of its own mode of deploy.
- `Beside`: how far `.new` has come at each step, and that `.old` is gone before the target is moved to it.
- `Named`: a marker names its own tree or nothing, and a file without one is a torn deploy's or is about to get it.
- `Found`: what the deploy saw at the target is still so, unless others changed it since.
- `Alone`: when nobody else was there, what is at the target and what may be put back are whole.

There is one lemma per step. A step that only touches what is beside the target leaves `Named` and `Alone` as they were
(`QuietIs`, `PreparingStep`), and a deploy that has failed promises nothing more (`FailedIs`), which covers every
interruption at once; the renames, the marker and the removals are what remains. The invariant was checked by TLC first.
`TargetIsHeld` is then a consequence, and `DeployAnswers` adds two facts of a step: which steps change the
target (`Spared`), and what a refusal has found there (`RefusedOthers`).

`NeededIsShipped` (`Run => []ShipsNeeded`) is of `Closure`, for any graph: what waits or was looked at is needed (`Wanted`), what is here of it is found (`FoundSeen`), and what it needs waits or
was looked at in its turn (`Followed`). `HostsAreFannedOut` (`Run => []FannedOut`) is of `FanOut`, for any hosts and parallelism, and whoever is interrupted: who holds the prompt and what was answered
(`PasswordKept`), what a host has come to by its phase (`ResultsKept`), that each host's records stand in one block, at the end of the screen while it writes
(`ScreenKept`), and that the exit status is 130 after an interrupt and else none of the hosts' is worse (`ExitKept`).

**Model-checked only.** Liveness (`OperationEnds`, `HostEnds`, `ConsoleEnds`, `CallsEnd`) is beyond
the prover, as is everything with `ENABLED`. `OwnOutput`, `Delivered`, `TypedWhole` and `ReadsWhole` (`ConsoleFrame`, `PromptConsole`,
`ExecutorCall`, `TypedCommand`, `ContainerProcess`) are about what is computed on sequences by folds and searches, which would
need induction over data that the installed provers cannot instantiate. `NothingLeft` (`ContainerProcess`, `ContainerHost`) and `AgentSound`
(`GuestAgent`) are within its reach and not proved.

## Where code and words differ

Two statements of the repository are checked as they stand and fail; each is the property of a run that is
expected to fail, and `PROJECT.json` quotes the lines.

1. `serial_race`: a close between `connect` and `open` of one `run` makes it type its
   command on a port that was never logged in on (`transports/serial/_host.py:501`).
   The same happens when `connect` returns `None`, because a close came between its two
   reads of the port, and no login was remembered.
2. `deploy_stale`: `install_pyz` renames the zipapp before it writes the marker. Interrupted in between
   (`deploy/_install.py:116`), a later deploy of the *old* program finds its digest and reports it current, though the new one is
   there; and a first deploy interrupted there is refused for ever, as if another had put the file there.

The properties name the other ways the code departs from what one would say of it; each exception is written in the property, or in the
module, and no wider than it must be.

- *Selector.* `run` can fail with "no provider is available" without dialling when another thread drops the declines between
  the scan and the readmission (`HonestRefusal`, `disturbed`). A probe asked for before `invalidate()` is cached after it
  (`provider/_selector.py:196`) and serves the whole next generation.
- *Host.* A path obtained before `close()` reopens its transport without the host noticing; the next `close()` skips it
  (`TransportsAccounted`). A run under way as `replace_providers` closes its provider connects it again. A transport whose `close` raises is
  marked closed all the same and no later close tries again (`system/_host.py:543-548`, `unclosed`).
- *Paths.* When the last part of a generic move is refused, the refusal is taken for one of the whole
  (`paths/_mixin.py:487`): the next provider begins the transfer again (`RoutingSound`).
- *Console.* A stream that raises `OperationNotStartedError` while the command line is typed has it passed on as a decline
  (`console/_executor.py:108`); in the run only reads may raise it. `_acknowledged` declines only for a `ConnectionError` (`console/_posix.py:538`).
  `_window` returns its floor until the echo has arrived (`console/_profiles.py:208`), and a marker with a prompt-shaped line behind it ends a
  reply early: `PromptConsole` excepts devices that print one.
- *Executor.* Bytes written to a text stream without `.buffer` are decoded piece by piece as they stream; output merged into one target is decoded per stream; and a
  timeout decodes leniently whatever `errors` says. `Delivered` says what arrives in these cases.
- *Local.* `orphaned=False` rests on "the tree was killed above, so nothing survives this timeout" (`transports/local/_executor.py:150-151`), which is not so
  of processes that left the group, with a controlling terminal, or on Windows below a parent that has exited (`LocalSound` excepts them).
- *Serial console.* A process that cannot be made after the port was leased, for an encoding that is not known, leaves the lease held until the next close
  (`transports/serial/_host.py:390`, `abandoned` in `LeaseAccounted`). A port whose `close` raises has been forgotten already (`transports/serial/_executor.py:182-186`, `unclosed` in `PortsReachable`).
- *Serial I/O.* The wait for the lock is not part of a call's limit, and each piece of a write has the whole limit.
- *QEMU console.* A process counts as closed before its lease is released; a borrowed stream may be read by a call begun before. A process that cannot be made
  leaves its stream open and its lease held, with nobody to close it (`transports/qemu/_console.py:102`, `unmade` in `NeverLost`).
- *Guest files.* A `guest-file-open` whose answer is lost leaves the agent's handle open (`transports/qemu/_backend.py:82-90`, `orphaned` in `Tidy`).
- *Guest host.* Calls that overlap a close, or two that build a backend at once, leave a connection that nobody closes (`StrayByOverlap`), or are refused or crash (`FindsWhole`);
  an error without an id, met before the synchronisation is over, may be another client's and is raised with the connection kept as it is, so that a reply an
  earlier client left may be taken later (`unsure`; `AgentSound` speaks of synchronised connections).
- *Container.* The halves of a character left when a stream ends are dropped or read twice over by two readers; a process that outlives `host.close()` opens the client again with its next request;
  two threads may make a client or a backend each, of which one is forgotten (`NothingLeft`, *mixed*). The cached container is not inspected again.
- *SSH.* A child forked while the lock is held never gets it (`CallsEnd`). Threads whose reads and waits of one handle overlap share the held bytes without a lock
  (`OutputKept`); `read(-1)` after a wait gives what is held.
- *WinRM.* A session closed while a thread uses it may build its pool again (`PoolsOwned`); what the server is asked to delete it may refuse (`refused`), and
  a shell it opened without being able to say so is left (`transports/winrm/_pywinrm.py:98`). An `invoke` without `capture_exit` tells 0 of a native command that failed, when its pipeline completed.
- *Deploy.* A tree's half-removed `.old` may be put back when another program removes the target in between; removing a zipapp but not its marker gives "current" (`Answers`),
  and a file that another puts beside that marker is replaced by the next zipapp: `refuse_foreign` takes the marker at its word (`deploy/_install.py:77`) and `mv -f` goes over
  the file (line 116), though "a `path` that exists but was not written by a deploy is never replaced, `force` or not" (`deploy/__init__.py:250-251`; the test of it,
  `tests/test_deploy_install.py:126`, has no marker there). `ForeignSpared` excepts exactly that step; a directory in the zipapp's place is spared, and so is everything where trees are deployed.
- *Fan-out.* When the prompt meets an end of file the next host asks again; an output that cannot be written ends the command, without the other records; what the pool of `duho` does then is not
  modelled. Hosts at work when the command is interrupted go on, and may write records until the process ends.

## What is not modelled

- In the components that are modelled: `runspace` of the system host (as `spawn`), the cached shell
  flavour, a login's patterns, baud rates, dtr and rts, vendors' regular expressions,
  the arguments that composite paths turn into backend paths, the buffer and modes of a
  staged stream, stat formats and listings, the text of scripts, the event loop thread of `_async.py`, a
  second interrupt during a local kill, and the wording of errors. A console stream's writes do not raise a decline (see above).
- `sync` copies by pathlib's operations in one pass and keeps nothing: there is no order or failure in it that the paths' modules do not have.
- Not at all: shell quoting, URI and configuration parsing, resolvers (string functions without
  state), TLS and host key checks, the contents of deploy's archives and of the container's tar streams
  (pure I/O), argument parsing and the commands that call one host.
- `SystemHost` remembers a closed transport by `id()` (`system/_host.py:548`), which Python may give to another object: the model has no allocator. The argument of
  `samefile` is resolved with the path's own provider while the read runs on another (`paths/_forwarding.py:227`): the model has no arguments.

## The plan

Done: the components of the table above, and the proofs named. What is left to prove:

1. `GuestAgent`: `AgentSound`, from what each stream may hold by the request it belongs to, and that a synchronised connection carries one request at a time.
2. `ContainerProcess` and `ContainerHost`: `NothingLeft`, from who holds the socket and the client, as in `GuestHost`.
3. `TypedCommand`: that what is declined did not run, which needs no induction, apart from that what is typed arrives whole, which does.
