---------------------------- MODULE ContainerHost ----------------------------
(***************************************************************************)
(* `ContainerHost` (transports/container/_host.py): the client of the      *)
(* engine, the container it inspected, and the paths and processes given   *)
(* out, while two threads use the host and close it.  Nothing is locked.   *)
(* docker-py opens a closed client again with its next request.            *)
(***************************************************************************)
EXTENDS Integers, Sequences, SequencesExt

CONSTANTS Does,        \* what each thread may do
          MaxCalls     \* bound: calls of both threads

Threads == {1, 2}
Ops == {"connect", "path", "run", "spawn", "close", "use", "ask"}

(* What is taken for granted of the constants. *)
HostAssumption == MaxCalls \in Nat /\ \A t \in Threads: Does[t] \subseteq Ops

VARIABLES shell,       \* whether the shell and the path flavour are "auto"
          made, open,  \* clients: how many were made, and those that are open
          client,      \* `_client` (0: None)
          found,       \* the containers that were inspected, each with its client
          container,   \* `_container`: its index (0: None)
          attrs,       \* whether `_attrs` is there
          backends,    \* the path backends: container, whether still usable
          backend,     \* `_path_backend`: its index (0: None)
          paths,       \* the backends of the paths given out
          processes,   \* the clients of the processes given out
          th, calls    \* what each thread is doing; how many calls were begun

(* History, which no guard reads: what each thing was made by is `mixed`   *)
(* when it overlapped another call.                                        *)
VARIABLES lost,        \* clients that such calls left behind
          dropped      \* backends that such calls replaced

known == <<client, container, attrs, backend>>
things == <<made, open, found, backends>>
given == <<paths, processes>>
vars == <<shell, known, things, given, th, calls, lost, dropped>>

Idle == [at |-> "idle", todo |-> <<>>, con |-> 0, cl |-> 0, back |-> 0, mixed |-> FALSE, end |-> "done"]

Init ==
    /\ shell \in BOOLEAN
    /\ made = 0 /\ open = {} /\ client = 0
    /\ found = <<>> /\ container = 0 /\ attrs = FALSE
    /\ backends = <<>> /\ backend = 0
    /\ paths = {} /\ processes = {}
    /\ th = [t \in Threads |-> Idle] /\ calls = 0
    /\ lost = {} /\ dropped = {}

-----------------------------------------------------------------------------
(* What each operation does in turn.  "container" is the property of that  *)
(* name, "system" is `inspected_os`.                                       *)
System == IF shell THEN <<"container", "system">> ELSE <<>>
CloseClient == <<"detach", "forget", "take", "shut">>

Program(op) ==
    CASE op = "connect" -> <<"container">>
      [] op = "path" -> System \o <<"container", "backend", "build", "give path">>
      [] op = "run" -> System \o <<"container", "exec">>
      [] op = "spawn" -> System \o <<"container", "client", "container", "start">>
      [] op = "close" -> CloseClient \o CloseClient      \* the provider's, and the host's own
      [] op = "use" -> <<"use">>
      [] op = "ask" -> <<"ask">>

Busy(t) == th[t].at # "idle"
At(t, pc) == th[t].at = pc
Goes(t, pc) == th' = [th EXCEPT ![t].at = pc]
Ends(t, how) == th' = [th EXCEPT ![t] = [Idle EXCEPT !.end = how, !.mixed = th[t].mixed]]

(* On to the next step, with the record r. *)
Turn(t, r) ==
    th' = [th EXCEPT ![t] =
        IF r.todo = <<>> THEN [Idle EXCEPT !.mixed = r.mixed]
        ELSE [r EXCEPT !.at = Head(r.todo), !.todo = Tail(r.todo)]]

Begin(t, op) ==
    /\ ~Busy(t) /\ calls < MaxCalls
    /\ calls' = calls + 1
    /\ LET both == \E u \in Threads \ {t}: Busy(u)
       IN  \E b \in IF op = "use" THEN paths ELSE {0}:
           \E c \in IF op = "ask" THEN processes ELSE {0}:
               th' = [u \in Threads |->
                   IF u = t THEN [Idle EXCEPT !.at = Head(Program(op)), !.todo = Tail(Program(op)),
                                              !.back = b, !.cl = c, !.mixed = both]
                   ELSE [th[u] EXCEPT !.mixed = @ \/ (both /\ Busy(u))]]
    /\ UNCHANGED <<shell, known, things, given, lost, dropped>>

-----------------------------------------------------------------------------
(* A request on a client, which opens it when it was closed. *)
Requests(t, c, excused) ==
    /\ open' = open \cup {c}
    /\ lost' = IF c \in open \/ ~(th[t].mixed \/ excused) THEN lost ELSE lost \cup {c}

(* `client`: looked for, made where there is none, and read once more.     *)
Client(t) ==
    /\ At(t, "client")
    /\ Goes(t, IF client = 0 THEN "make" ELSE "read client")
    /\ UNCHANGED <<shell, known, things, given, calls, lost, dropped>>

Make(t) ==
    /\ At(t, "make")
    /\ \/ /\ made' = made + 1 /\ open' = open \cup {made + 1}
          /\ th' = [th EXCEPT ![t].at = "keep client", ![t].cl = made + 1]
       \/ Ends(t, "refused") /\ UNCHANGED <<made, open>>
    /\ UNCHANGED <<shell, known, found, backends, given, calls, lost, dropped>>

KeepClient(t) ==
    /\ At(t, "keep client")
    /\ client' = th[t].cl
    /\ lost' = IF client = 0 THEN lost ELSE lost \cup {client}
    /\ Goes(t, "read client")
    /\ UNCHANGED <<shell, container, attrs, backend, things, given, calls, dropped>>

(* A client that was closed meanwhile is None. *)
ReadClient(t) ==
    /\ At(t, "read client")
    /\ IF client = 0 THEN Ends(t, "none")
       ELSE IF th[t].con = 0 THEN th' = [th EXCEPT ![t].at = "inspect", ![t].cl = client]
            ELSE Turn(t, [th[t] EXCEPT !.cl = client])
    /\ UNCHANGED <<shell, known, things, given, calls, lost, dropped>>

(* `container`: inspected where it is not known, and refused when it is    *)
(* not there, not running or out of reach.                                 *)
Container(t) ==
    /\ At(t, "container")
    /\ th' = [th EXCEPT ![t].at = IF container = 0 THEN "client" ELSE "read container", ![t].con = 0]
    /\ UNCHANGED <<shell, known, things, given, calls, lost, dropped>>

Inspect(t) ==
    /\ At(t, "inspect")
    /\ Requests(t, th[t].cl, FALSE)
    /\ Goes(t, "keep") \/ Ends(t, "refused")
    /\ UNCHANGED <<shell, known, made, found, backends, given, calls, dropped>>

Keep(t) ==
    /\ At(t, "keep")
    /\ found' = Append(found, [client |-> th[t].cl, mixed |-> th[t].mixed])
    /\ container' = Len(found')
    /\ Goes(t, "keep attrs")
    /\ UNCHANGED <<shell, client, attrs, backend, made, open, backends, given, calls, lost, dropped>>

KeepAttrs(t) ==
    /\ At(t, "keep attrs")
    /\ attrs' = TRUE /\ Goes(t, "read container")
    /\ UNCHANGED <<shell, client, container, backend, things, given, calls, lost, dropped>>

ReadContainer(t) ==
    /\ At(t, "read container")
    /\ IF container = 0 THEN Ends(t, "none") ELSE Turn(t, [th[t] EXCEPT !.con = container])
    /\ UNCHANGED <<shell, known, things, given, calls, lost, dropped>>

(* `inspected_os`, of an image that has no system of its own.              *)
Detect(t) ==
    /\ At(t, "system")
    /\ IF attrs THEN Turn(t, th[t]) ELSE Ends(t, "undetected")
    /\ UNCHANGED <<shell, known, things, given, calls, lost, dropped>>

-----------------------------------------------------------------------------
(* `_archive_path`: one backend for every path of a container. *)
Backend(t) ==
    /\ At(t, "backend")
    /\ IF backend = 0 \/ backends[backend].container # th[t].con
       THEN Turn(t, th[t])
       ELSE Turn(t, [th[t] EXCEPT !.todo = Tail(@), !.back = backend])
    /\ UNCHANGED <<shell, known, things, given, calls, lost, dropped>>

Build(t) ==
    /\ At(t, "build")
    /\ backends' = Append(backends, [container |-> th[t].con, usable |-> TRUE, mixed |-> th[t].mixed])
    /\ backend' = Len(backends')
    /\ dropped' = IF backend # 0 /\ (th[t].mixed \/ backends[backend].mixed)
                THEN dropped \cup {backend} ELSE dropped
    /\ Turn(t, [th[t] EXCEPT !.back = backend'])
    /\ UNCHANGED <<shell, client, container, attrs, made, open, found, given, calls, lost>>

GivePath(t) ==
    /\ At(t, "give path")
    /\ paths' = paths \cup {th[t].back}
    /\ Turn(t, th[t])
    /\ UNCHANGED <<shell, known, things, processes, calls, lost, dropped>>

(* `_engine`: a path of a closed host is refused. *)
Use(t) ==
    /\ At(t, "use")
    /\ LET b == backends[th[t].back]
       IN  IF b.usable THEN /\ Requests(t, found[b.container].client, b.mixed \/ found[b.container].mixed)
                            /\ Ends(t, "done")
           ELSE Ends(t, "closed") /\ UNCHANGED <<open, lost>>
    /\ UNCHANGED <<shell, known, made, found, backends, given, calls, dropped>>

(* A command.  What is refused or fails here is not sent again. *)
Exec(t) ==
    /\ At(t, "exec")
    /\ Requests(t, found[th[t].con].client, found[th[t].con].mixed)
    /\ Turn(t, th[t]) \/ Ends(t, "failed")
    /\ UNCHANGED <<shell, known, made, found, backends, given, calls, dropped>>

(* A process is started with the host's client, for the container of the   *)
(* host; it asks its own client for the process's status.                  *)
Start(t) ==
    /\ At(t, "start")
    /\ Requests(t, th[t].cl, found[th[t].con].mixed)
    /\ \/ processes' = processes \cup {th[t].cl} /\ Turn(t, th[t])
       \/ Ends(t, "failed") /\ UNCHANGED processes
    /\ UNCHANGED <<shell, known, made, found, backends, paths, calls, dropped>>

Ask(t) ==
    /\ At(t, "ask")
    /\ open' = open \cup {th[t].cl} /\ Turn(t, th[t])
    /\ UNCHANGED <<shell, known, made, found, backends, given, calls, lost, dropped>>

-----------------------------------------------------------------------------
(* `_close_client`. *)
DetachOnly(t) ==      \* Mutant: the paths given out still work.
    backend' = 0 /\ UNCHANGED backends
Detach(t) ==
    /\ backend' = 0
    /\ backends' = IF backend = 0 THEN backends ELSE [backends EXCEPT ![backend].usable = FALSE]

CloseBackend(t) ==
    /\ At(t, "detach")
    /\ Detach(t) /\ Turn(t, th[t])
    /\ UNCHANGED <<shell, client, container, attrs, made, open, found, given, calls, lost, dropped>>

Remembers(t) == UNCHANGED container     \* Mutant: the container is not forgotten.
Forget(t) == container' = 0

CloseContainer(t) ==
    /\ At(t, "forget")
    /\ Forget(t) /\ Turn(t, th[t])
    /\ UNCHANGED <<shell, client, attrs, backend, things, given, calls, lost, dropped>>

TakesClient(t) ==
    /\ At(t, "take")
    /\ attrs' = FALSE /\ client' = 0
    /\ Turn(t, [th[t] EXCEPT !.cl = client, !.todo = IF client = 0 THEN Tail(@) ELSE @])
    /\ UNCHANGED <<shell, container, backend, things, given, calls, lost, dropped>>

Shut(t) ==
    /\ At(t, "shut")
    /\ open' = open \ {th[t].cl} /\ Turn(t, [th[t] EXCEPT !.cl = 0])
    /\ UNCHANGED <<shell, known, made, found, backends, given, calls, lost, dropped>>

Step(t) ==
    \/ Client(t) \/ Make(t) \/ KeepClient(t) \/ ReadClient(t)
    \/ Container(t) \/ Inspect(t) \/ Keep(t) \/ KeepAttrs(t) \/ ReadContainer(t) \/ Detect(t)
    \/ Backend(t) \/ Build(t) \/ GivePath(t) \/ Use(t) \/ Exec(t) \/ Start(t) \/ Ask(t)
    \/ CloseBackend(t) \/ CloseContainer(t) \/ TakesClient(t) \/ Shut(t)

Next == \E t \in Threads: Step(t) \/ \E op \in Does[t]: Begin(t, op)

Spec == Init /\ [][Next]_vars

-----------------------------------------------------------------------------
(* Every client that is open is the host's own, or in the hands of a call, *)
(* or kept by a process given out, which nothing refuses when the host is  *)
(* closed -- but for those that calls which overlapped left behind.        *)
Accounted ==
    \A c \in open: \/ c = client \/ c \in processes \/ c \in lost
                   \/ \E t \in Threads: Busy(t) /\ th[t].cl = c

(* A path works only while the host it came from has not been closed:      *)
(* closing it refuses every path given out, but for those of a backend     *)
(* that overlapping calls have replaced.                                   *)
PathsRefused ==
    \A i \in DOMAIN backends:
        backends[i].usable => i = backend \/ i \in dropped

(* A call that no other overlapped never meets a half-closed host, unless  *)
(* overlapping calls have left it so.                                      *)
NeverHalfClosed ==
    \A t \in Threads:
        /\ th[t].end = "none" => th[t].mixed
        /\ th[t].end = "undetected" => th[t].mixed \/ \E i \in DOMAIN found: found[i].mixed

HostSound == Accounted /\ PathsRefused /\ NeverHalfClosed
=============================================================================
