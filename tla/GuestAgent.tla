------------------------------ MODULE GuestAgent ------------------------------
(***************************************************************************)
(* The QEMU guest agent as hostctl uses it: `_QGAFramedSession`            *)
(* (transports/qemu/_qga.py) over a stream that a socket or an SSH channel *)
(* carries, the commands of `QEMUExecutor` and the files of                *)
(* `QGAPathBackend`.                                                       *)
(*                                                                         *)
(* A session is a connection to a channel that outlives it: what a client  *)
(* left unread, and what it had sent in part, is met by the next one.  The *)
(* session lock admits one request at a time, so there is one caller.      *)
(***************************************************************************)
EXTENDS Integers, Sequences

CONSTANTS MaxIds,      \* bound: requests and synchronisations
          MaxCalls,    \* bound: commands and files
          Size,        \* what a file is to hold that is written
          Chunk,       \* `chunk_size`
          Leftovers,   \* the replies an earlier client may have left unread
          Begun        \* whether it may have left a request half sent

(* What an agent's reply may say; `garbled` is what is left of one of      *)
(* which a client has read a part.                                         *)
Words == {"return", "error", "running", "exited", "eof", "garbled"}

(* What is taken for granted of the constants: what is left over answers   *)
(* no request of ours.                                                     *)
AgentAssumption ==
    /\ MaxIds \in Nat /\ MaxCalls \in Nat
    /\ Size \in Nat \ {0} /\ Chunk \in Nat \ {0}
    /\ Begun \in BOOLEAN
    /\ Leftovers \subseteq
           Seq([marked: BOOLEAN, id: Nat, to: {0}, says: Words, count: {0}])

VARIABLES toGuest,    \* the requests on their way to the agent
          toHost,     \* its replies on their way back
          connected,  \* `_connected`
          rpc,        \* the request being executed
          got,        \* what it came to, until the caller has taken that
          ids,        \* how many ids `_ids` has given
          call,       \* the command or the file under way, then its outcome
          calls       \* how many were begun

(* The guest. *)
VARIABLES running,    \* the commands that run, by the id of their request
          exited,     \* those that have ended and are not yet reported
          handles,    \* the open file handles, by the id of their request
          file        \* how much the file holds

(* History, which no guard reads. *)
VARIABLES synced,     \* the connection has synchronised
          unsure,     \* the call has read replies over one that had not
          started     \* the commands that were ever started

session == <<toGuest, toHost, connected, rpc, got, ids, synced>>
caller == <<call, calls, unsure>>
guest == <<running, exited, handles, file, started>>
vars == <<session, caller, guest>>

Ids == 0 .. MaxIds
Files == {"write", "read"}
Commands == {"sync", "connect", "exec", "status", "open", "flush", "close"} \cup Files
Failures == {"timeout", "connection", "protocol"}

(* A request, and a reply: the id it names (0: none), the request it       *)
(* answers (0: none of ours), what it says, and how much it is about.      *)
(* `marked` is a sync reply, after its 0xff byte; the ids of syncs are     *)
(* apart from those of requests.                                           *)
Message(kind, id, arg, count, whole) ==
    [kind |-> kind, id |-> id, arg |-> arg, count |-> count, whole |-> whole]
Reply(m, says, count) ==
    [marked |-> m.kind = "sync", id |-> m.id, to |-> m.id, says |-> says, count |-> count]
Foreign(id, says, marked) ==
    [marked |-> marked, id |-> id, to |-> 0, says |-> says, count |-> 0]
Idless == Foreign(0, "error", FALSE)
Garbled == Foreign(0, "garbled", FALSE)

NoReply == [what |-> "none", want |-> 0, to |-> 0, count |-> 0]
NoRpc == [stage |-> "off", kind |-> "exec", id |-> 0]
NoCall == [op |-> "none", step |-> "exec", sent |-> 0, of |-> 0, count |-> 0,
           failed |-> FALSE, outcome |-> "none"]

Init ==
    /\ toGuest \in {<<>>} \cup (IF Begun THEN {<<Message("exec", 0, 0, 0, FALSE)>>} ELSE {})
    /\ toHost \in Leftovers
    /\ connected = FALSE /\ synced = FALSE
    /\ rpc = NoRpc /\ got = NoReply /\ ids = 0
    /\ call = NoCall /\ calls = 0 /\ unsure = FALSE
    /\ running = {} /\ exited = {} /\ handles = {} /\ file = 0 /\ started = {}

-----------------------------------------------------------------------------
(* The session.  `execute` holds its lock from here to its end.            *)
At(stage) == rpc.stage = stage

Return(what, to, count) ==
    /\ rpc' = [rpc EXCEPT !.stage = "off"]
    /\ got' = [what |-> what, want |-> rpc.id, to |-> to, count |-> count]

(* What is left of the replies when the connection is dropped: any of them *)
(* may have been read into the buffer, the last of them in part.           *)
Unread(q) ==
    {SubSeq(q, k, Len(q)): k \in 1 .. Len(q) + 1}
        \cup {<<Garbled>> \o SubSeq(q, k + 1, Len(q)): k \in DOMAIN q}

FailConnected(r) ==    \* Mutant: the connection is kept.
    /\ Return(r, 0, 0)
    /\ UNCHANGED <<toHost, connected, synced>>

(* `_disconnect_locked`, and the exception that led to it.                 *)
Fail(r) ==
    /\ Return(r, 0, 0)
    /\ connected' = FALSE /\ synced' = FALSE
    /\ toHost' \in Unread(toHost)

(* `_send` of all of it; or the deadline passes, or the peer is gone,      *)
(* before it or in the middle of it.                                       *)
Sent(m, next) ==
    /\ ids < MaxIds /\ ids' = ids + 1
    /\ toGuest' = Append(toGuest, m)
    /\ rpc' = [rpc EXCEPT !.stage = next, !.id = ids + 1]
    /\ connected' = TRUE
    /\ UNCHANGED <<got, toHost, synced>>

SendFails(m, r) ==
    /\ ids < MaxIds /\ ids' = ids + 1
    /\ toGuest' \in {toGuest, Append(toGuest, [m EXCEPT !.whole = FALSE])}
    /\ Fail(r)

Sync == Message("sync", ids + 1, 0, 0, TRUE)

(* `_connect_raw` and the request of `_synchronize`.                       *)
Open ==
    /\ At("start") /\ ~connected
    /\ \/ Sent(Sync, "discard")
       \/ \E r \in Failures \ {"protocol"}: SendFails(Sync, r)
    /\ UNCHANGED <<caller, guest>>

CannotOpen(r) ==
    /\ At("start") /\ ~connected
    /\ Fail(r)
    /\ UNCHANGED <<toGuest, ids, caller, guest>>

(* `connect` of what is connected. *)
Connected ==
    /\ At("start") /\ connected /\ rpc.kind = "connect"
    /\ Return("return", rpc.id, 0)
    /\ UNCHANGED <<toGuest, toHost, connected, ids, synced, caller, guest>>

(* `_discard_until_delimiter`. *)
Discard ==
    /\ At("discard") /\ toHost # <<>>
    /\ \/ /\ Head(toHost).marked
          /\ rpc' = [rpc EXCEPT !.stage = "sync"] /\ UNCHANGED toHost
       \/ /\ ~Head(toHost).marked
          /\ toHost' = Tail(toHost) /\ UNCHANGED rpc
    /\ UNCHANGED <<toGuest, connected, got, ids, synced, caller, guest>>

TokenAny(f) == TRUE    \* Mutant: a sync reply with our id is ours.
Token(f) == f.to = rpc.id

Answers(f) == f.id = rpc.id

(* An error without an id is "the response for the oldest outstanding      *)
(* request", also while the session synchronises.                          *)
IsIdless(f) == f.says = "error" /\ f.id = 0

(* `_synchronize`: the sync reply must carry the token; replies to others  *)
(* are passed over.  `execute` raises an error as the agent's answer and   *)
(* keeps the connection; `connect` drops it.                               *)
SyncReply ==
    /\ At("sync") /\ toHost # <<>>
    /\ LET f == Head(toHost)
           mine == f.marked /\ Answers(f)
       IN  \/ f.says = "garbled" /\ Fail("protocol")
           \/ /\ IsIdless(f) /\ rpc.kind = "connect"
              /\ Fail("error")
           \/ /\ IsIdless(f) /\ rpc.kind # "connect"
              /\ Return("error", f.to, 0)
              /\ toHost' = Tail(toHost)
              /\ UNCHANGED <<connected, synced>>
           \/ /\ f.says # "garbled" /\ ~IsIdless(f) /\ ~(mine /\ Token(f))
              /\ toHost' = Tail(toHost)
              /\ rpc' = [rpc EXCEPT !.stage = IF mine THEN "discard" ELSE "sync"]
              /\ UNCHANGED <<connected, synced, got>>
           \/ /\ f.says # "garbled" /\ mine /\ Token(f)
              /\ toHost' = Tail(toHost)
              /\ synced' = TRUE
              /\ IF rpc.kind = "connect" THEN Return("return", rpc.id, 0)
                 ELSE rpc' = [rpc EXCEPT !.stage = "send"] /\ UNCHANGED got
              /\ UNCHANGED connected
    /\ unsure' = (unsure \/ IsIdless(Head(toHost)))
    /\ UNCHANGED <<toGuest, ids, call, calls, guest>>

(* What `_write_direct` sends next is the rest of a chunk; a read asks for *)
(* a chunk, and an open says whether the file is emptied.                  *)
Least(a, b) == IF a < b THEN a ELSE b

Counts ==
    CASE rpc.kind = "write" -> Least(Chunk - (call.count % Chunk), Size - call.count)
      [] rpc.kind = "read" -> Chunk
      [] rpc.kind = "open" /\ call.op = "write" -> 1
      [] OTHER -> 0

Request == Message(rpc.kind, ids + 1, call.of, Counts, TRUE)

SendRequest ==
    /\ (At("start") /\ connected /\ rpc.kind # "connect") \/ At("send")
    /\ \/ Sent(Request, "await")
       \/ \E r \in Failures \ {"protocol"}: SendFails(Request, r)
    /\ UNCHANGED <<caller, guest>>

(* `_correlated_reply` and `_unwrap`. *)
Receive ==
    /\ At("await") /\ toHost # <<>>
    /\ LET f == Head(toHost)
           taken == (~f.marked /\ Answers(f)) \/ IsIdless(f)
       IN  \/ f.says = "garbled" /\ Fail("protocol")
           \/ /\ f.says # "garbled"
              /\ IF taken THEN Return(f.says, f.to, f.count) ELSE UNCHANGED <<rpc, got>>
              /\ toHost' = Tail(toHost)
              /\ UNCHANGED <<connected, synced>>
    /\ unsure' = (unsure \/ ~synced)
    /\ UNCHANGED <<toGuest, ids, call, calls, guest>>

(* The deadline passes, the stream ends or a reply is too long, while a    *)
(* reply is awaited.                                                       *)
NoAnswer(r) ==
    /\ rpc.stage \in {"discard", "sync", "await"}
    /\ Fail(r)
    /\ UNCHANGED <<toGuest, ids, caller, guest>>

(* `close`. *)
Close ==
    /\ At("off") /\ connected
    /\ connected' = FALSE /\ synced' = FALSE
    /\ toHost' \in Unread(toHost)
    /\ UNCHANGED <<toGuest, rpc, got, ids, caller, guest>>

-----------------------------------------------------------------------------
(* The guest agent takes one request after the other.  One cut short is    *)
(* answered with an error without an id as soon as something follows it:   *)
(* the 0xff byte of a sync ends it, any other request is lost with it.     *)
Lost ==
    /\ Len(toGuest) > 1 /\ ~Head(toGuest).whole
    /\ toHost' = Append(toHost, Idless)
    /\ toGuest' = IF toGuest[2].kind = "sync" THEN Tail(toGuest) ELSE Tail(Tail(toGuest))
    /\ UNCHANGED <<connected, rpc, got, ids, synced, caller, guest>>

Says(m, says, count) ==
    /\ toGuest' = Tail(toGuest)
    /\ toHost' = Append(toHost, Reply(m, says, count))

Starts(m) ==
    /\ m.kind = "exec"
    /\ \/ /\ Says(m, "return", 0)
          /\ running' = running \cup {m.id} /\ started' = started \cup {m.id}
       \/ Says(m, "error", 0) /\ UNCHANGED <<running, started>>
    /\ UNCHANGED <<exited, handles, file>>

(* A status that says a process has ended forgets it.                      *)
Reports(m) ==
    /\ m.kind = "status"
    /\ \/ m.arg \in exited /\ Says(m, "exited", 0)
       \/ m.arg \in running /\ Says(m, "running", 0)
       \/ m.arg \notin running \cup exited /\ Says(m, "error", 0)
    /\ exited' = exited \ {m.arg}
    /\ UNCHANGED <<running, handles, file, started>>

Opens(m) ==
    /\ m.kind = "open"
    /\ \/ /\ Says(m, "return", 0)
          /\ handles' = handles \cup {[id |-> m.id, at |-> 0]}
          /\ file' = IF m.count = 0 THEN file ELSE 0
       \/ Says(m, "error", 0) /\ UNCHANGED <<handles, file>>
    /\ UNCHANGED <<running, exited, started>>

Move(h, n) == handles' = (handles \ {h}) \cup {[h EXCEPT !.at = @ + n]}

Writes(m) ==
    /\ m.kind = "write"
    /\ \/ \E h \in handles, n \in 1 .. m.count:
           /\ h.id = m.arg
           /\ Says(m, "return", n)
           /\ file' = file + n
           /\ Move(h, n)
       \/ Says(m, "error", 0) /\ UNCHANGED <<handles, file>>
    /\ UNCHANGED <<running, exited, started>>

Reads(m) ==
    /\ m.kind = "read"
    /\ \/ \E h \in handles, n \in 0 .. m.count:
           /\ h.id = m.arg /\ n <= file - h.at
           /\ n = 0 => h.at = file
           /\ \/ Says(m, "return", n) /\ n # 0
              \/ Says(m, "eof", n) /\ h.at + n = file
           /\ Move(h, n)
       \/ Says(m, "error", 0) /\ UNCHANGED handles
    /\ UNCHANGED <<running, exited, file, started>>

Ends(m) ==
    /\ m.kind \in {"flush", "close"}
    /\ \/ /\ \E h \in handles: h.id = m.arg
          /\ Says(m, "return", 0)
          /\ handles' = IF m.kind = "close" THEN {h \in handles: h.id # m.arg} ELSE handles
       \/ Says(m, "error", 0) /\ UNCHANGED handles
    /\ UNCHANGED <<running, exited, file, started>>

Guest ==
    /\ toGuest # <<>> /\ Head(toGuest).whole
    /\ LET m == Head(toGuest) IN
       \/ m.kind = "sync" /\ Says(m, "return", 0) /\ UNCHANGED guest
       \/ Starts(m) \/ Reports(m) \/ Opens(m) \/ Writes(m) \/ Reads(m) \/ Ends(m)
    /\ UNCHANGED <<connected, rpc, got, ids, synced, caller>>

ProcessExits ==
    /\ \E p \in running: running' = running \ {p} /\ exited' = exited \cup {p}
    /\ UNCHANGED <<session, caller, handles, file, started>>

(* The agent or the guest restarts. *)
AgentRestarts ==
    /\ running \cup exited # {} \/ handles # {} \/ toGuest # <<>>
    /\ toGuest' = <<>> /\ running' = {} /\ exited' = {} /\ handles' = {}
    /\ UNCHANGED <<toHost, connected, rpc, got, ids, synced, caller, file, started>>

-----------------------------------------------------------------------------
(* The callers: `connect`, a command, a file written or read.              *)
Active == call.op # "none" /\ call.outcome = "none"

Begin(op) ==
    /\ At("off") /\ ~Active /\ calls < MaxCalls
    /\ calls' = calls + 1 /\ unsure' = FALSE
    /\ call' = [NoCall EXCEPT !.op = op,
                              !.step = IF op = "run" THEN "exec"
                                       ELSE IF op = "connect" THEN "connect" ELSE "open"]
    /\ UNCHANGED <<session, guest>>

(* The next request; for a command, `_remaining` first.                    *)
Issue ==
    /\ Active /\ At("off") /\ got = NoReply
    /\ rpc' = [NoRpc EXCEPT !.stage = "start", !.kind = call.step]
    /\ UNCHANGED <<toGuest, toHost, connected, got, ids, synced, caller, guest>>

(* The id of the `guest-exec` that was sent, for the properties.           *)
SentNow == IF call.step = "exec" /\ got.want # 0 THEN got.want ELSE call.sent

Settles(outcome) == call' = [call EXCEPT !.outcome = outcome, !.sent = SentNow]

OrphanUnmarked(begun) == "expired"    \* Mutant: a started command is not called orphaned.
Expired(begun) == IF begun THEN "orphaned" ELSE "expired"

(* The command's deadline has passed between two requests.                 *)
Late ==
    /\ Active /\ At("off") /\ got = NoReply /\ call.op = "run"
    /\ Settles(Expired(call.step = "status"))
    /\ UNCHANGED <<session, calls, unsure, guest>>

(* A request that was not answered in time: the agent's time ran out       *)
(* before the command's, or the command's did.  The guest's own error      *)
(* refuses the command only when it is the answer to its `guest-exec`.     *)
NoStatus ==
    \/ /\ got.what = "timeout"
       /\ Settles("stopped") \/ Settles(Expired(TRUE))
    \/ got.what \in {"connection", "protocol"} /\ Settles("failed")
    \/ /\ got.what = "error"
       /\ Settles(IF call.step = "exec" THEN "refused" ELSE "failed")

TookStart ==
    /\ call.step = "exec" /\ got.what \notin Failures \cup {"error"}
    /\ IF got.what = "return"
       THEN call' = [call EXCEPT !.step = "status", !.of = got.to, !.sent = SentNow]
       ELSE Settles("failed")

(* `_wait`: polled until the process has ended. *)
TookStatus ==
    /\ call.step = "status" /\ got.what \notin Failures \cup {"error"}
    /\ CASE got.what = "exited" -> Settles("done")
         [] got.what = "running" -> UNCHANGED call
         [] OTHER -> Settles("failed")

TookCommand == call.op = "run" /\ (NoStatus \/ TookStart \/ TookStatus)

CountAll(n) == Counts        \* Mutant: what was sent is taken for written.
Counted(n) == n

(* `_write_direct` and `read_bytes`: the handle is closed whatever         *)
(* happened, and a failure to close is an error unless there was another.  *)
Goes(step) == call' = [call EXCEPT !.step = step]
Fails == call' = [call EXCEPT !.step = "close", !.failed = TRUE]

TookOpen ==
    /\ call.step = "open"
    /\ IF got.what = "return"
       THEN call' = [call EXCEPT !.step = call.op, !.of = got.to]
       ELSE Settles("failed")

TookWrite ==
    \/ /\ call.step = "write" /\ got.what = "return" /\ got.count > 0
       /\ LET n == call.count + Counted(got.count) IN
          call' = [call EXCEPT !.count = n, !.step = IF n >= Size THEN "flush" ELSE @]
    \/ call.step = "write" /\ ~(got.what = "return" /\ got.count > 0) /\ Fails
    \/ call.step = "flush" /\ got.what = "return" /\ Goes("close")
    \/ call.step = "flush" /\ got.what # "return" /\ Fails

TookRead ==
    /\ call.step = "read"
    /\ IF got.what \in {"return", "eof"}
       THEN call' = [call EXCEPT !.count = @ + got.count,
                                 !.step = IF got.what = "eof" THEN "close" ELSE @]
       ELSE Fails

TookClose ==
    /\ call.step = "close"
    /\ Settles(IF call.failed \/ got.what # "return" THEN "failed" ELSE call.op)

TookFile == call.op \in Files /\ (TookOpen \/ TookWrite \/ TookRead \/ TookClose)

TookConnect ==
    /\ call.op = "connect"
    /\ Settles(IF got.what = "return" THEN "connect" ELSE "failed")

Took ==
    /\ Active /\ At("off") /\ got # NoReply
    /\ TookCommand \/ TookFile \/ TookConnect
    /\ got' = NoReply
    /\ UNCHANGED <<toGuest, toHost, connected, rpc, ids, synced, calls, unsure, guest>>

Next ==
    \/ Open \/ Connected \/ Discard \/ SyncReply \/ SendRequest \/ Receive \/ Close
    \/ \E r \in Failures: CannotOpen(r) \/ NoAnswer(r)
    \/ Lost \/ Guest \/ ProcessExits \/ AgentRestarts
    \/ \E op \in {"connect", "run", "write", "read"}: Begin(op)
    \/ Issue \/ Late \/ Took

Spec == Init /\ [][Next]_vars

-----------------------------------------------------------------------------
(* Properties. *)

(* Every variable keeps its kind. *)
Requests == [kind: Commands, id: Ids, arg: Ids, count: Nat, whole: BOOLEAN]
Replies == [marked: BOOLEAN, id: Nat, to: Ids, says: Words, count: Nat]

TypeOK ==
    /\ toGuest \in Seq(Requests) /\ toHost \in Seq(Replies)
    /\ connected \in BOOLEAN /\ synced \in BOOLEAN /\ (synced => connected)
    /\ rpc \in [stage: {"off", "start", "discard", "sync", "send", "await"}, kind: Commands, id: Ids]
    /\ got \in [what: {"none"} \cup Words \cup Failures, want: Ids, to: Ids, count: Nat]
    /\ ids \in Ids /\ calls \in 0 .. MaxCalls /\ unsure \in BOOLEAN
    /\ started \subseteq Ids /\ running \subseteq started /\ exited \subseteq started
    /\ file \in Nat /\ handles \subseteq [id: Ids, at: Nat]
    /\ call \in [op: {"none", "connect", "run"} \cup Files, step: Commands, sent: Ids, of: Ids,
                 count: Nat, failed: BOOLEAN,
                 outcome: {"none", "connect", "stopped", "expired", "orphaned", "refused",
                           "failed", "done"} \cup Files]

(* "`_synchronize`": once a connection has synchronised there is nothing   *)
(* of an earlier one on the way, and nothing but the request that is       *)
(* executed, whatever was left unread or half sent, in whatever order      *)
(* connections were dropped, and whether or not the agent restarted.       *)
CleanStream ==
    synced =>
        /\ Len(toGuest) + Len(toHost) <= (IF At("await") THEN 1 ELSE 0)
        /\ \A k \in DOMAIN toGuest: toGuest[k].id = rpc.id /\ toGuest[k].kind # "sync"
        /\ \A k \in DOMAIN toHost: toHost[k].id = rpc.id /\ ~toHost[k].marked

(* What `execute` returns or raises as the agent's is its answer to that   *)
(* request (`_correlated_reply`).  An error without an id that is met      *)
(* while a connection synchronises is taken for one, and that connection   *)
(* kept: what a call has taken over such a one may be anyone's (`unsure`). *)
OwnAnswer == got.what \in Words /\ ~unsure => got.to = got.want

(* What `QEMUExecutor` says of a command is so: a result is that of its    *)
(* own process, which has ended, and a deadline that expired without the   *)
(* command being called orphaned leaves nothing started, now or later.     *)
Coming(id) ==
    /\ id # 0
    /\ \/ id \in started
       \/ \E k \in DOMAIN toGuest: toGuest[k] = Message("exec", id, 0, 0, TRUE)

Honest ==
    call.op = "run" =>
        /\ call.outcome = "done" /\ ~unsure =>
               call.of = call.sent /\ call.sent \in started \ running
        /\ call.outcome = "expired" => ~Coming(call.sent)

(* A file that was written without an error holds all of it, one that was  *)
(* read without an error was read to its end, however little the agent     *)
(* takes or gives at a time, and the handle is closed.                     *)
WholeFile ==
    call.outcome \in Files /\ ~unsure =>
        /\ call.outcome = "write" => file = Size
        /\ call.outcome = "read" => call.count = file
        /\ \A h \in handles: h.id # call.of
=============================================================================
