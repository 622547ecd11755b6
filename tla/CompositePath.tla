---------------------------- MODULE CompositePath ----------------------------
(***************************************************************************)
(* `_CompositePathMixin` (paths/_mixin.py): a path that picks a provider   *)
(* for each operation until a mutation pins it.                            *)
(*                                                                         *)
(* `_dispatch` is a loop over candidates around a callback.  The callback  *)
(* of a copy or a move that no backend can do itself is made of dispatches *)
(* of both paths, so one caller's dispatches form a stack.  Which provider *)
(* the selector offers (ProviderSelector says how it chooses) and what a   *)
(* backend answers are chosen freely.                                      *)
(***************************************************************************)
EXTENDS Integers, Sequences, SequencesExt

CONSTANTS Paths,      \* the path objects
          Routes,     \* Routes[x]: the providers of x's host
          Caps,       \* Caps[p]: the operations provider p declares
          Does,       \* the operations the caller makes
          Nowhere,    \* nobody's backend path
          MaxCalls    \* bound: operations and derivations of the caller

Providers == UNION {Routes[x]: x \in Paths}

(* What a row of `_FORWARDED`, or a method beside it, is called with.      *)
(* `open` opens for writing.                                               *)
Operations == {"read", "chmod", "write", "unlink", "open", "rename", "copy", "move"}
Transfers == {"copy", "move"}
Pins(o) == o # "read"

ASSUME PathAssumption == /\ Nowhere \notin Providers
                         /\ Routes \in [Paths -> SUBSET Providers]
                         /\ Caps \in [Providers -> SUBSET (Operations \cup {"rmdir"})]
                         /\ Does \subseteq Operations
                         /\ MaxCalls \in Nat

VARIABLES routing,    \* each path's provider, cached backend path and pin
          declined,   \* the providers its selector has declined
          stack,      \* the dispatches under way, the innermost last
          answer,     \* what the dispatch that has just ended came to
          streams,    \* streams open for writing: path and owner
          calls       \* how many operations were begun

(* History, which no action's guard reads. *)
VARIABLES writers,    \* writers[x]: whose backend mutations of x were made by
          refused,    \* providers that refused something in this generation
          blamed      \* providers declined for what another one refused

vars == <<routing, declined, stack, answer, streams, calls, writers, refused, blamed>>
history == <<writers, refused, blamed>>

Answers == {"ok", "not implemented", "not started", "failed"}

(* Whether the row lets a NotImplementedError fall through to the next     *)
(* provider, and whether such an error does prove that nothing was mutated *)
(* (of a rename, `Path.move` relies on it).                                *)
RetryAll(o) == TRUE    \* Mutant: every operation may fall through.
RetrySafe(o) == o \in {"read", "chmod"}
Harmless(o) == o \in {"read", "chmod", "rename"}

-----------------------------------------------------------------------------
(* A path is made by `host.path()`, or derived, with no operation run.     *)
NewPath(p, pin) == [provider |-> p, backend |-> p, pinned |-> pin]

Init ==
    /\ routing \in {r \in [Paths -> [provider: Providers, backend: Providers, pinned: {FALSE}]]:
                       \A x \in Paths: r[x].provider \in Routes[x] /\ r[x].backend = r[x].provider}
    /\ declined = {}
    /\ stack = <<>>
    /\ answer = "none"
    /\ streams = {}
    /\ calls = 0
    /\ writers = [x \in Paths |-> {}]
    /\ refused = {}
    /\ blamed = {}

(* `_resolves_on`: provider p can address y itself. *)
ResolvesOn(y, p) == p \in Routes[y] /\ (routing[y].pinned => routing[y].provider = p)

(* What a provider must declare for the operation: any of these.  A copy   *)
(* only reads here unless the provider the path is on now holds both ends. *)
Needs(f) ==
    CASE f.op = "move" -> {"rename", "unlink", "write"}
      [] f.op = "unlink" -> {"unlink", "rmdir"}
      [] f.op = "copy" -> IF f.near THEN {"write"} ELSE {"read"}
      [] OTHER -> {f.op}

Frame(o, x, y) ==
    [op |-> o, path |-> x, target |-> y,
     near |-> ResolvesOn(y, routing[x].provider),
     fixed |-> routing[x].pinned,    \* only the pinned provider is a candidate
     excluded |-> {}, at |-> Nowhere, handle |-> Nowhere, old |-> routing[x],
     unable |-> FALSE, tried |-> {},
     stage |-> "choose", todo |-> <<>>,
     touched |-> FALSE]              \* history: something was mutated for it

Top == stack[Len(stack)]
At(stage) == stack # <<>> /\ Top.stage = stage
Replaced(f) == [stack EXCEPT ![Len(stack)] = f]

(* A dispatch ends; the one whose callback made it goes on with the answer.*)
Answer(s, r) ==
    /\ stack' = Front(s)
    /\ answer' = IF Len(s) = 1 THEN "none" ELSE r

Begin(o, x, y) ==
    /\ stack = <<>> /\ calls < MaxCalls
    /\ o \in Does
    /\ (o \in Transfers \cup {"rename"}) <=> (y # x)
    /\ stack' = <<Frame(o, x, y)>>
    /\ calls' = calls + 1
    /\ UNCHANGED <<routing, declined, answer, streams, history>>

-----------------------------------------------------------------------------
(* `_providers_in_order`. *)
Supports(p) == Caps[p] \cap Needs(Top) # {}

TryUnsaved(p) ==    \* Mutant: the state to restore is not taken down.
    stack' = Replaced([Top EXCEPT !.at = p, !.old = [@ EXCEPT !.provider = Nowhere],
                                  !.stage = "connect", !.excluded = @ \cup {p}])

TryUnexcluded(p) ==    \* Mutant: a provider that refuses is asked again.
    stack' = Replaced([Top EXCEPT !.at = p, !.old = routing[Top.path], !.stage = "connect"])

Try(p) ==
    stack' = Replaced([Top EXCEPT !.at = p, !.old = routing[Top.path], !.stage = "connect",
                                  !.excluded = @ \cup {p}])

Pinned(supported) ==
    /\ At("choose") /\ Top.fixed /\ Top.tried = {}
    /\ supported => Supports(routing[Top.path].provider)
    /\ IF supported
       THEN Try(routing[Top.path].provider) /\ UNCHANGED answer
       ELSE Answer(stack, "not implemented")
    /\ UNCHANGED <<routing, declined, streams, calls, history>>

(* A provider whose probe narrows what it declares may be passed over.     *)
Offer(p, supported) ==
    /\ At("choose") /\ ~Top.fixed
    /\ p \in Routes[Top.path] \ (Top.excluded \cup declined)
    /\ supported => Supports(p)
    /\ IF supported
       THEN Try(p)
       ELSE stack' = Replaced([Top EXCEPT !.excluded = @ \cup {p}])
    /\ UNCHANGED <<routing, declined, answer, streams, calls, history>>

(* Nothing else can serve: an earlier operation's refusals are forgotten.  *)
Readmit ==
    /\ At("choose") /\ ~Top.fixed
    /\ declined \cap (Routes[Top.path] \ Top.excluded) # {}
    /\ declined' = declined \ (Routes[Top.path] \ Top.excluded)
    /\ UNCHANGED <<routing, stack, answer, streams, calls, history>>

(* The loop is over: what is left may be unavailable. *)
Exhausted ==
    /\ At("choose")
    /\ IF Top.fixed THEN Top.tried # {}
                    ELSE declined \cap (Routes[Top.path] \ Top.excluded) = {}
    /\ Answer(stack, IF Top.tried = {} \/ Top.unable THEN "not implemented" ELSE "not started")
    /\ UNCHANGED <<routing, declined, streams, calls, history>>

-----------------------------------------------------------------------------
(* What connecting, or the callback, came to. A pinning operation takes    *)
(* its pin back exactly when the next provider may have a go.              *)
UndoPartly(f) ==    \* Mutant: the cached backend path is left behind.
    routing' = IF Pins(f.op) THEN [routing EXCEPT ![f.path].provider = f.old.provider,
                                                  ![f.path].pinned = f.old.pinned]
                             ELSE routing

Undo(f) ==
    routing' = IF Pins(f.op) THEN [routing EXCEPT ![f.path] = f.old] ELSE routing

DeclineUnable(f, r) == declined \cup {f.at}    \* Mutant: it cannot do this, so nothing.

Decline(f, r) == IF r = "not started" THEN declined \cup {f.at} ELSE declined

Caught(s, r) ==
    LET f == Last(s) IN
    IF r = "not started" \/ (r = "not implemented" /\ RetrySafe(f.op))
    THEN /\ Undo(f)
         /\ declined' = Decline(f, r)
         /\ stack' = Append(Front(s),
                            [f EXCEPT !.tried = @ \cup {f.at}, !.at = Nowhere, !.handle = Nowhere,
                                      !.todo = <<>>, !.stage = "choose",
                                      !.unable = @ \/ r = "not implemented"])
         /\ answer' = "none"
    ELSE Answer(s, r) /\ UNCHANGED <<routing, declined>>

(* The provider that will do it: the one of the cached backend path when   *)
(* the path is on the provider that was chosen (`_provider_path`).         *)
Handle(x, p) ==
    IF routing[x].provider = p /\ routing[x].backend # Nowhere THEN routing[x].backend ELSE p

Refuses(p, r) == refused' = IF r = "not started" THEN refused \cup {p} ELSE refused

Connect ==
    LET f == Top
        h == Handle(f.path, f.at)
    IN  /\ At("connect")
        /\ stack' = Replaced([f EXCEPT !.handle = h, !.stage = "call"])
        /\ routing' = IF Pins(f.op)
                      THEN [routing EXCEPT ![f.path] = [provider |-> f.at, backend |-> h,
                                                        pinned |-> TRUE]]
                      ELSE routing
        /\ UNCHANGED <<declined, answer, streams, calls, history>>

ConnectFails(r) ==
    /\ At("connect") /\ r # "ok"
    /\ Caught(stack, r)
    /\ Refuses(Top.at, r)
    /\ UNCHANGED <<streams, calls, writers, blamed>>

Touched(s) == [i \in DOMAIN s |-> [s[i] EXCEPT !.touched = TRUE]]

(* One call of the backend: it may have mutated the file in part when it   *)
(* fails, not when it says that nothing was started.                       *)
Mutates(f, r, mutates) ==
    /\ f.op = "read" => ~mutates
    /\ r = "ok" /\ f.op # "read" => mutates
    /\ r = "not started" \/ (r = "not implemented" /\ Harmless(f.op)) => ~mutates
    /\ f.op = "rename" /\ ~ResolvesOn(f.target, f.at) => r = "not implemented" /\ ~mutates

Call(r, mutates) ==
    LET f == Top IN
    /\ At("call")
    /\ f.op \in Transfers => ResolvesOn(f.target, routing[f.path].provider)
    /\ Mutates(f, r, mutates)
    /\ writers' = IF mutates THEN [writers EXCEPT ![f.path] = @ \cup {f.handle}] ELSE writers
    /\ Refuses(f.handle, r)
    /\ streams' = IF f.op = "open" /\ r = "ok" THEN streams \cup {<<f.path, f.handle>>}
                                               ELSE streams
    /\ Caught(IF mutates THEN Touched(stack) ELSE stack, r)
    /\ UNCHANGED <<calls, blamed>>

(* The generic copy and move of a path: the source is read and the target  *)
(* written, then the source removed, each by a dispatch of its own.  A     *)
(* move tries a rename first where one provider can address both ends.     *)
Generic(f) ==
    <<<<"read", f.path>>, <<"write", f.target>>>>
        \o (IF f.op = "move" THEN <<<<"unlink", f.path>>>> ELSE <<>>)

Renaming(f) == f.todo = Generic(f)    \* All of it is left, if it cannot.

Push(f) ==
    LET next == f.todo[1]
        far == IF next[1] = "rename" THEN f.target ELSE next[2]
    IN  stack' = Append(Replaced([f EXCEPT !.stage = "inside", !.todo = Tail(@)]),
                        Frame(next[1], next[2], far))

CallGeneric ==
    LET f == Top
        rename == IF f.op = "move" /\ ResolvesOn(f.target, routing[f.path].provider)
                  THEN <<<<"rename", f.path>>>> ELSE <<>>
    IN  /\ At("call") /\ f.op \in Transfers
        /\ Push([f EXCEPT !.todo = rename \o Generic(f)])
        /\ UNCHANGED <<routing, declined, answer, streams, calls, history>>

Resume ==
    LET f == Top
        done == answer = "ok" /\ (f.todo = <<>> \/ Renaming(f))
        more == answer = (IF Renaming(f) THEN "not implemented" ELSE "ok")
    IN  /\ At("inside")
        /\ CASE done -> Answer(stack, "ok") /\ UNCHANGED <<routing, declined, blamed>>
             [] more /\ ~done -> Push(f) /\ answer' = "none" /\ UNCHANGED <<routing, declined, blamed>>
             [] OTHER -> /\ Caught(stack, answer)
                         /\ blamed' = IF answer = "not started" THEN blamed \cup {f.at} ELSE blamed
        /\ UNCHANGED <<streams, calls, writers, refused>>

-----------------------------------------------------------------------------
(* A staged stream is uploaded by the provider that opened it, when it is  *)
(* closed, or dropped after an error.                                      *)
CloseStream(s, commits) ==
    /\ stack = <<>>
    /\ s \in streams
    /\ streams' = streams \ {s}
    /\ writers' = IF commits THEN [writers EXCEPT ![s[1]] = @ \cup {s[2]}] ELSE writers
    /\ UNCHANGED <<routing, declined, stack, answer, calls, refused, blamed>>

(* z becomes another path: one derived from x, which keeps its pin and     *)
(* builds its backend path when it needs one; `x.via(p)`; or a path of the *)
(* host, or of a listing, on the provider that built it.                   *)
Replaces(z, route) ==
    /\ stack = <<>> /\ calls < MaxCalls
    /\ \A s \in streams: s[1] # z
    /\ routing' = [routing EXCEPT ![z] = route]
    /\ writers' = [writers EXCEPT ![z] = {}]
    /\ calls' = calls + 1
    /\ UNCHANGED <<declined, stack, answer, streams, refused, blamed>>

Derive(x, z) ==
    /\ x # z /\ Routes[z] = Routes[x]
    /\ Replaces(z, [routing[x] EXCEPT !.backend = Nowhere])

Via(x, z, p) ==
    /\ x # z /\ Routes[z] = Routes[x] /\ p \in Routes[x] \ declined
    /\ Replaces(z, [provider |-> p, backend |-> Handle(x, p), pinned |-> TRUE])

HostPath(z, p) ==
    /\ p \in Routes[z] \ declined
    /\ Replaces(z, NewPath(p, FALSE))

(* Building a path may be refused, too. *)
HostPathRefused(p) ==
    /\ stack = <<>> /\ calls < MaxCalls
    /\ p \in Providers \ declined
    /\ declined' = declined \cup {p}
    /\ refused' = refused \cup {p}
    /\ calls' = calls + 1
    /\ UNCHANGED <<routing, stack, answer, streams, writers, blamed>>

(* The host is closed or connected anew: a new generation. *)
Invalidate ==
    /\ declined # {}
    /\ declined' = {} /\ refused' = {} /\ blamed' = {}
    /\ UNCHANGED <<routing, stack, answer, streams, calls, writers>>

Step ==
    \/ \E supported \in BOOLEAN:
          \/ Pinned(supported)
          \/ \E p \in Providers: Offer(p, supported)
    \/ Readmit \/ Exhausted \/ Connect \/ CallGeneric \/ Resume
    \/ \E r \in Answers: ConnectFails(r) \/ \E mutates \in BOOLEAN: Call(r, mutates)

Next ==
    \/ \E o \in Operations, x, y \in Paths: Begin(o, x, y)
    \/ Step
    \/ \E s \in streams, commits \in BOOLEAN: CloseStream(s, commits)
    \/ \E x, z \in Paths: Derive(x, z) \/ \E p \in Providers: Via(x, z, p)
    \/ \E z \in Paths, p \in Providers: HostPath(z, p)
    \/ \E p \in Providers: HostPathRefused(p)
    \/ Invalidate

Spec == Init /\ [][Next]_vars

-----------------------------------------------------------------------------
Route == [provider: Providers, backend: Providers \cup {Nowhere}, pinned: BOOLEAN]

TypeOK ==
    /\ routing \in [Paths -> Route]
    /\ declined \subseteq Providers
    /\ Len(stack) <= 2
    /\ \A i \in 1 .. Len(stack):
          LET f == stack[i] IN
          /\ f.op \in Operations /\ f.path \in Paths /\ f.target \in Paths
          /\ f.excluded \subseteq Providers /\ f.tried \subseteq Providers
          /\ f.at \in Providers \cup {Nowhere} /\ f.handle \in Providers \cup {Nowhere}
          /\ f.old \in Route
          /\ f.stage \in {"choose", "connect", "call", "inside"}
    /\ answer \in Answers \cup {"none"}
    /\ streams \subseteq Paths \X Providers
    /\ calls \in 0 .. MaxCalls
    /\ writers \in [Paths -> SUBSET Providers]
    /\ refused \subseteq Providers /\ blamed \subseteq Providers

(* All that is ever written through a path, a stream's upload included, is *)
(* written by one backend, the one the path is pinned to from then on      *)
(* (`_adopt`, and what `_dispatch` restores).                              *)
OneWriter ==
    /\ TypeOK
    /\ \A x \in Paths: writers[x] # {} =>
           routing[x].pinned /\ writers[x] = {routing[x].provider}

(* A provider is asked to start an operation of which nothing has been     *)
(* done yet, unless it is a transfer made of other operations.             *)
NoReplay ==
    \A i \in 1 .. Len(stack):
        stack[i].stage = "connect" /\ stack[i].touched => stack[i].op \in Transfers

(* A provider is declined, for every path of the host, only because it     *)
(* refused something itself, or a transfer it carried found nobody to      *)
(* serve the other end.                                                    *)
DeclinedRefused == declined \subseteq refused \cup blamed

(* An operation is carried by one provider, and refusals are taken for     *)
(* what they are: nothing that was begun is offered again, and nobody is   *)
(* declined who did not refuse.                                            *)
RoutingSound == OneWriter /\ NoReplay /\ DeclinedRefused

(* A dispatch offers its operation to a provider at most once, and never   *)
(* to another after one has started it.                                    *)
F == INSTANCE Failover WITH
        Threads <- {"caller"},
        running <- IF stack = <<>> THEN {} ELSE {"caller"},
        offered <- [t \in {"caller"} |->
                       IF stack = <<>> \/ stack[1].at = Nowhere THEN {} ELSE {stack[1].at}],
        tried <- [t \in {"caller"} |-> IF stack = <<>> THEN {} ELSE stack[1].tried]
OfferedOnce == F!Spec
=============================================================================
