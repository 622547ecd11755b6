------------------------- MODULE CompositePathProofs -------------------------
(***************************************************************************)
(* That a path's operations are carried by one provider, that nobody is    *)
(* declined who did not refuse, and that a dispatch implements Failover;   *)
(* that what backends write is written as a whole, and sparing others; and *)
(* that all of them follow links to the same end (Files).                  *)
(***************************************************************************)
EXTENDS Files, SequenceTheorems, TLAPS

(* Everything but the stack is of its kind.                                *)
Kinds ==
    /\ routing \in [Paths -> Route] /\ declined \subseteq Providers
    /\ answer \in Answers \cup {"none"} /\ streams \subseteq Paths \X Providers
    /\ calls \in 0 .. MaxCalls /\ writers \in [Paths -> SUBSET Providers]
    /\ refused \subseteq Providers /\ blamed \subseteq Providers

(* What is written through a path, or will be when a stream is closed, is  *)
(* written by the provider it is pinned to; its backend path is of that.   *)
Agrees(r) == r.backend \in {r.provider, Nowhere}
Ties(r, x, w, s) ==
    /\ Agrees(r[x])
    /\ \A p \in w[x]: r[x].pinned /\ p = r[x].provider
    /\ \A q \in s: q[1] = x => r[x].pinned /\ q[2] = r[x].provider
Tied == \A x \in Paths: Ties(routing, x, writers, streams)

(* Nothing was written through x, nor will be by closing a stream.         *)
Clear(x, w, s) == w[x] = {} /\ \A q \in s: q[1] # x

Frames == [op: Operations, path: Paths, target: Paths, near: BOOLEAN, fixed: BOOLEAN,
           excluded: SUBSET Providers, at: Providers \cup {Nowhere},
           handle: Providers \cup {Nowhere}, old: Route, unable: BOOLEAN,
           tried: SUBSET Providers, stage: {"choose", "connect", "call", "inside"},
           todo: Seq(Operations \X Paths), touched: BOOLEAN]

(* What is left of a generic transfer after its first step, and its second.*)
Left1(f) == IF f.op = "move" THEN <<<<"write", f.target>>, <<"unlink", f.path>>>>
            ELSE <<<<"write", f.target>>>>
Left2(f) == IF f.op = "move" THEN <<<<"unlink", f.path>>>> ELSE <<>>

(* A dispatch taken alone: the provider it is with is the one whose        *)
(* backend will do it, and of a pinned path the only one there is.         *)
Plain(f) ==
    /\ f.op \in Transfers => f.target # f.path
    /\ f.tried \subseteq f.excluded
    /\ f.stage = "choose" => f.at = Nowhere
    /\ f.stage # "choose" => f.at \in f.excluded
    /\ f.stage \in {"call", "inside"} => f.handle = f.at
    /\ f.touched => f.op \in Transfers
    /\ f.stage # "choose" => /\ f.old.pinned <=> f.fixed
                             /\ f.fixed => f.old.provider = f.at
                             /\ Agrees(f.old)
    /\ f.stage = "inside" => f.op \in Transfers

(* A dispatch and the routing of its path, which it has pinned or will     *)
(* restore.                                                                *)
Holds(f, r) ==
    /\ f.stage = "choose" => (r[f.path].pinned <=> f.fixed)
    /\ f.stage = "connect" \/ (f.stage = "call" /\ ~Pins(f.op)) => r[f.path] = f.old
    /\ f.stage \in {"call", "inside"} /\ Pins(f.op) =>
           r[f.path].pinned /\ r[f.path].provider = f.at

(* The dispatch that a transfer makes, and what that leaves for later.     *)
Makes(f, g) ==
    \/ g.op = "rename" /\ g.path = f.path /\ f.op = "move" /\ f.todo = Generic(f)
    \/ g.op = "read" /\ g.path = f.path /\ f.todo = Left1(f)
    \/ g.op = "write" /\ g.path = f.target /\ f.todo = Left2(f)
    \/ g.op = "unlink" /\ g.path = f.path /\ f.op = "move" /\ f.todo = <<>>

(* A transfer between two of its dispatches: what has been written through *)
(* its path was so by the last of them, and nothing else is tried.         *)
Spent(f, a, w, s) ==
    /\ \/ f.todo = Generic(f) /\ f.op = "move"
       \/ f.todo \in {Left1(f), Left2(f), <<>>}
    /\ ~f.fixed /\ ~Clear(f.path, w, s) =>
           /\ a # "not started"
           /\ a = "ok" => f.todo = <<>> \/ Renaming(f)
           /\ a = "not implemented" => ~Renaming(f)

Stacked ==
    /\ stack \in Seq(Frames) /\ Len(stack) <= 2
    /\ \A i \in 1 .. Len(stack): Plain(stack[i]) /\ Holds(stack[i], routing)

Ordered ==
    /\ \A i \in 1 .. Len(stack): stack[i].stage # "inside" /\ ~stack[i].fixed =>
           Clear(stack[i].path, writers, streams)
    /\ Len(stack) = 2 =>
           /\ stack[1].stage = "inside" /\ stack[2].stage # "inside"
           /\ Makes(stack[1], stack[2])
           /\ ~stack[1].fixed => Clear(stack[1].path, writers, streams)
           /\ stack[2].path = stack[1].path => stack[2].fixed
    /\ Len(stack) = 1 /\ stack[1].stage = "inside" => Spent(stack[1], answer, writers, streams)

RoutingInv == Kinds /\ Tied /\ Stacked /\ Ordered /\ DeclinedRefused

-----------------------------------------------------------------------------
(* What the operators on frames, on routings and on the stack make.        *)

(* A frame that is changed in some of its fields. *)
Tried(f, p, r) == [f EXCEPT !.at = p, !.old = r, !.stage = "connect", !.excluded = @ \cup {p}]

LEMMA TryIs ==
  ASSUME NEW f \in Frames, NEW p \in Providers, NEW r \in Route
  PROVE  /\ Tried(f, p, r) \in Frames /\ Tried(f, p, r).op = f.op
         /\ Tried(f, p, r).path = f.path /\ Tried(f, p, r).target = f.target
         /\ Tried(f, p, r).fixed = f.fixed
         /\ Tried(f, p, r).excluded = f.excluded \cup {p} /\ Tried(f, p, r).at = p
         /\ Tried(f, p, r).old = r /\ Tried(f, p, r).tried = f.tried
         /\ Tried(f, p, r).stage = "connect" /\ Tried(f, p, r).touched = f.touched
BY DEF Frames, Tried

Skipped(f, p) == [f EXCEPT !.excluded = @ \cup {p}]

LEMMA SkipIs ==
  ASSUME NEW f \in Frames, NEW p \in Providers
  PROVE  /\ Skipped(f, p) \in Frames /\ Skipped(f, p).op = f.op
         /\ Skipped(f, p).path = f.path /\ Skipped(f, p).target = f.target
         /\ Skipped(f, p).fixed = f.fixed
         /\ Skipped(f, p).excluded = f.excluded \cup {p} /\ Skipped(f, p).at = f.at
         /\ Skipped(f, p).tried = f.tried /\ Skipped(f, p).stage = f.stage
         /\ Skipped(f, p).touched = f.touched
BY DEF Frames, Skipped

Connected(f, p) == [f EXCEPT !.handle = p, !.stage = "call"]

LEMMA ConnectIs ==
  ASSUME NEW f \in Frames, NEW p \in Providers
  PROVE  /\ Connected(f, p) \in Frames /\ Connected(f, p).op = f.op
         /\ Connected(f, p).path = f.path /\ Connected(f, p).target = f.target
         /\ Connected(f, p).fixed = f.fixed /\ Connected(f, p).excluded = f.excluded
         /\ Connected(f, p).at = f.at /\ Connected(f, p).handle = p
         /\ Connected(f, p).old = f.old /\ Connected(f, p).tried = f.tried
         /\ Connected(f, p).stage = "call" /\ Connected(f, p).touched = f.touched
BY DEF Frames, Connected

Retried(f, b) == [f EXCEPT !.tried = @ \cup {f.at}, !.at = Nowhere, !.handle = Nowhere,
                           !.todo = <<>>, !.stage = "choose", !.unable = @ \/ b]

LEMMA RetryIs ==
  ASSUME NEW f \in Frames, f.at \in Providers, NEW b \in BOOLEAN
  PROVE  /\ Retried(f, b) \in Frames /\ Retried(f, b).op = f.op /\ Retried(f, b).path = f.path
         /\ Retried(f, b).target = f.target /\ Retried(f, b).fixed = f.fixed
         /\ Retried(f, b).excluded = f.excluded /\ Retried(f, b).at = Nowhere
         /\ Retried(f, b).tried = f.tried \cup {f.at} /\ Retried(f, b).stage = "choose"
         /\ Retried(f, b).touched = f.touched
<1>1. <<>> \in Seq(Operations \X Paths)
  OBVIOUS
<1> QED
  BY <1>1 DEF Frames, Retried

Making(f, todo) == [f EXCEPT !.stage = "inside", !.todo = todo]

LEMMA InsideIs ==
  ASSUME NEW f \in Frames, NEW todo \in Seq(Operations \X Paths)
  PROVE  /\ Making(f, todo) \in Frames /\ Making(f, todo).op = f.op
         /\ Making(f, todo).path = f.path /\ Making(f, todo).target = f.target
         /\ Making(f, todo).fixed = f.fixed /\ Making(f, todo).excluded = f.excluded
         /\ Making(f, todo).at = f.at /\ Making(f, todo).handle = f.handle
         /\ Making(f, todo).old = f.old /\ Making(f, todo).tried = f.tried
         /\ Making(f, todo).stage = "inside" /\ Making(f, todo).touched = f.touched
         /\ Making(f, todo).todo = todo
BY DEF Frames, Making

Marked(f) == [f EXCEPT !.touched = TRUE]

LEMMA TouchIs ==
  ASSUME NEW f \in Frames
  PROVE  /\ Marked(f) \in Frames /\ Marked(f).op = f.op /\ Marked(f).path = f.path
         /\ Marked(f).target = f.target /\ Marked(f).fixed = f.fixed
         /\ Marked(f).excluded = f.excluded /\ Marked(f).at = f.at
         /\ Marked(f).handle = f.handle /\ Marked(f).old = f.old
         /\ Marked(f).tried = f.tried /\ Marked(f).stage = f.stage
         /\ Marked(f).todo = f.todo
         /\ Marked(f).touched
BY DEF Frames, Marked

(* The frame of a new dispatch. *)
LEMMA FrameIs ==
  ASSUME Kinds, NEW o \in Operations, NEW x \in Paths, NEW y \in Paths
  PROVE  /\ Frame(o, x, y) \in Frames /\ Frame(o, x, y).op = o /\ Frame(o, x, y).path = x
         /\ Frame(o, x, y).target = y /\ Frame(o, x, y).fixed = routing[x].pinned
         /\ Frame(o, x, y).excluded = {} /\ Frame(o, x, y).at = Nowhere
         /\ Frame(o, x, y).tried = {} /\ Frame(o, x, y).stage = "choose"
         /\ ~Frame(o, x, y).touched
<1>1. ResolvesOn(y, routing[x].provider) \in BOOLEAN
  BY DEF ResolvesOn
<1>2. routing[x] \in Route /\ routing[x].pinned \in BOOLEAN
  BY DEF Kinds, Route
<1>3. <<>> \in Seq(Operations \X Paths)
  OBVIOUS
<1> QED
  BY <1>1, <1>2, <1>3 DEF Frame, Frames

(* What is left of a transfer. *)
LEMMA LeftIs ==
  ASSUME NEW f \in Frames
  PROVE  /\ Generic(f) \in Seq(Operations \X Paths) /\ Left1(f) \in Seq(Operations \X Paths)
         /\ Left2(f) \in Seq(Operations \X Paths) /\ <<>> \in Seq(Operations \X Paths)
         /\ Generic(f)[1] = <<"read", f.path>> /\ Tail(Generic(f)) = Left1(f)
         /\ Left1(f)[1] = <<"write", f.target>> /\ Tail(Left1(f)) = Left2(f)
         /\ f.op = "move" => Left2(f)[1] = <<"unlink", f.path>> /\ Tail(Left2(f)) = <<>>
         /\ f.op # "move" => Left2(f) = <<>>
         /\ Generic(f) \notin {Left1(f), Left2(f), <<>>}
<1> DEFINE Items == Operations \X Paths
           a == <<"read", f.path>>
           b == <<"write", f.target>>
           c == <<"unlink", f.path>>
<1>1. a \in Items /\ b \in Items /\ c \in Items
  BY DEF Frames, Operations
<1> HIDE DEF a, b, c
<1>2. Generic(f) = IF f.op = "move" THEN <<a, b, c>> ELSE <<a, b>>
  <2>1. <<a, b>> \in Seq(Items) /\ <<c>> \in Seq(Items) /\ <<>> \in Seq(Items)
        /\ <<a, b, c>> \in Seq(Items)
    BY <1>1
  <2>2. <<a, b>> \o <<c>> = <<a, b, c>>
    <3> DEFINE z == <<a, b>> \o <<c>>
    <3>1. z \in Seq(Items) /\ Len(z) = 3
      BY <2>1, ConcatProperties
    <3>2. z[1] = a /\ z[2] = b /\ z[3] = c
      BY <2>1
    <3> HIDE DEF z
    <3>3. \A i \in 1 .. Len(z): z[i] = <<a, b, c>>[i]
      BY <3>1, <3>2
    <3>4. z = <<a, b, c>>
      BY <2>1, <3>1, <3>3, SeqEqual
    <3> QED
      BY <3>4 DEF z
  <2>3. <<a, b>> \o <<>> = <<a, b>>
    BY <2>1, ConcatEmptySeq
  <2> QED
    BY <2>2, <2>3 DEF Generic, a, b, c
<1>3. Left1(f) = IF f.op = "move" THEN <<b, c>> ELSE <<b>>
  BY DEF Left1, b, c
<1>4. Left2(f) = IF f.op = "move" THEN <<c>> ELSE <<>>
  BY DEF Left2, c
<1> HIDE DEF Items
<1>5. CASE f.op = "move"
  BY <1>1, <1>2, <1>3, <1>4, <1>5 DEF a, b, c, Items
<1>6. CASE f.op # "move"
  BY <1>1, <1>2, <1>3, <1>4, <1>6 DEF a, b, c, Items
<1> QED
  BY <1>5, <1>6

LEMMA RenameFirst ==
  ASSUME NEW f \in Frames
  PROVE  LET s == <<<<"rename", f.path>>>> \o Generic(f)
         IN  s \in Seq(Operations \X Paths) /\ s[1] = <<"rename", f.path>> /\ Tail(s) = Generic(f)
<1> DEFINE a == <<"rename", f.path>>
<1>1. a \in Operations \X Paths
  BY DEF Frames, Operations
<1>2. Generic(f) \in Seq(Operations \X Paths)
  BY LeftIs
<1> HIDE DEF a
<1>3. /\ <<a>> \o Generic(f) \in Seq(Operations \X Paths) /\ (<<a>> \o Generic(f))[1] = a
      /\ Tail(<<a>> \o Generic(f)) = Generic(f)
  BY <1>1, <1>2
<1> QED
  BY <1>3 DEF a

(* The stack with its last frame replaced, taken off, or replaced by two.  *)
Tops(z, s, g) ==
    /\ z \in Seq(Frames) /\ Len(z) = Len(s) /\ z[Len(s)] = g
    /\ \A i \in 1 .. Len(s) - 1: z[i] = s[i]

LEMMA ReplacedIs ==
  ASSUME NEW s \in Seq(Frames), s # <<>>, NEW g \in Frames
  PROVE  Tops([s EXCEPT ![Len(s)] = g], s, g)
BY DEF Tops

LEMMA FrontIs ==
  ASSUME NEW s \in Seq(Frames), s # <<>>
  PROVE  /\ Front(s) \in Seq(Frames) /\ Len(Front(s)) = Len(s) - 1
         /\ \A i \in 1 .. Len(s) - 1: Front(s)[i] = s[i]
BY DEF Front

LEMMA RenewedIs ==
  ASSUME NEW s \in Seq(Frames), s # <<>>, NEW g \in Frames
  PROVE  Tops(Append(Front(s), g), s, g)
<1> DEFINE y == Front(s)
           z == Append(y, g)
<1>1. y \in Seq(Frames) /\ Len(y) = Len(s) - 1 /\ \A i \in 1 .. Len(s) - 1: y[i] = s[i]
  BY FrontIs
<1>2. Len(s) \in Nat /\ Len(s) # 0
  OBVIOUS
<1> HIDE DEF y
<1>3. /\ z \in Seq(Frames) /\ Len(z) = Len(y) + 1 /\ z[Len(y) + 1] = g
      /\ \A i \in 1 .. Len(y): z[i] = y[i]
  BY <1>1, AppendProperties
<1> HIDE DEF z
<1>4. Len(y) + 1 = Len(s)
  BY <1>1, <1>2
<1>5. Tops(z, s, g)
  BY <1>1, <1>3, <1>4 DEF Tops
<1> QED
  BY <1>5 DEF y, z

LEMMA AppendIs ==
  ASSUME NEW s \in Seq(Frames), Len(s) = 1, NEW g \in Frames
  PROVE  /\ Append(s, g) \in Seq(Frames) /\ Len(Append(s, g)) = 2
         /\ Append(s, g)[1] = s[1] /\ Append(s, g)[2] = g
<1>1. Append(s, g) \in Seq(Frames)
  BY AppendProperties
<1>2. Len(Append(s, g)) = Len(s) + 1
  BY AppendProperties
<1>3. \A i \in 1 .. Len(s): Append(s, g)[i] = s[i]
  BY AppendProperties
<1>4. Append(s, g)[Len(s) + 1] = g
  BY AppendProperties
<1>5. Append(s, g)[1] = s[1]
  BY <1>3
<1>6. Append(s, g)[2] = g
  BY <1>4
<1> QED
  BY <1>1, <1>2, <1>5, <1>6

Pushed(s, f, g) == Append([s EXCEPT ![Len(s)] = f], g)

LEMMA PushedIs ==
  ASSUME NEW s \in Seq(Frames), Len(s) = 1, NEW f \in Frames, NEW g \in Frames
  PROVE  /\ Pushed(s, f, g) \in Seq(Frames) /\ Len(Pushed(s, f, g)) = 2
         /\ Pushed(s, f, g)[1] = f /\ Pushed(s, f, g)[2] = g
<1> DEFINE y == [s EXCEPT ![Len(s)] = f]
<1>1. y \in Seq(Frames) /\ Len(y) = 1 /\ y[1] = f
  BY ExceptSeq
<1> HIDE DEF y
<1>2. /\ Append(y, g) \in Seq(Frames) /\ Len(Append(y, g)) = 2
      /\ Append(y, g)[1] = f /\ Append(y, g)[2] = g
  BY <1>1, AppendIs
<1> QED
  BY <1>2 DEF Pushed, y

LEMMA TouchedIs ==
  ASSUME NEW s \in Seq(Frames)
  PROVE  /\ Touched(s) \in Seq(Frames) /\ Len(Touched(s)) = Len(s)
         /\ \A i \in 1 .. Len(s): Touched(s)[i] = Marked(s[i])
<1>1. ASSUME NEW i \in 1 .. Len(s) PROVE Marked(s[i]) \in Frames
  <2>1. s[i] \in Frames
    OBVIOUS
  <2> QED
    BY <2>1, TouchIs
<1>2. DOMAIN s = 1 .. Len(s)
  OBVIOUS
<1> QED
  BY <1>1, <1>2 DEF Touched, Marked

-----------------------------------------------------------------------------
(* The frames of the stack.                                                *)
LEMMA NowhereIs == Nowhere \notin Providers
BY PathAssumption

LEMMA TwoAtMost ==
  ASSUME NEW n \in Nat, n # 0, n <= 2
  PROVE  n \in {1, 2}
OBVIOUS

LEMMA Places ==
  ASSUME NEW s \in Seq(Frames)
  PROVE  /\ Len(s) \in Nat
         /\ Len(s) = 0 => \A i \in 1 .. Len(s): FALSE
         /\ Len(s) = 1 => (1 \in 1 .. Len(s) /\ \A i \in 1 .. Len(s): i = 1)
         /\ Len(s) = 2 => /\ 1 \in 1 .. Len(s) /\ 2 \in 1 .. Len(s)
                          /\ 1 \in 1 .. Len(s) - 1
                          /\ \A i \in 1 .. Len(s): i = 1 \/ i = 2
         /\ s # <<>> <=> Len(s) # 0
         /\ \A i \in 1 .. Len(s): s[i] \in Frames
<1>1. \A i \in 1 .. Len(s): s[i] \in Frames
  OBVIOUS
<1>2. s # <<>> <=> Len(s) # 0
  OBVIOUS
<1> DEFINE n == Len(s)
<1>3. n \in Nat
  OBVIOUS
<1> HIDE DEF n
<1>4. /\ n = 0 => \A i \in 1 .. n: FALSE
      /\ n = 1 => (1 \in 1 .. n /\ \A i \in 1 .. n: i = 1)
      /\ n = 2 => /\ 1 \in 1 .. n /\ 2 \in 1 .. n /\ 1 \in 1 .. n - 1
                  /\ \A i \in 1 .. n: i = 1 \/ i = 2
  BY <1>3
<1> QED
  BY <1>1, <1>2, <1>3, <1>4 DEF n

LEMMA PopsOne ==
  ASSUME NEW s \in Seq(Frames), Len(s) = 1
  PROVE  Front(s) \in Seq(Frames) /\ Len(Front(s)) = 0 /\ \A i \in 1 .. Len(Front(s)): FALSE
<1>1. s # <<>>
  BY Places
<1>2. Front(s) \in Seq(Frames) /\ Len(Front(s)) = Len(s) - 1
  BY <1>1, FrontIs
<1>3. Len(Front(s)) = 0
  BY <1>2
<1> QED
  BY <1>2, <1>3, Places

LEMMA PopsTwo ==
  ASSUME NEW s \in Seq(Frames), Len(s) = 2
  PROVE  /\ Front(s) \in Seq(Frames) /\ Len(Front(s)) = 1 /\ Front(s)[1] = s[1]
         /\ \A i \in 1 .. Len(Front(s)): i = 1
<1>1. s # <<>> /\ 1 \in 1 .. Len(s) - 1
  BY Places
<1>2. /\ Front(s) \in Seq(Frames) /\ Len(Front(s)) = Len(s) - 1
      /\ \A i \in 1 .. Len(s) - 1: Front(s)[i] = s[i]
  BY <1>1, FrontIs
<1>3. Len(Front(s)) = 1
  BY <1>2
<1>4. Front(s)[1] = s[1]
  BY <1>1, <1>2
<1> QED
  BY <1>2, <1>3, <1>4, Places

LEMMA AnswerIs ==
  ASSUME NEW s, NEW r, Answer(s, r)
  PROVE  /\ stack' = Front(s)
         /\ Len(s) = 1 => answer' = "none"
         /\ Len(s) = 2 => answer' = r
BY DEF Answer

LEMMA FrameAt ==
  ASSUME Stacked, NEW i \in 1 .. Len(stack)
  PROVE  stack[i] \in Frames /\ Plain(stack[i]) /\ Holds(stack[i], routing)
BY DEF Stacked

LEMMA TopIs ==
  ASSUME Stacked, stack # <<>>
  PROVE  /\ Len(stack) \in {1, 2} /\ Len(stack) \in 1 .. Len(stack)
         /\ Top \in Frames /\ Plain(Top) /\ Holds(Top, routing)
<1>1. stack \in Seq(Frames) /\ Len(stack) <= 2
  BY DEF Stacked
<1>2. Len(stack) \in Nat /\ Len(stack) # 0
  BY <1>1, Places
<1>3. Len(stack) \in {1, 2}
  BY <1>1, <1>2, TwoAtMost
<1>4. Len(stack) \in 1 .. Len(stack)
  BY <1>1, <1>3, Places
<1> QED
  BY <1>3, <1>4, FrameAt DEF Top

(* The frames that differ in what is mutated for them only.                *)
Alike(g, f) ==
    /\ g.op = f.op /\ g.path = f.path /\ g.target = f.target /\ g.fixed = f.fixed
    /\ g.excluded = f.excluded /\ g.at = f.at /\ g.handle = f.handle /\ g.old = f.old
    /\ g.tried = f.tried /\ g.stage = f.stage /\ g.todo = f.todo

LEMMA AlikePlain ==
  ASSUME NEW f, NEW g, NEW r, Plain(f), Holds(f, r), Alike(g, f),
         g.touched => f.touched \/ f.op \in Transfers
  PROVE  Plain(g) /\ Holds(g, r)
BY DEF Plain, Holds, Alike

LEMMA AlikeLeft ==
  ASSUME NEW f, NEW g, Alike(g, f)
  PROVE  Generic(g) = Generic(f) /\ Left1(g) = Left1(f) /\ Left2(g) = Left2(f)
BY DEF Alike, Generic, Left1, Left2

(* What a step does to the routing of other paths than w, and to that of w *)
(* where w was pinned before.                                              *)
Reroutes(w, fixed) ==
    /\ routing' \in [Paths -> Route] /\ Agrees(routing'[w])
    /\ \A x \in Paths: x # w => routing'[x] = routing[x]
    /\ fixed => routing'[w].pinned /\ routing'[w].provider = routing[w].provider

LEMMA TiedKeeps ==
  ASSUME Tied, NEW w \in Paths, NEW fixed \in BOOLEAN, Reroutes(w, fixed),
         ~fixed => Clear(w, writers, streams), UNCHANGED <<writers, streams>>
  PROVE  Tied'
<1>1. SUFFICES ASSUME NEW x \in Paths PROVE Ties(routing', x, writers, streams)
  BY DEF Tied
<1>2. Ties(routing, x, writers, streams)
  BY DEF Tied
<1>3. CASE x # w
  BY <1>2, <1>3 DEF Reroutes, Ties
<1>4. CASE x = w
  BY <1>2, <1>4 DEF Reroutes, Ties, Clear
<1> QED
  BY <1>3, <1>4

(* The innermost dispatch goes on, without a mutation.                     *)
LEMMA TopChanges ==
  ASSUME Tied, Stacked, Ordered, stack # <<>>, NEW g \in Frames,
         Tops(stack', stack, g),
         g.op = Top.op, g.path = Top.path, g.target = Top.target, g.fixed = Top.fixed,
         Plain(g), Holds(g, routing'), g.stage # "inside",
         Reroutes(Top.path, Top.fixed),
         ~Top.fixed => Clear(Top.path, writers, streams),
         UNCHANGED <<writers, streams>>
  PROVE  Tied' /\ Stacked' /\ Ordered'
<1>1. Len(stack) \in {1, 2} /\ Top \in Frames /\ Top.path \in Paths /\ Top.fixed \in BOOLEAN
  BY TopIs DEF Frames
<1>6. /\ stack' \in Seq(Frames) /\ Len(stack') = Len(stack) /\ stack'[Len(stack)] = g
      /\ \A i \in 1 .. Len(stack) - 1: stack'[i] = stack[i]
  BY DEF Tops
<1>2. Tied'
  BY <1>1, TiedKeeps
<1>3. ASSUME Len(stack) = 2
      PROVE  /\ stack'[1] = stack[1] /\ stack'[2] = g /\ stack[2] = Top
             /\ stack[1].stage = "inside" /\ Makes(stack[1], stack[2])
             /\ ~stack[1].fixed => Clear(stack[1].path, writers, streams)
             /\ stack[2].path = stack[1].path => stack[2].fixed
             /\ Plain(stack[1]) /\ Holds(stack[1], routing) /\ stack[1].path \in Paths
  <2>1. 1 \in 1 .. Len(stack) /\ 1 \in 1 .. Len(stack) - 1
    BY <1>3
  <2>2. stack[1] \in Frames /\ Plain(stack[1]) /\ Holds(stack[1], routing)
    BY <2>1, FrameAt
  <2>3. stack[1].path \in Paths
    BY <2>2 DEF Frames
  <2> QED
    BY <1>3, <1>6, <2>1, <2>2, <2>3 DEF Ordered, Top
<1>4. Stacked'
  <2>1. SUFFICES ASSUME NEW i \in 1 .. Len(stack')
                 PROVE  Plain(stack'[i]) /\ Holds(stack'[i], routing')
    BY <1>1, <1>6 DEF Stacked
  <2>2. CASE i = Len(stack)
    BY <1>6, <2>2
  <2>3. CASE i # Len(stack)
    <3>1. Len(stack) = 2 /\ i = 1
      BY <1>1, <1>6, <2>3
    <3>2. stack[1].path = Top.path => Top.fixed
      BY <1>3, <3>1
    <3>3. Holds(stack[1], routing')
      BY <1>3, <3>1, <3>2 DEF Holds, Reroutes
    <3> QED
      BY <1>3, <3>1, <3>3
  <2> QED
    BY <2>2, <2>3
<1>5. Ordered'
  <2>1. ASSUME NEW i \in 1 .. Len(stack'), stack'[i].stage # "inside" /\ ~stack'[i].fixed
        PROVE  Clear(stack'[i].path, writers', streams')
    <3>1. CASE i = Len(stack)
      BY <1>6, <2>1, <3>1
    <3>2. CASE i # Len(stack)
      <4>1. Len(stack) = 2 /\ i = 1
        BY ONLY <1>1, <1>6, <3>2, i \in 1 .. Len(stack')
      <4> QED
        BY <1>3, <2>1, <4>1
    <3> QED
      BY <3>1, <3>2
  <2>2. ASSUME Len(stack') = 2
        PROVE  /\ stack'[1].stage = "inside" /\ stack'[2].stage # "inside"
               /\ Makes(stack'[1], stack'[2])
               /\ ~stack'[1].fixed => Clear(stack'[1].path, writers', streams')
               /\ stack'[2].path = stack'[1].path => stack'[2].fixed
    BY <1>3, <1>6, <2>2 DEF Makes
  <2>3. ~(Len(stack') = 1 /\ stack'[1].stage = "inside")
    BY <1>6
  <2> QED
    BY <2>1, <2>2, <2>3 DEF Ordered
<1> QED
  BY <1>2, <1>4, <1>5

(* It ends, and the one that made it has its answer.                       *)
LEMMA TopEnds ==
  ASSUME Stacked, Ordered, stack # <<>>, UNCHANGED routing, NEW r,
         NEW s \in Seq(Frames), Len(s) = Len(stack), Answer(s, r),
         \A i \in 1 .. Len(s): Alike(s[i], stack[i]),
         Len(s) = 2 => (s[1].touched => stack[1].op \in Transfers),
         \A x \in Paths: Clear(x, writers, streams) =>
             \/ Clear(x, writers', streams')
             \/ /\ x = Top.path /\ Top.op # "read" /\ r # "not started"
                /\ r = "not implemented" => ~Harmless(Top.op)
  PROVE  Stacked' /\ Ordered'
<1>1. Len(stack) \in {1, 2} /\ stack' = Front(s)
  BY TopIs DEF Answer
<1>2. CASE Len(stack) = 1
  <2>1. stack' \in Seq(Frames) /\ Len(stack') = 0 /\ \A i \in 1 .. Len(stack'): FALSE
    BY <1>1, <1>2, PopsOne
  <2>2. Stacked'
    BY ONLY <2>1 DEF Stacked
  <2>3. Ordered'
    BY ONLY <2>1 DEF Ordered
  <2> QED
    BY <2>2, <2>3
<1>3. CASE Len(stack) = 2
  <2>0. 1 \in 1 .. Len(stack) /\ 2 \in 1 .. Len(stack)
    <3>1. stack \in Seq(Frames)
      BY DEF Stacked
    <3> QED
      BY <1>3, <3>1, Places
  <2>8. /\ stack' \in Seq(Frames) /\ Len(stack') = 1 /\ stack'[1] = s[1]
        /\ \A i \in 1 .. Len(stack'): i = 1
    BY <1>1, <1>3, PopsTwo
  <2>1. Top = stack[2] /\ answer' = r /\ 1 \in 1 .. Len(s)
    <3>1. Top = stack[2]
      BY ONLY <1>3 DEF Top
    <3>2. Len(s) = 2
      BY <1>3
    <3>3. answer' = r
      BY <3>2, AnswerIs
    <3>4. 1 \in 1 .. Len(s)
      BY <3>2, Places
    <3> QED
      BY <3>1, <3>3, <3>4
  <2> DEFINE f == stack[1]
             g == s[1]
  <2>2. f \in Frames /\ g \in Frames /\ Plain(f) /\ Holds(f, routing) /\ Alike(g, f)
    <3>1. s[1] \in Frames
      BY <2>1, Places
    <3> QED
      BY <2>0, <2>1, <3>1, FrameAt
  <2>3. f.path \in Paths /\ f.op \in Operations
    BY <2>2 DEF Frames
  <2>4. /\ f.stage = "inside" /\ f.op \in Transfers /\ Makes(f, Top)
        /\ ~f.fixed => Clear(f.path, writers, streams)
    BY <1>3, <2>1, <2>2 DEF Ordered, Plain
  <2>5. Plain(g) /\ Holds(g, routing')
    <3>1. /\ Plain(f) /\ Holds(f, routing') /\ Alike(g, f)
          /\ g.touched => f.touched \/ f.op \in Transfers
      BY <1>3, <2>2, <2>4
    <3> HIDE DEF f, g
    <3> QED
      BY ONLY <3>1, AlikePlain
  <2>6. Spent(g, r, writers', streams')
    <3>1. /\ Generic(g) = Generic(f) /\ Left1(g) = Left1(f) /\ Left2(g) = Left2(f)
          /\ g.todo = f.todo /\ g.path = f.path /\ g.fixed = f.fixed /\ g.op = f.op
      <4>1. Alike(g, f)
        BY <2>2
      <4> HIDE DEF f, g
      <4>2. Generic(g) = Generic(f) /\ Left1(g) = Left1(f) /\ Left2(g) = Left2(f)
        BY ONLY <4>1, AlikeLeft
      <4>3. g.todo = f.todo /\ g.path = f.path /\ g.fixed = f.fixed /\ g.op = f.op
        BY ONLY <4>1 DEF Alike
      <4> QED
        BY <4>2, <4>3
    <3>2. Generic(f) \notin {Left1(f), Left2(f), <<>>}
      BY <2>2, LeftIs
    <3>3. \/ f.todo = Generic(f) /\ f.op = "move"
          \/ f.todo \in {Left1(f), Left2(f), <<>>}
      BY <2>4 DEF Makes
    <3>4. ASSUME ~f.fixed, ~Clear(f.path, writers', streams')
          PROVE  /\ r # "not started"
                 /\ \/ Top.op = "rename" /\ f.todo = Generic(f) /\ r # "not implemented"
                    \/ Top.op = "unlink" /\ f.todo = <<>>
      <4>1. /\ f.path = Top.path /\ Top.op # "read" /\ r # "not started"
            /\ r = "not implemented" => ~Harmless(Top.op)
        BY <2>3, <2>4, <3>4
      <4>2. f.target # f.path
        BY <2>2, <2>4 DEF Plain
      <4>3. \/ Top.op = "rename" /\ f.todo = Generic(f)
            \/ Top.op = "unlink" /\ f.todo = <<>>
        BY <2>4, <4>1, <4>2 DEF Makes
      <4> QED
        BY <4>1, <4>3 DEF Harmless
    <3>5. ASSUME ~f.fixed, ~Clear(f.path, writers', streams')
          PROVE  /\ r # "not started"
                 /\ r = "ok" => f.todo = <<>> \/ f.todo = Generic(f)
                 /\ r = "not implemented" => f.todo # Generic(f)
      BY <3>2, <3>4, <3>5
    <3> QED
      BY <3>1, <3>3, <3>5 DEF Spent, Renaming
  <2> HIDE DEF f, g
  <2>7. stack'[1] = g /\ g.stage = "inside"
    BY <2>2, <2>4, <2>8 DEF Alike, f, g
  <2>9. Stacked'
    BY ONLY <2>5, <2>7, <2>8 DEF Stacked
  <2>10. Ordered'
    BY ONLY <2>1, <2>6, <2>7, <2>8 DEF Ordered
  <2> QED
    BY <2>9, <2>10
<1> QED
  BY <1>1, <1>2, <1>3

(* Of a path that is not pinned nothing was written. *)
LEMMA UnpinnedClear ==
  ASSUME Tied, NEW x \in Paths, ~routing[x].pinned
  PROVE  Clear(x, writers, streams)
BY DEF Tied, Ties, Clear

(* A new dispatch. *)
LEMMA FreshIs ==
  ASSUME Kinds, Tied, NEW o \in Operations, NEW x \in Paths, NEW y \in Paths,
         o \in Transfers => y # x
  PROVE  /\ Frame(o, x, y) \in Frames /\ Plain(Frame(o, x, y)) /\ Holds(Frame(o, x, y), routing)
         /\ Frame(o, x, y).stage = "choose"
         /\ Frame(o, x, y).op = o /\ Frame(o, x, y).path = x
         /\ Frame(o, x, y).fixed = routing[x].pinned
         /\ ~Frame(o, x, y).fixed => Clear(x, writers, streams)
<1>0. /\ Frame(o, x, y) \in Frames /\ Frame(o, x, y).op = o /\ Frame(o, x, y).path = x
      /\ Frame(o, x, y).target = y /\ Frame(o, x, y).fixed = routing[x].pinned
      /\ Frame(o, x, y).excluded = {} /\ Frame(o, x, y).at = Nowhere
      /\ Frame(o, x, y).tried = {} /\ Frame(o, x, y).stage = "choose"
      /\ ~Frame(o, x, y).touched
  BY FrameIs
<1> DEFINE h == Frame(o, x, y)
<1>1. /\ h \in Frames /\ h.op = o /\ h.path = x /\ h.target = y
      /\ h.fixed = routing[x].pinned /\ h.excluded = {} /\ h.at = Nowhere
      /\ h.tried = {} /\ h.stage = "choose" /\ ~h.touched
  BY <1>0
<1>2. ~routing[x].pinned => Clear(x, writers, streams)
  BY UnpinnedClear
<1> HIDE DEF h
<1>3. Plain(h)
  BY <1>1 DEF Plain
<1>4. Holds(h, routing)
  BY <1>1 DEF Holds
<1> QED
  BY <1>1, <1>2, <1>3, <1>4 DEF h

(* A transfer makes a dispatch of its own. *)
LEMMA TopMakes ==
  ASSUME Stacked, Len(stack) = 1, NEW g \in Frames, NEW h \in Frames,
         stack' = Pushed(stack, g, h),
         Plain(g), Holds(g, routing), g.stage = "inside",
         ~g.fixed => Clear(g.path, writers, streams),
         Plain(h), Holds(h, routing), h.stage = "choose", Makes(g, h),
         h.fixed = routing[h.path].pinned, ~h.fixed => Clear(h.path, writers, streams),
         UNCHANGED <<routing, writers, streams>>
  PROVE  Stacked' /\ Ordered'
<1>1. stack \in Seq(Frames)
  BY DEF Stacked
<1>2. stack' \in Seq(Frames) /\ Len(stack') = 2 /\ stack'[1] = g /\ stack'[2] = h
  BY <1>1, PushedIs
<1>3. \A i \in 1 .. Len(stack'): i = 1 \/ i = 2
  BY <1>2, Places
<1>4. routing' = routing /\ writers' = writers /\ streams' = streams
  OBVIOUS
<1>5. h.path = g.path => h.fixed
  BY DEF Plain, Holds, Pins, Transfers
<1>6. Plain(g) /\ Plain(h) /\ Holds(g, routing) /\ Holds(h, routing)
  OBVIOUS
<1>7. /\ g.stage = "inside" /\ h.stage = "choose" /\ Makes(g, h)
      /\ ~g.fixed => Clear(g.path, writers, streams)
      /\ ~h.fixed => Clear(h.path, writers, streams)
  OBVIOUS
<1>8. Stacked'
  BY ONLY <1>2, <1>3, <1>4, <1>6 DEF Stacked
<1>9. Ordered'
  BY ONLY <1>2, <1>3, <1>4, <1>5, <1>7 DEF Ordered
<1> QED
  BY <1>8, <1>9

(* With no dispatch under way. *)
LEMMA NoStack ==
  ASSUME stack' = <<>>
  PROVE  Stacked' /\ Ordered'
<1>1. stack' \in Seq(Frames) /\ Len(stack') = 0
  OBVIOUS
<1>2. \A i \in 1 .. Len(stack'): FALSE
  BY <1>1, Places
<1> QED
  BY <1>1, <1>2 DEF Stacked, Ordered

LEMMA OneStacked ==
  ASSUME NEW h \in Frames, stack' = <<h>>, Plain(h), Holds(h, routing'), h.stage = "choose",
         ~h.fixed => Clear(h.path, writers', streams')
  PROVE  Stacked' /\ Ordered'
<1>1. stack' \in Seq(Frames) /\ Len(stack') = 1 /\ stack'[1] = h
  OBVIOUS
<1>2. \A i \in 1 .. Len(stack'): i = 1
  BY <1>1, Places
<1> QED
  BY <1>1, <1>2 DEF Stacked, Ordered

(* A refusal that lets the next provider have a go. *)
Retries(r) == r = "not started" \/ (r = "not implemented" /\ RetrySafe(Top.op))

LEMMA CaughtIs ==
  ASSUME NEW s, NEW r, Caught(s, r), Last(s).op = Top.op
  PROVE  /\ ~Retries(r) => Answer(s, r) /\ UNCHANGED <<routing, declined>>
         /\ Retries(r) => /\ Undo(Last(s)) /\ declined' = Decline(Last(s), r)
                          /\ stack' = Append(Front(s), Retried(Last(s), r = "not implemented"))
                          /\ answer' = "none"
BY DEF Caught, Retries, Retried

(* The pin is taken back, where one was made. *)
LEMMA UndoIs ==
  ASSUME Kinds, Stacked, stack # <<>>, Top.stage # "choose", Undo(Top)
  PROVE  routing'[Top.path] = Top.old /\ Reroutes(Top.path, Top.fixed)
<1> DEFINE f == Top
<1>1. f \in Frames /\ Plain(f) /\ Holds(f, routing)
  BY TopIs
<1>2. f.path \in Paths /\ f.old \in Route
  BY <1>1 DEF Frames
<1>3. f.stage \in {"choose", "connect", "call", "inside"}
  BY <1>1 DEF Frames
<1>4. Agrees(f.old) /\ (f.old.pinned <=> f.fixed) /\ (f.fixed => f.old.provider = f.at)
  BY <1>1 DEF Plain
<1>5. /\ Undo(f) /\ f.stage # "choose" /\ routing \in [Paths -> Route]
  BY DEF Kinds
<1> HIDE DEF f
<1>6. CASE Pins(f.op)
  <2>1. routing' = [routing EXCEPT ![f.path] = f.old]
    BY ONLY <1>5, <1>6 DEF Undo
  <2>2. f.fixed => routing[f.path].provider = f.old.provider
    BY ONLY <1>1, <1>3, <1>4, <1>5, <1>6 DEF Holds
  <2> QED
    BY <1>2, <1>4, <1>5, <2>1, <2>2 DEF Reroutes, f
<1>7. CASE ~Pins(f.op)
  <2>1. routing' = routing
    BY ONLY <1>5, <1>7 DEF Undo
  <2>2. f.stage # "inside"
    BY <1>1, <1>7 DEF Plain, Pins, Transfers
  <2>3. routing[f.path] = f.old
    BY ONLY <1>1, <1>3, <1>5, <1>7, <2>2 DEF Holds
  <2> QED
    BY <1>2, <1>4, <1>5, <2>1, <2>3 DEF Reroutes, f
<1> QED
  BY <1>6, <1>7

(* The next provider has a go: nothing was written. *)
LEMMA RetryKeeps ==
  ASSUME Kinds, Tied, Stacked, Ordered, stack # <<>>, Top.stage # "choose",
         Undo(Top), NEW b \in BOOLEAN, stack' = Append(Front(stack), Retried(Top, b)),
         ~Top.fixed => Clear(Top.path, writers, streams),
         UNCHANGED <<writers, streams>>
  PROVE  Tied' /\ Stacked' /\ Ordered' /\ routing' \in [Paths -> Route]
<1> DEFINE f == Top
           g == Retried(f, b)
<1>1. /\ stack \in Seq(Frames) /\ f \in Frames /\ Plain(f)
  BY TopIs DEF Stacked
<1>2. routing'[f.path] = f.old /\ Reroutes(f.path, f.fixed)
  BY UndoIs
<1>3. f.at \in Providers /\ f.at \in f.excluded
  BY <1>1 DEF Plain, Frames
<1>4. /\ g \in Frames /\ g.op = f.op /\ g.path = f.path /\ g.target = f.target
      /\ g.fixed = f.fixed /\ g.excluded = f.excluded /\ g.at = Nowhere
      /\ g.tried = f.tried \cup {f.at} /\ g.stage = "choose" /\ g.touched = f.touched
  BY <1>1, <1>3, RetryIs
<1>5. f.stage # "choose"
  OBVIOUS
<1> HIDE DEF g
<1>6. Plain(g)
  BY ONLY <1>1, <1>3, <1>4 DEF Plain
<1>7. Holds(g, routing')
  BY ONLY <1>1, <1>2, <1>4, <1>5 DEF Holds, Plain
<1>8. Tops(stack', stack, g)
  <2>1. stack' = Append(Front(stack), g) /\ stack # <<>>
    BY DEF g
  <2>2. Tops(Append(Front(stack), g), stack, g)
    BY <1>1, <1>4, RenewedIs
  <2> QED
    BY ONLY <2>1, <2>2
<1>9. routing' \in [Paths -> Route]
  BY <1>2 DEF Reroutes
<1> QED
  BY <1>2, <1>4, <1>6, <1>7, <1>8, <1>9, TopChanges

-----------------------------------------------------------------------------
(* What the steps do, each lemma for those of one kind.                    *)
LEMMA StackKept ==
  ASSUME Tied, Stacked, Ordered, UNCHANGED <<routing, stack, answer, writers, streams>>
  PROVE  Tied' /\ Stacked' /\ Ordered'
<1>1. UNCHANGED routing /\ UNCHANGED stack /\ UNCHANGED answer /\ UNCHANGED writers
      /\ UNCHANGED streams
  OBVIOUS
<1>2. Tied'
  BY <1>1 DEF Tied
<1>3. Stacked'
  BY <1>1 DEF Stacked
<1>4. Ordered'
  BY <1>1 DEF Ordered
<1> QED
  BY <1>2, <1>3, <1>4

LEMMA TopClear ==
  ASSUME Stacked, Ordered, stack # <<>>, Top.stage # "inside", ~Top.fixed
  PROVE  Clear(Top.path, writers, streams)
<1>1. Len(stack) \in 1 .. Len(stack)
  BY TopIs
<1> QED
  BY <1>1 DEF Ordered, Top

LEMMA Agreed ==
  ASSUME Kinds, Tied, NEW x \in Paths
  PROVE  Agrees(routing[x]) /\ routing[x] \in Route
BY DEF Kinds, Tied, Ties

(* A provider is tried. *)
LEMMA TryKeeps ==
  ASSUME Kinds, Tied, Stacked, Ordered, At("choose"), NEW p \in Providers, Try(p),
         Top.fixed => p = routing[Top.path].provider,
         UNCHANGED <<routing, writers, streams>>
  PROVE  Tied' /\ Stacked' /\ Ordered'
<1> DEFINE f == Top
           r == routing[f.path]
           g == Tried(f, p, r)
<1>1. /\ stack # <<>> /\ f.stage = "choose" /\ stack \in Seq(Frames)
      /\ f \in Frames /\ Plain(f) /\ Holds(f, routing)
  BY TopIs DEF At, Stacked
<1>2. f.path \in Paths
  BY <1>1 DEF Frames
<1>3. Agrees(r) /\ r \in Route
  BY <1>2, Agreed
<1>4. stack' = [stack EXCEPT ![Len(stack)] = g]
  BY DEF Try, Replaced, Tried
<1>5. ~f.fixed => Clear(f.path, writers, streams)
  BY <1>1, TopClear
<1>6. f.fixed => p = r.provider
  OBVIOUS
<1>10. routing' = routing /\ routing \in [Paths -> Route]
  BY DEF Kinds
<1> HIDE DEF r
<1>7. /\ g \in Frames /\ g.op = f.op /\ g.path = f.path /\ g.target = f.target
      /\ g.fixed = f.fixed /\ g.excluded = f.excluded \cup {p} /\ g.at = p
      /\ g.old = r /\ g.tried = f.tried /\ g.stage = "connect" /\ g.touched = f.touched
  BY <1>1, <1>3, TryIs
<1>8. Tops(stack', stack, g)
  BY <1>1, <1>4, <1>7, ReplacedIs
<1>9. r = routing[f.path]
  BY DEF r
<1> HIDE DEF f, g
<1>11. Plain(g)
  BY ONLY <1>1, <1>3, <1>6, <1>7, <1>9 DEF Plain, Holds
<1>12. Holds(g, routing')
  BY ONLY <1>7, <1>9, <1>10 DEF Holds
<1>13. Reroutes(f.path, f.fixed)
  BY ONLY <1>1, <1>3, <1>9, <1>10 DEF Reroutes, Holds
<1> QED
  BY <1>1, <1>5, <1>7, <1>8, <1>11, <1>12, <1>13, TopChanges DEF f

(* It is passed over. *)
LEMMA SkipKeeps ==
  ASSUME Kinds, Tied, Stacked, Ordered, At("choose"), NEW p \in Providers,
         stack' = Replaced([Top EXCEPT !.excluded = @ \cup {p}]),
         UNCHANGED <<routing, writers, streams>>
  PROVE  Tied' /\ Stacked' /\ Ordered'
<1> DEFINE f == Top
           g == Skipped(f, p)
<1>1. /\ stack # <<>> /\ f.stage = "choose" /\ stack \in Seq(Frames)
      /\ f \in Frames /\ Plain(f) /\ Holds(f, routing)
  BY TopIs DEF At, Stacked
<1>2. f.path \in Paths
  BY <1>1 DEF Frames
<1>3. Agrees(routing[f.path])
  BY <1>2, Agreed
<1>4. stack' = [stack EXCEPT ![Len(stack)] = g]
  BY DEF Replaced, Skipped
<1>5. ~f.fixed => Clear(f.path, writers, streams)
  BY <1>1, TopClear
<1>6. routing' = routing /\ routing \in [Paths -> Route]
  BY DEF Kinds
<1>7. /\ g \in Frames /\ g.op = f.op /\ g.path = f.path /\ g.target = f.target
      /\ g.fixed = f.fixed /\ g.excluded = f.excluded \cup {p} /\ g.at = f.at
      /\ g.tried = f.tried /\ g.stage = f.stage /\ g.touched = f.touched
  BY <1>1, SkipIs
<1>8. Tops(stack', stack, g)
  BY <1>1, <1>4, <1>7, ReplacedIs
<1> HIDE DEF f, g
<1>9. Plain(g)
  BY ONLY <1>1, <1>7 DEF Plain
<1>10. Holds(g, routing')
  BY ONLY <1>1, <1>6, <1>7 DEF Holds
<1>11. Reroutes(f.path, f.fixed)
  BY ONLY <1>1, <1>3, <1>6 DEF Reroutes, Holds
<1> QED
  BY <1>1, <1>5, <1>7, <1>8, <1>9, <1>10, <1>11, TopChanges DEF f

(* A dispatch ends with nothing mutated. *)
LEMMA EndKeeps ==
  ASSUME Tied, Stacked, Ordered, stack # <<>>, NEW r \in Answers \cup {"none"},
         Answer(stack, r), UNCHANGED <<routing, writers, streams>>
  PROVE  Tied' /\ Stacked' /\ Ordered' /\ answer' \in Answers \cup {"none"}
<1>1. stack \in Seq(Frames) /\ Len(stack) \in {1, 2}
  BY TopIs DEF Stacked
<1>2. \A i \in 1 .. Len(stack): Alike(stack[i], stack[i])
  BY DEF Alike
<1>3. ASSUME Len(stack) = 2, stack[1].touched PROVE stack[1].op \in Transfers
  <2>1. 1 \in 1 .. Len(stack)
    BY <1>1, <1>3, Places
  <2>2. Plain(stack[1])
    BY <2>1, FrameAt
  <2> QED
    BY <1>3, <2>2 DEF Plain
<1>4. \A x \in Paths: Clear(x, writers, streams) => Clear(x, writers', streams')
  OBVIOUS
<1>5. Stacked' /\ Ordered'
  BY <1>1, <1>2, <1>3, <1>4, TopEnds
<1>6. Tied'
  <2>1. UNCHANGED routing /\ UNCHANGED writers /\ UNCHANGED streams
    OBVIOUS
  <2> QED
    BY <2>1 DEF Tied
<1>7. answer' \in Answers \cup {"none"}
  BY DEF Answer
<1> QED
  BY <1>5, <1>6, <1>7

(* What fails before a mutation is caught. *)
LEMMA CatchKeeps ==
  ASSUME Kinds, Tied, Stacked, Ordered, stack # <<>>, Top.stage # "choose",
         NEW r \in Answers \cup {"none"}, Caught(stack, r),
         Retries(r) /\ ~Top.fixed => Clear(Top.path, writers, streams),
         UNCHANGED <<writers, streams>>
  PROVE  /\ Tied' /\ Stacked' /\ Ordered' /\ routing' \in [Paths -> Route]
         /\ answer' \in Answers \cup {"none"}
         /\ declined' \subseteq declined \cup (IF r = "not started" THEN {Top.at} ELSE {})
<1>1. Last(stack) = Top
  BY DEF Last, Top
<1>2. /\ ~Retries(r) => Answer(stack, r) /\ UNCHANGED <<routing, declined>>
      /\ Retries(r) => /\ Undo(Top) /\ declined' = Decline(Top, r)
                       /\ stack' = Append(Front(stack), Retried(Top, r = "not implemented"))
                       /\ answer' = "none"
  BY <1>1, CaughtIs
<1>3. CASE Retries(r)
  <2>1. (r = "not implemented") \in BOOLEAN
    OBVIOUS
  <2>2. Tied' /\ Stacked' /\ Ordered' /\ routing' \in [Paths -> Route]
    BY <1>2, <1>3, <2>1, RetryKeeps
  <2> QED
    BY <1>2, <1>3, <2>2 DEF Decline
<1>4. CASE ~Retries(r)
  <2>1. Tied' /\ Stacked' /\ Ordered' /\ answer' \in Answers \cup {"none"}
    BY <1>2, <1>4, EndKeeps
  <2>2. routing' = routing /\ declined' = declined
    BY <1>2, <1>4
  <2> QED
    BY <2>1, <2>2 DEF Kinds
<1> QED
  BY <1>3, <1>4

(* The handle of a path's provider is its own. *)
LEMMA HandleIs ==
  ASSUME Kinds, Tied, NEW x \in Paths, NEW p
  PROVE  Handle(x, p) = p
<1>1. Agrees(routing[x])
  BY Agreed
<1> QED
  BY <1>1 DEF Handle, Agrees

-----------------------------------------------------------------------------
(* The actions.                                                            *)
LEMMA InitRouting == ASSUME Init PROVE RoutingInv
<1>1. /\ routing \in [Paths -> Route] /\ \A x \in Paths: Agrees(routing[x])
  <2>1. routing \in [Paths -> [provider: Providers, backend: Providers, pinned: {FALSE}]]
        /\ \A x \in Paths: routing[x].backend = routing[x].provider
    BY DEF Init
  <2> QED
    BY <2>1 DEF Route, Agrees
<1>2. /\ declined = {} /\ stack = <<>> /\ answer = "none" /\ streams = {} /\ calls = 0
      /\ writers = [x \in Paths |-> {}] /\ refused = {} /\ blamed = {}
  BY DEF Init
<1>3. Kinds
  BY <1>1, <1>2, PathAssumption DEF Kinds
<1>4. Tied
  BY <1>1, <1>2 DEF Tied, Ties
<1>5. stack \in Seq(Frames) /\ Len(stack) = 0
  BY <1>2
<1>6. \A i \in 1 .. Len(stack): FALSE
  BY <1>5, Places
<1>7. Stacked /\ Ordered
  BY <1>5, <1>6 DEF Stacked, Ordered
<1>8. DeclinedRefused
  BY <1>2 DEF DeclinedRefused
<1> QED
  BY <1>3, <1>4, <1>7, <1>8 DEF RoutingInv

LEMMA BeginRouting ==
  ASSUME RoutingInv, NEW o \in Operations, NEW x \in Paths, NEW y \in Paths, Begin(o, x, y)
  PROVE  RoutingInv'
<1> USE DEF RoutingInv
<1> DEFINE h == Frame(o, x, y)
<1>1. /\ o \in Transfers => y # x
      /\ stack' = <<h>> /\ calls' = calls + 1 /\ calls < MaxCalls
      /\ routing' = routing /\ declined' = declined /\ answer' = answer
      /\ streams' = streams /\ writers' = writers /\ refused' = refused /\ blamed' = blamed
  BY DEF Begin, history
<1>2. /\ h \in Frames /\ Plain(h) /\ Holds(h, routing) /\ h.stage = "choose" /\ h.path = x
      /\ ~h.fixed => Clear(x, writers, streams)
  BY <1>1, FreshIs
<1> HIDE DEF h
<1>3. Stacked' /\ Ordered'
  BY <1>1, <1>2, OneStacked
<1>4. Kinds'
  BY <1>1, PathAssumption DEF Kinds
<1>5. Tied'
  BY <1>1 DEF Tied
<1>6. DeclinedRefused'
  BY <1>1 DEF DeclinedRefused
<1> QED
  BY <1>3, <1>4, <1>5, <1>6

LEMMA PinnedRouting ==
  ASSUME RoutingInv, NEW supported \in BOOLEAN, Pinned(supported)
  PROVE  RoutingInv'
<1> USE DEF RoutingInv
<1>1. /\ At("choose") /\ routing' = routing /\ declined' = declined /\ streams' = streams
      /\ calls' = calls /\ writers' = writers /\ refused' = refused /\ blamed' = blamed
  BY DEF Pinned, history
<1>2. stack # <<>>
  BY <1>1 DEF At
<1>3. Top.path \in Paths
  BY <1>2, TopIs DEF Frames
<1>4. routing[Top.path].provider \in Providers
  BY <1>3 DEF Kinds, Route
<1>5. Tied' /\ Stacked' /\ Ordered' /\ answer' \in Answers \cup {"none"}
  <2>1. CASE supported
    <3>1. Try(routing[Top.path].provider) /\ answer' = answer
      BY <2>1 DEF Pinned
    <3>2. Tied' /\ Stacked' /\ Ordered'
      BY <1>1, <1>4, <3>1, TryKeeps
    <3> QED
      BY <3>1, <3>2 DEF Kinds
  <2>2. CASE ~supported
    <3>1. Answer(stack, "not implemented")
      BY <2>2 DEF Pinned
    <3>2. "not implemented" \in Answers \cup {"none"}
      BY DEF Answers
    <3> QED
      BY <1>1, <1>2, <3>1, <3>2, EndKeeps
  <2> QED
    BY <2>1, <2>2
<1>6. Kinds'
  BY <1>1, <1>5 DEF Kinds
<1>7. DeclinedRefused'
  BY <1>1 DEF DeclinedRefused
<1> QED
  BY <1>5, <1>6, <1>7

LEMMA OfferRouting ==
  ASSUME RoutingInv, NEW p \in Providers, NEW supported \in BOOLEAN, Offer(p, supported)
  PROVE  RoutingInv'
<1> USE DEF RoutingInv
<1>1. /\ At("choose") /\ ~Top.fixed /\ routing' = routing /\ declined' = declined
      /\ answer' = answer /\ streams' = streams
      /\ calls' = calls /\ writers' = writers /\ refused' = refused /\ blamed' = blamed
  BY DEF Offer, history
<1>2. Tied' /\ Stacked' /\ Ordered'
  <2>1. CASE supported
    <3>1. Try(p)
      BY <2>1 DEF Offer
    <3> QED
      BY <1>1, <3>1, TryKeeps
  <2>2. CASE ~supported
    <3>1. stack' = Replaced([Top EXCEPT !.excluded = @ \cup {p}])
      BY <2>2 DEF Offer
    <3> QED
      BY <1>1, <3>1, SkipKeeps
  <2> QED
    BY <2>1, <2>2
<1>3. Kinds'
  BY <1>1 DEF Kinds
<1>4. DeclinedRefused'
  BY <1>1 DEF DeclinedRefused
<1> QED
  BY <1>2, <1>3, <1>4

LEMMA ForgetsRouting ==
  ASSUME RoutingInv, Readmit \/ Invalidate
  PROVE  RoutingInv'
<1> USE DEF RoutingInv
<1>1. /\ routing' = routing /\ stack' = stack /\ answer' = answer /\ streams' = streams
      /\ calls' = calls /\ writers' = writers
      /\ \/ declined' \subseteq declined /\ refused' = refused /\ blamed' = blamed
         \/ declined' = {} /\ refused' = {} /\ blamed' = {}
  BY DEF Readmit, Invalidate, history
<1>2. Tied' /\ Stacked' /\ Ordered'
  BY <1>1, StackKept
<1>3. Kinds'
  BY <1>1 DEF Kinds
<1>4. DeclinedRefused'
  BY <1>1 DEF DeclinedRefused
<1> QED
  BY <1>2, <1>3, <1>4

LEMMA ExhaustedRouting ==
  ASSUME RoutingInv, Exhausted
  PROVE  RoutingInv'
<1> USE DEF RoutingInv
<1> DEFINE r == IF Top.tried = {} \/ Top.unable THEN "not implemented" ELSE "not started"
<1>1. /\ At("choose") /\ Answer(stack, r) /\ routing' = routing /\ declined' = declined
      /\ streams' = streams
      /\ calls' = calls /\ writers' = writers /\ refused' = refused /\ blamed' = blamed
  BY DEF Exhausted, history
<1>2. r \in Answers \cup {"none"}
  BY DEF Answers
<1> HIDE DEF r
<1>3. stack # <<>>
  BY <1>1 DEF At
<1>4. Tied' /\ Stacked' /\ Ordered' /\ answer' \in Answers \cup {"none"}
  BY <1>1, <1>2, <1>3, EndKeeps
<1>5. Kinds'
  BY <1>1, <1>4 DEF Kinds
<1>6. DeclinedRefused'
  BY <1>1 DEF DeclinedRefused
<1> QED
  BY <1>4, <1>5, <1>6

LEMMA ConnectRouting ==
  ASSUME RoutingInv, Connect
  PROVE  RoutingInv'
<1> USE DEF RoutingInv
<1> DEFINE f == Top
           p == f.at
           g == Connected(f, p)
           r == [provider |-> p, backend |-> p, pinned |-> TRUE]
<1>1. /\ stack # <<>> /\ f.stage = "connect" /\ stack \in Seq(Frames)
      /\ f \in Frames /\ Plain(f) /\ Holds(f, routing)
  BY TopIs DEF Connect, At, Stacked
<1>2. f.path \in Paths
  BY <1>1 DEF Frames
<1>3. p \in Providers
  BY <1>1 DEF Frames, Plain
<1>4. Handle(f.path, f.at) = p
  BY <1>2, HandleIs
<1>5. /\ stack' = [stack EXCEPT ![Len(stack)] = g]
      /\ routing' = IF Pins(f.op) THEN [routing EXCEPT ![f.path] = r] ELSE routing
      /\ declined' = declined /\ answer' = answer /\ streams' = streams
      /\ calls' = calls /\ writers' = writers /\ refused' = refused /\ blamed' = blamed
  BY <1>4 DEF Connect, Replaced, Connected, history
<1>6. ~f.fixed => Clear(f.path, writers, streams)
  BY <1>1, TopClear
<1>7. routing \in [Paths -> Route] /\ Agrees(routing[f.path])
  BY <1>2, Agreed DEF Kinds
<1>8. /\ g \in Frames /\ g.op = f.op /\ g.path = f.path /\ g.target = f.target
      /\ g.fixed = f.fixed /\ g.excluded = f.excluded /\ g.at = f.at /\ g.handle = p
      /\ g.old = f.old /\ g.tried = f.tried /\ g.stage = "call" /\ g.touched = f.touched
  BY <1>1, <1>3, ConnectIs
<1>9. Tops(stack', stack, g)
  BY <1>1, <1>5, <1>8, ReplacedIs
<1>10. r \in Route /\ Agrees(r) /\ r.pinned /\ r.provider = p
  BY <1>3 DEF Route, Agrees
<1>11. p = f.at
  OBVIOUS
<1> HIDE DEF f, g, p, r
<1>12. Plain(g)
  BY ONLY <1>1, <1>8, <1>11 DEF Plain
<1>13. Holds(g, routing')
  BY ONLY <1>1, <1>2, <1>5, <1>7, <1>8, <1>10, <1>11 DEF Holds
<1>14. Reroutes(f.path, f.fixed)
  <2>1. f.fixed => f.old.pinned /\ f.old.provider = p /\ routing[f.path] = f.old
    BY ONLY <1>1, <1>11 DEF Plain, Holds
  <2> QED
    BY ONLY <1>2, <1>5, <1>7, <1>10, <2>1 DEF Reroutes
<1>15. Tied' /\ Stacked' /\ Ordered'
  BY <1>1, <1>5, <1>6, <1>8, <1>9, <1>12, <1>13, <1>14, TopChanges DEF f
<1>16. Kinds'
  BY <1>5, <1>14 DEF Kinds, Reroutes
<1>17. DeclinedRefused'
  BY <1>5 DEF DeclinedRefused
<1> QED
  BY <1>15, <1>16, <1>17

LEMMA ConnectFailsRouting ==
  ASSUME RoutingInv, NEW r \in Answers, ConnectFails(r)
  PROVE  RoutingInv'
<1> USE DEF RoutingInv
<1>1. /\ At("connect") /\ Caught(stack, r)
      /\ refused' = (IF r = "not started" THEN refused \cup {Top.at} ELSE refused)
      /\ streams' = streams /\ calls' = calls /\ writers' = writers /\ blamed' = blamed
  BY DEF ConnectFails, Refuses
<1>2. stack # <<>> /\ Top.stage = "connect"
  BY <1>1 DEF At
<1>3. Top.at \in Providers
  BY <1>2, TopIs DEF Frames, Plain
<1>4. ~Top.fixed => Clear(Top.path, writers, streams)
  BY <1>2, TopClear
<1>5. /\ Tied' /\ Stacked' /\ Ordered' /\ routing' \in [Paths -> Route]
      /\ answer' \in Answers \cup {"none"}
      /\ declined' \subseteq declined \cup (IF r = "not started" THEN {Top.at} ELSE {})
  BY <1>1, <1>2, <1>4, CatchKeeps
<1>6. Kinds'
  BY <1>1, <1>3, <1>5 DEF Kinds
<1>7. DeclinedRefused'
  BY <1>1, <1>5 DEF DeclinedRefused
<1> QED
  BY <1>5, <1>6, <1>7

(* What is marked as mutated is otherwise the same. *)
LEMMA MarkedAlike ==
  ASSUME NEW s \in Seq(Frames)
  PROVE  /\ Touched(s) \in Seq(Frames) /\ Len(Touched(s)) = Len(s)
         /\ \A i \in 1 .. Len(s): Alike(Touched(s)[i], s[i])
<1>1. /\ Touched(s) \in Seq(Frames) /\ Len(Touched(s)) = Len(s)
      /\ \A i \in 1 .. Len(s): Touched(s)[i] = Marked(s[i])
  BY TouchedIs
<1>2. ASSUME NEW i \in 1 .. Len(s) PROVE Alike(Touched(s)[i], s[i])
  <2>1. s[i] \in Frames
    OBVIOUS
  <2> QED
    BY <1>1, <2>1, TouchIs DEF Alike
<1> QED
  BY <1>1, <1>2

(* A call of the backend: what it mutates is of the path's own provider.   *)
LEMMA CallRouting ==
  ASSUME RoutingInv, NEW r \in Answers, NEW mutates \in BOOLEAN, Call(r, mutates)
  PROVE  RoutingInv'
<1> USE DEF RoutingInv
<1> DEFINE f == Top
           s == IF mutates THEN Touched(stack) ELSE stack
<1>1. /\ stack # <<>> /\ f.stage = "call" /\ stack \in Seq(Frames)
      /\ f \in Frames /\ Plain(f) /\ Holds(f, routing) /\ Len(stack) \in {1, 2}
  BY TopIs DEF Call, At, Stacked
<1>2. f.path \in Paths /\ f.op \in Operations
  BY <1>1 DEF Frames
<1>3. f.handle = f.at /\ f.at \in Providers
  BY <1>1 DEF Frames, Plain
<1>4. /\ f.op = "read" => ~mutates
      /\ r = "ok" /\ f.op # "read" => mutates
      /\ r = "not started" \/ (r = "not implemented" /\ Harmless(f.op)) => ~mutates
  BY DEF Call, Mutates
<1>5. /\ writers' = (IF mutates THEN [writers EXCEPT ![f.path] = @ \cup {f.at}] ELSE writers)
      /\ refused' = (IF r = "not started" THEN refused \cup {f.at} ELSE refused)
      /\ streams' = (IF f.op = "open" /\ r = "ok" THEN streams \cup {<<f.path, f.at>>}
                                                  ELSE streams)
      /\ Caught(s, r) /\ calls' = calls /\ blamed' = blamed
  BY <1>3 DEF Call, Refuses
<1>6. ~f.fixed => Clear(f.path, writers, streams)
  BY <1>1, TopClear
<1>7. CASE ~mutates
  <2>1. s = stack /\ Caught(stack, r) /\ writers' = writers
    BY <1>5, <1>7
  <2>2. streams' = streams
    BY <1>4, <1>5, <1>7
  <2>3. /\ Tied' /\ Stacked' /\ Ordered' /\ routing' \in [Paths -> Route]
        /\ answer' \in Answers \cup {"none"}
        /\ declined' \subseteq declined \cup (IF r = "not started" THEN {f.at} ELSE {})
    BY <1>1, <1>6, <2>1, <2>2, CatchKeeps
  <2>4. Kinds'
    BY <1>3, <1>5, <2>1, <2>2, <2>3 DEF Kinds
  <2>5. DeclinedRefused'
    BY <1>5, <2>3 DEF DeclinedRefused
  <2> QED
    BY <2>3, <2>4, <2>5
<1>8. CASE mutates
  <2>1. s = Touched(stack) /\ Caught(Touched(stack), r)
    BY <1>5, <1>8
  <2>2. /\ Touched(stack) \in Seq(Frames) /\ Len(Touched(stack)) = Len(stack)
        /\ \A i \in 1 .. Len(stack): Alike(Touched(stack)[i], stack[i])
    BY <1>1, MarkedAlike
  <2>4. Last(Touched(stack)).op = f.op
    <3>1. Len(stack) \in 1 .. Len(stack)
      BY <1>1, TopIs
    <3>2. Alike(Touched(stack)[Len(stack)], stack[Len(stack)])
      BY <2>2, <3>1
    <3>3. Last(Touched(stack)) = Touched(stack)[Len(stack)]
      BY <2>2 DEF Last
    <3> QED
      BY <3>2, <3>3 DEF Alike, Top
  <2>5. f.op # "read" /\ r # "not started" /\ (r = "not implemented" => ~Harmless(f.op))
    BY <1>4, <1>8
  <2>6. ~Retries(r)
    BY <2>5 DEF Retries, RetrySafe, Harmless
  <2>7. Answer(Touched(stack), r) /\ routing' = routing /\ declined' = declined
    BY <2>1, <2>4, <2>6, CaughtIs
  <2>16. ASSUME NEW q \in streams' PROVE q \in streams \/ (q[1] = f.path /\ q[2] = f.at)
    <3>1. q \in streams \/ q = <<f.path, f.at>>
      BY ONLY <1>5, <2>16
    <3> QED
      BY ONLY <3>1
  <2>17. /\ writers' = [writers EXCEPT ![f.path] = writers[f.path] \cup {f.at}]
         /\ writers \in [Paths -> SUBSET Providers]
    BY <1>5, <1>8 DEF Kinds
  <2>8. \A x \in Paths: Clear(x, writers, streams) =>
            Clear(x, writers', streams') \/ x = f.path
    BY ONLY <2>16, <2>17 DEF Clear
  <2>9. ASSUME Len(stack) = 2 PROVE stack[1].op \in Transfers
    <3>1. 1 \in 1 .. Len(stack)
      BY <1>1, <2>9, Places
    <3>2. Plain(stack[1])
      BY <3>1, FrameAt
    <3>3. stack[1].stage = "inside"
      BY <2>9 DEF Ordered
    <3> QED
      BY <3>2, <3>3 DEF Plain
  <2>10. Stacked' /\ Ordered'
    BY <1>1, <2>2, <2>5, <2>7, <2>8, <2>9, TopEnds
  <2>11. routing[f.path].pinned /\ routing[f.path].provider = f.at
    BY ONLY <1>1, <2>5 DEF Holds, Pins
  <2>12. Tied'
    <3>1. SUFFICES ASSUME NEW x \in Paths PROVE Ties(routing, x, writers', streams')
      BY <2>7 DEF Tied
    <3>2. Ties(routing, x, writers, streams)
      BY DEF Tied
    <3>3. \A q \in streams': q \in streams \/ (q[1] = f.path /\ q[2] = f.at)
      BY ONLY <2>16
    <3>4. \A p \in writers'[x]: p \in writers[x] \/ (x = f.path /\ p = f.at)
      BY ONLY <1>2, <2>17
    <3> QED
      BY <2>11, <3>2, <3>3, <3>4 DEF Ties
  <2>13. answer' \in Answers \cup {"none"}
    BY <2>7 DEF Answer
  <2>14. Kinds'
    <3>1. writers' \in [Paths -> SUBSET Providers] /\ streams' \subseteq Paths \X Providers
      <4>1. <<f.path, f.at>> \in Paths \X Providers /\ streams \subseteq Paths \X Providers
        BY <1>2, <1>3 DEF Kinds
      <4>2. streams' \subseteq streams \cup {<<f.path, f.at>>}
        BY ONLY <1>5
      <4>3. streams' \subseteq Paths \X Providers
        BY ONLY <4>1, <4>2
      <4>4. writers' \in [Paths -> SUBSET Providers]
        BY ONLY <1>2, <1>3, <2>17
      <4> QED
        BY <4>3, <4>4
    <3>2. refused' \subseteq Providers
      BY <1>3, <1>5 DEF Kinds
    <3> QED
      BY <1>5, <2>7, <2>13, <3>1, <3>2 DEF Kinds
  <2>15. DeclinedRefused'
    BY <1>5, <2>7 DEF DeclinedRefused
  <2> QED
    BY <2>10, <2>12, <2>14, <2>15
<1> QED
  BY <1>7, <1>8

(* A transfer makes its next dispatch: a step of those that are left.      *)
LEMMA NextMakes ==
  ASSUME Kinds, Tied, Stacked, Ordered, Len(stack) = 1, NEW todo \in Seq(Operations \X Paths),
         NEW o \in Operations, NEW x \in Paths, NEW y \in Paths,
         stack' = Pushed(stack, Making(Top, todo), Frame(o, x, y)),
         o \notin Transfers, Top.op \in Transfers, Top.stage \in {"call", "inside"},
         \/ o = "rename" /\ x = Top.path /\ Top.op = "move" /\ todo = Generic(Top)
         \/ o = "read" /\ x = Top.path /\ todo = Left1(Top)
         \/ o = "write" /\ x = Top.target /\ todo = Left2(Top)
         \/ o = "unlink" /\ x = Top.path /\ Top.op = "move" /\ todo = <<>>,
         ~Top.fixed => Clear(Top.path, writers, streams),
         UNCHANGED <<routing, writers, streams>>
  PROVE  Tied' /\ Stacked' /\ Ordered'
<1> DEFINE f == Top
           g == Making(f, todo)
           h == Frame(o, x, y)
<1>1. f \in Frames /\ Plain(f) /\ Holds(f, routing) /\ stack \in Seq(Frames) /\ stack # <<>>
  <2>1. stack # <<>>
    BY Places DEF Stacked
  <2> QED
    BY <2>1, TopIs DEF Stacked
<1>2. /\ g \in Frames /\ g.op = f.op /\ g.path = f.path /\ g.target = f.target
      /\ g.fixed = f.fixed /\ g.excluded = f.excluded /\ g.at = f.at
      /\ g.handle = f.handle /\ g.old = f.old
      /\ g.tried = f.tried /\ g.stage = "inside" /\ g.touched = f.touched /\ g.todo = todo
  BY <1>1, InsideIs
<1>3. /\ h \in Frames /\ Plain(h) /\ Holds(h, routing) /\ h.stage = "choose"
      /\ h.op = o /\ h.path = x /\ h.fixed = routing[x].pinned
      /\ ~h.fixed => Clear(x, writers, streams)
  BY FreshIs
<1>4. f.op \in Transfers /\ f.stage \in {"call", "inside"}
  OBVIOUS
<1>5. /\ \/ o = "rename" /\ x = f.path /\ f.op = "move" /\ todo = Generic(f)
         \/ o = "read" /\ x = f.path /\ todo = Left1(f)
         \/ o = "write" /\ x = f.target /\ todo = Left2(f)
         \/ o = "unlink" /\ x = f.path /\ f.op = "move" /\ todo = <<>>
      /\ stack' = Pushed(stack, g, h)
      /\ ~f.fixed => Clear(f.path, writers, streams)
  OBVIOUS
<1> HIDE DEF f, g, h
<1>6. Plain(g)
  BY ONLY <1>1, <1>2, <1>4 DEF Plain
<1>7. Holds(g, routing)
  BY ONLY <1>1, <1>2, <1>4 DEF Holds, Pins, Transfers
<1>8. Generic(g) = Generic(f) /\ Left1(g) = Left1(f) /\ Left2(g) = Left2(f)
  BY ONLY <1>2 DEF Generic, Left1, Left2
<1>9. Makes(g, h)
  BY ONLY <1>2, <1>3, <1>5, <1>8 DEF Makes
<1>10. Stacked' /\ Ordered'
  BY <1>1, <1>2, <1>3, <1>5, <1>6, <1>7, <1>9, TopMakes
<1>11. Tied'
  <2>1. UNCHANGED routing /\ UNCHANGED writers /\ UNCHANGED streams
    OBVIOUS
  <2> QED
    BY <2>1 DEF Tied
<1> QED
  BY <1>10, <1>11

(* Only a transfer makes dispatches, and what it makes is none. *)
LEMMA OneBelow ==
  ASSUME Stacked, Ordered, stack # <<>>, Top.op \in Transfers \/ Top.stage = "inside"
  PROVE  Len(stack) = 1 /\ Top = stack[1]
<1>1. Len(stack) \in {1, 2}
  BY TopIs
<1>2. ASSUME Len(stack) = 2 PROVE FALSE
  <2>1. Makes(stack[1], stack[2]) /\ stack[2].stage # "inside" /\ Top = stack[2]
    BY <1>2 DEF Ordered, Top
  <2>2. stack[2].op \notin Transfers
    BY <2>1 DEF Makes, Transfers
  <2> QED
    BY <2>1, <2>2
<1> QED
  BY <1>1, <1>2 DEF Top

LEMMA PushIs ==
  ASSUME NEW f \in Frames, NEW s \in Seq(Operations \X Paths), NEW o, NEW x, s[1] = <<o, x>>,
         NEW g, g = [f EXCEPT !.todo = s], Push(g)
  PROVE  stack' = Pushed(stack, Making(f, Tail(s)),
                         Frame(o, x, IF o = "rename" THEN f.target ELSE x))
<1>1. g.todo = s /\ g.target = f.target
  BY DEF Frames
<1>2. s[1][1] = o /\ s[1][2] = x
  OBVIOUS
<1>3. [g EXCEPT !.stage = "inside", !.todo = Tail(@)] = Making(f, Tail(s))
  BY DEF Frames, Making
<1>4. stack' = Append([stack EXCEPT ![Len(stack)] = [g EXCEPT !.stage = "inside", !.todo = Tail(@)]],
                      Frame(g.todo[1][1], g.todo[1][2],
                            IF g.todo[1][1] = "rename" THEN g.target ELSE g.todo[1][2]))
  BY DEF Push, Replaced
<1> QED
  BY <1>1, <1>2, <1>3, <1>4 DEF Pushed

LEMMA PushOwnIs ==
  ASSUME NEW f \in Frames, NEW s \in Seq(Operations \X Paths), NEW o, NEW x, s[1] = <<o, x>>,
         f.todo = s, Push(f)
  PROVE  stack' = Pushed(stack, Making(f, Tail(s)),
                         Frame(o, x, IF o = "rename" THEN f.target ELSE x))
<1>1. f = [f EXCEPT !.todo = s]
  BY DEF Frames
<1> QED
  BY ONLY <1>1, f \in Frames, s \in Seq(Operations \X Paths), s[1] = <<o, x>>, Push(f), PushIs

LEMMA CallGenericRouting ==
  ASSUME RoutingInv, CallGeneric
  PROVE  RoutingInv'
<1> USE DEF RoutingInv
<1> DEFINE f == Top
<1>1. /\ stack # <<>> /\ f.stage = "call" /\ f.op \in Transfers
      /\ f \in Frames /\ Plain(f)
  BY TopIs DEF CallGeneric, At
<1>2. Len(stack) = 1
  BY <1>1, OneBelow
<1>3. f.path \in Paths /\ f.target \in Paths /\ f.target # f.path
  BY <1>1 DEF Frames, Plain
<1>4. ~f.fixed => Clear(f.path, writers, streams)
  BY <1>1, TopClear
<1>5. /\ routing' = routing /\ declined' = declined /\ answer' = answer /\ streams' = streams
      /\ calls' = calls /\ writers' = writers /\ refused' = refused /\ blamed' = blamed
  BY DEF CallGeneric, history
<1>6. Tied' /\ Stacked' /\ Ordered'
  <2>1. CASE f.op = "move" /\ ResolvesOn(f.target, routing[f.path].provider)
    <3> DEFINE s == <<<<"rename", f.path>>>> \o Generic(f)
    <3>1. s \in Seq(Operations \X Paths) /\ s[1] = <<"rename", f.path>> /\ Tail(s) = Generic(f)
      BY <1>1, RenameFirst
    <3>2. Push([f EXCEPT !.todo = s])
      BY <2>1 DEF CallGeneric
    <3> HIDE DEF s
    <3>3. stack' = Pushed(stack, Making(f, Generic(f)), Frame("rename", f.path, f.target))
      BY <1>1, <3>1, <3>2, PushIs
    <3>4. Generic(f) \in Seq(Operations \X Paths)
      BY <1>1, LeftIs
    <3>5. "rename" \in Operations /\ "rename" \notin Transfers
      BY DEF Operations, Transfers
    <3> QED
      BY <1>1, <1>2, <1>3, <1>4, <1>5, <2>1, <3>3, <3>4, <3>5, NextMakes
  <2>2. CASE ~(f.op = "move" /\ ResolvesOn(f.target, routing[f.path].provider))
    <3>1. /\ Generic(f)[1] = <<"read", f.path>> /\ Tail(Generic(f)) = Left1(f)
          /\ Left1(f) \in Seq(Operations \X Paths) /\ <<>> \o Generic(f) = Generic(f)
      BY <1>1, LeftIs
    <3>2. Push([f EXCEPT !.todo = Generic(f)])
      BY <2>2, <3>1 DEF CallGeneric
    <3>3. stack' = Pushed(stack, Making(f, Left1(f)), Frame("read", f.path, f.path))
      <4>1. Generic(f) \in Seq(Operations \X Paths)
        BY <1>1, LeftIs
      <4>2. stack' = Pushed(stack, Making(f, Tail(Generic(f))),
                            Frame("read", f.path, IF "read" = "rename" THEN f.target ELSE f.path))
        BY <1>1, <3>1, <3>2, <4>1, PushIs
      <4> QED
        BY <3>1, <4>2
    <3>4. "read" \in Operations /\ "read" \notin Transfers
      BY DEF Operations, Transfers
    <3> QED
      BY <1>1, <1>2, <1>3, <1>4, <1>5, <3>1, <3>3, <3>4, NextMakes
  <2> QED
    BY <2>1, <2>2
<1>7. Kinds'
  BY <1>5 DEF Kinds
<1>8. DeclinedRefused'
  BY <1>5 DEF DeclinedRefused
<1> QED
  BY <1>6, <1>7, <1>8

(* A transfer goes on with what its last dispatch came to. *)
LEMMA ResumePushes ==
  ASSUME RoutingInv, stack # <<>>, Top.stage = "inside", Push(Top),
         answer = (IF Renaming(Top) THEN "not implemented" ELSE "ok"),
         ~(answer = "ok" /\ (Top.todo = <<>> \/ Renaming(Top))),
         UNCHANGED <<routing, writers, streams>>
  PROVE  Tied' /\ Stacked' /\ Ordered'
<1> USE DEF RoutingInv
<1> DEFINE f == Top
<1>1. /\ f.stage = "inside" /\ f \in Frames /\ Plain(f) /\ Len(stack) = 1 /\ f = stack[1]
  BY TopIs, OneBelow
<1>2. f.path \in Paths /\ f.target \in Paths /\ f.op \in Transfers
  BY <1>1 DEF Frames, Plain
<1>3. Spent(f, answer, writers, streams)
  BY <1>1 DEF Ordered
<1>4. ~f.fixed => Clear(f.path, writers, streams)
  BY <1>3 DEF Spent
<1>5. Generic(f) # <<>>
  BY <1>1, LeftIs
<1>6. /\ Generic(f) \in Seq(Operations \X Paths) /\ Left1(f) \in Seq(Operations \X Paths)
      /\ Left2(f) \in Seq(Operations \X Paths) /\ <<>> \in Seq(Operations \X Paths)
      /\ Generic(f)[1] = <<"read", f.path>> /\ Tail(Generic(f)) = Left1(f)
      /\ Left1(f)[1] = <<"write", f.target>> /\ Tail(Left1(f)) = Left2(f)
      /\ f.op = "move" => Left2(f)[1] = <<"unlink", f.path>> /\ Tail(Left2(f)) = <<>>
      /\ f.op # "move" => Left2(f) = <<>>
  BY <1>1, LeftIs
<1>7. /\ "read" \in Operations \ Transfers /\ "write" \in Operations \ Transfers
      /\ "unlink" \in Operations \ Transfers
  BY DEF Operations, Transfers
<1>8. Push(f) /\ UNCHANGED <<routing, writers, streams>>
  OBVIOUS
<1>9. f.todo # <<>>
  BY <1>5 DEF Renaming
<1>10. Kinds /\ Tied /\ Stacked /\ Ordered
  OBVIOUS
<1>11. CASE f.todo = Generic(f)
  <2>1. stack' = Pushed(stack, Making(f, Tail(Generic(f))),
                        Frame("read", f.path, IF "read" = "rename" THEN f.target ELSE f.path))
    <3>1. /\ f \in Frames /\ Generic(f) \in Seq(Operations \X Paths) /\ f.todo = Generic(f)
          /\ Generic(f)[1] = <<"read", f.path>> /\ Push(f)
      BY ONLY <1>1, <1>6, <1>8, <1>11
    <3> QED
      BY ONLY <3>1, PushOwnIs
  <2>2. stack' = Pushed(stack, Making(f, Left1(f)), Frame("read", f.path, f.path))
    BY <1>6, <2>1
  <2> QED
    BY <1>1, <1>2, <1>4, <1>6, <1>7, <1>8, <2>2, NextMakes
<1>12. CASE f.todo = Left1(f)
  <2>1. stack' = Pushed(stack, Making(f, Tail(Left1(f))),
                        Frame("write", f.target, IF "write" = "rename" THEN f.target ELSE f.target))
    <3>1. /\ f \in Frames /\ Left1(f) \in Seq(Operations \X Paths) /\ f.todo = Left1(f)
          /\ Left1(f)[1] = <<"write", f.target>> /\ Push(f)
      BY ONLY <1>1, <1>6, <1>8, <1>12
    <3> QED
      BY ONLY <3>1, PushOwnIs
  <2>2. stack' = Pushed(stack, Making(f, Left2(f)), Frame("write", f.target, f.target))
    BY <1>6, <2>1
  <2> QED
    BY <1>1, <1>2, <1>4, <1>6, <1>7, <1>8, <2>2, NextMakes
<1>13. CASE f.todo = Left2(f)
  <2>1. f.op = "move"
    BY <1>6, <1>9, <1>13
  <2>2. stack' = Pushed(stack, Making(f, Tail(Left2(f))),
                        Frame("unlink", f.path, IF "unlink" = "rename" THEN f.target ELSE f.path))
    <3>1. /\ f \in Frames /\ Left2(f) \in Seq(Operations \X Paths) /\ f.todo = Left2(f)
          /\ Left2(f)[1] = <<"unlink", f.path>> /\ Push(f)
      BY ONLY <1>1, <1>6, <1>8, <1>13, <2>1
    <3> QED
      BY ONLY <3>1, PushOwnIs
  <2>3. stack' = Pushed(stack, Making(f, <<>>), Frame("unlink", f.path, f.path))
    BY <1>6, <2>1, <2>2
  <2> QED
    BY <1>1, <1>2, <1>4, <1>6, <1>7, <1>8, <2>1, <2>3, NextMakes
<1> QED
  BY <1>3, <1>9, <1>11, <1>12, <1>13 DEF Spent

LEMMA ResumeRouting ==
  ASSUME RoutingInv, Resume
  PROVE  RoutingInv'
<1> USE DEF RoutingInv
<1> DEFINE f == Top
           done == answer = "ok" /\ (f.todo = <<>> \/ Renaming(f))
           more == answer = (IF Renaming(f) THEN "not implemented" ELSE "ok")
<1>1. /\ stack # <<>> /\ f.stage = "inside" /\ f \in Frames /\ Plain(f)
      /\ Len(stack) = 1 /\ f = stack[1]
  BY TopIs, OneBelow DEF Resume, At
<1>2. streams' = streams /\ calls' = calls /\ writers' = writers /\ refused' = refused
  BY DEF Resume
<1>3. \/ done /\ Answer(stack, "ok") /\ UNCHANGED <<routing, declined, blamed>>
      \/ more /\ ~done /\ Push(f) /\ answer' = "none" /\ UNCHANGED <<routing, declined, blamed>>
      \/ /\ Caught(stack, answer)
         /\ blamed' = IF answer = "not started" THEN blamed \cup {f.at} ELSE blamed
  BY DEF Resume
<1>4. f.at \in Providers
  BY <1>1 DEF Frames, Plain
<1>5. /\ Tied' /\ Stacked' /\ Ordered' /\ routing' \in [Paths -> Route]
      /\ answer' \in Answers \cup {"none"} /\ declined' \subseteq Providers
      /\ blamed' \subseteq Providers /\ DeclinedRefused'
  <2>1. CASE done /\ Answer(stack, "ok") /\ UNCHANGED <<routing, declined, blamed>>
    <3>1. "ok" \in Answers \cup {"none"}
      BY DEF Answers
    <3>2. Tied' /\ Stacked' /\ Ordered' /\ answer' \in Answers \cup {"none"}
      BY <1>1, <1>2, <2>1, <3>1, EndKeeps
    <3> QED
      BY <1>2, <2>1, <3>2 DEF Kinds, DeclinedRefused
  <2>2. CASE more /\ ~done /\ Push(f) /\ answer' = "none" /\ UNCHANGED <<routing, declined, blamed>>
    <3>1. Tied' /\ Stacked' /\ Ordered'
      BY <1>1, <1>2, <2>2, ResumePushes
    <3> QED
      BY <1>2, <2>2, <3>1 DEF Kinds, DeclinedRefused
  <2>3. CASE /\ Caught(stack, answer)
             /\ blamed' = IF answer = "not started" THEN blamed \cup {f.at} ELSE blamed
    <3>1. Spent(f, answer, writers, streams) /\ f.op \in Transfers
      BY <1>1 DEF Ordered, Plain
    <3>2. Retries(answer) => answer = "not started"
      BY <3>1 DEF Retries, RetrySafe, Transfers
    <3>3. Retries(answer) /\ ~f.fixed => Clear(f.path, writers, streams)
      BY <3>1, <3>2 DEF Spent
    <3>4. answer \in Answers \cup {"none"}
      BY DEF Kinds
    <3>5. /\ Tied' /\ Stacked' /\ Ordered' /\ routing' \in [Paths -> Route]
          /\ answer' \in Answers \cup {"none"}
          /\ declined' \subseteq declined \cup (IF answer = "not started" THEN {f.at} ELSE {})
      BY <1>1, <1>2, <2>3, <3>3, <3>4, CatchKeeps
    <3>6. declined' \subseteq Providers /\ blamed' \subseteq Providers
      BY <1>4, <2>3, <3>5 DEF Kinds
    <3>7. DeclinedRefused'
      BY <1>2, <2>3, <3>5 DEF DeclinedRefused
    <3> QED
      BY <3>5, <3>6, <3>7
  <2> QED
    BY <1>3, <2>1, <2>2, <2>3
<1>6. Kinds'
  BY <1>2, <1>5 DEF Kinds
<1> QED
  BY <1>5, <1>6

(* What is done between dispatches. *)
LEMMA CloseStreamRouting ==
  ASSUME RoutingInv, NEW s \in streams, NEW commits \in BOOLEAN, CloseStream(s, commits)
  PROVE  RoutingInv'
<1> USE DEF RoutingInv
<1>1. /\ stack = <<>> /\ stack' = stack /\ streams' = streams \ {s}
      /\ writers' = (IF commits THEN [writers EXCEPT ![s[1]] = @ \cup {s[2]}] ELSE writers)
      /\ routing' = routing /\ declined' = declined /\ answer' = answer
      /\ calls' = calls /\ refused' = refused /\ blamed' = blamed
  BY DEF CloseStream
<1>2. s[1] \in Paths /\ s[2] \in Providers /\ writers \in [Paths -> SUBSET Providers]
  BY DEF Kinds
<1>3. Stacked' /\ Ordered'
  BY <1>1, NoStack
<1>4. writers' \in [Paths -> SUBSET Providers]
  BY ONLY <1>1, <1>2
<1>5. Kinds'
  BY <1>1, <1>4 DEF Kinds
<1>6. Tied'
  <2>1. SUFFICES ASSUME NEW x \in Paths PROVE Ties(routing, x, writers', streams')
    BY <1>1 DEF Tied
  <2>2. Ties(routing, x, writers, streams) /\ Ties(routing, s[1], writers, streams)
    BY <1>2 DEF Tied
  <2>3. \A p \in writers'[x]: p \in writers[x] \/ (x = s[1] /\ p = s[2])
    BY ONLY <1>1, <1>2
  <2>4. routing[s[1]].pinned /\ s[2] = routing[s[1]].provider
    BY <2>2 DEF Ties
  <2> QED
    BY <1>1, <2>2, <2>3, <2>4 DEF Ties
<1>7. DeclinedRefused'
  BY <1>1 DEF DeclinedRefused
<1> QED
  BY <1>3, <1>5, <1>6, <1>7

LEMMA ReplacesRouting ==
  ASSUME RoutingInv, NEW z \in Paths, NEW r \in Route, Agrees(r), Replaces(z, r)
  PROVE  RoutingInv'
<1> USE DEF RoutingInv
<1>1. /\ stack = <<>> /\ stack' = stack /\ streams' = streams /\ \A s \in streams: s[1] # z
      /\ writers' = [writers EXCEPT ![z] = {}] /\ routing' = [routing EXCEPT ![z] = r]
      /\ declined' = declined /\ answer' = answer /\ calls < MaxCalls
      /\ calls' = calls + 1 /\ refused' = refused /\ blamed' = blamed
  BY DEF Replaces
<1>2. Stacked' /\ Ordered'
  BY <1>1, NoStack
<1>3. routing' \in [Paths -> Route] /\ writers' \in [Paths -> SUBSET Providers]
  BY <1>1 DEF Kinds
<1>4. calls' \in 0 .. MaxCalls
  BY <1>1, PathAssumption DEF Kinds
<1>5. Kinds'
  BY <1>1, <1>3, <1>4 DEF Kinds
<1>6. Tied'
  <2>1. SUFFICES ASSUME NEW x \in Paths PROVE Ties(routing', x, writers', streams')
    BY DEF Tied
  <2>2. Ties(routing, x, writers, streams)
    BY DEF Tied
  <2>3. CASE x = z
    BY <1>1, <2>3 DEF Ties, Kinds
  <2>4. CASE x # z
    BY <1>1, <2>2, <2>4 DEF Ties, Kinds
  <2> QED
    BY <2>3, <2>4
<1>7. DeclinedRefused'
  BY <1>1 DEF DeclinedRefused
<1> QED
  BY <1>2, <1>5, <1>6, <1>7

LEMMA PathsRouting ==
  ASSUME RoutingInv, NEW x \in Paths, NEW z \in Paths,
         \/ Derive(x, z)
         \/ \E p \in Providers: Via(x, z, p) \/ HostPath(z, p)
  PROVE  RoutingInv'
<1>1. Kinds /\ Tied
  BY DEF RoutingInv
<1>2. Agrees(routing[x]) /\ routing[x] \in Route
  BY <1>1, Agreed
<1>3. CASE Derive(x, z)
  <2>1. Replaces(z, [routing[x] EXCEPT !.backend = Nowhere])
    BY <1>3 DEF Derive
  <2>2. /\ [routing[x] EXCEPT !.backend = Nowhere] \in Route
        /\ Agrees([routing[x] EXCEPT !.backend = Nowhere])
    BY <1>2 DEF Route, Agrees
  <2> QED
    BY <2>1, <2>2, ReplacesRouting
<1>4. ASSUME NEW p \in Providers, Via(x, z, p) \/ HostPath(z, p) PROVE RoutingInv'
  <2>1. Handle(x, p) = p
    BY <1>1, HandleIs
  <2>2. PICK b \in BOOLEAN: Replaces(z, [provider |-> p, backend |-> p, pinned |-> b])
    BY <1>4, <2>1 DEF Via, HostPath, NewPath
  <2>3. /\ [provider |-> p, backend |-> p, pinned |-> b] \in Route
        /\ Agrees([provider |-> p, backend |-> p, pinned |-> b])
    BY DEF Route, Agrees
  <2> QED
    BY <2>2, <2>3, ReplacesRouting
<1> QED
  BY <1>3, <1>4

LEMMA HostPathRefusedRouting ==
  ASSUME RoutingInv, NEW p \in Providers, HostPathRefused(p)
  PROVE  RoutingInv'
<1> USE DEF RoutingInv
<1>1. /\ declined' = declined \cup {p} /\ refused' = refused \cup {p}
      /\ calls < MaxCalls /\ calls' = calls + 1
      /\ routing' = routing /\ stack' = stack /\ answer' = answer /\ streams' = streams
      /\ writers' = writers /\ blamed' = blamed
  BY DEF HostPathRefused
<1>2. Tied' /\ Stacked' /\ Ordered'
  BY <1>1, StackKept
<1>3. calls' \in 0 .. MaxCalls
  BY <1>1, PathAssumption DEF Kinds
<1>4. Kinds'
  BY <1>1, <1>3 DEF Kinds
<1>5. DeclinedRefused'
  BY <1>1 DEF DeclinedRefused
<1> QED
  BY <1>2, <1>4, <1>5

-----------------------------------------------------------------------------
LEMMA RoutingInductive == RoutingInv /\ [Next]_vars => RoutingInv'
<1> SUFFICES ASSUME RoutingInv, [Next]_vars PROVE RoutingInv'
  OBVIOUS
<1>1. ASSUME NEW o \in Operations, NEW x \in Paths, NEW y \in Paths, Begin(o, x, y)
      PROVE  RoutingInv'
  BY <1>1, BeginRouting
<1>2. CASE Step
  <2>1. ASSUME NEW supported \in BOOLEAN, Pinned(supported) PROVE RoutingInv'
    BY <2>1, PinnedRouting
  <2>2. ASSUME NEW supported \in BOOLEAN, NEW p \in Providers, Offer(p, supported)
        PROVE  RoutingInv'
    BY <2>2, OfferRouting
  <2>3. CASE Readmit
    BY <2>3, ForgetsRouting
  <2>4. CASE Exhausted
    BY <2>4, ExhaustedRouting
  <2>5. CASE Connect
    BY <2>5, ConnectRouting
  <2>6. CASE CallGeneric
    BY <2>6, CallGenericRouting
  <2>7. CASE Resume
    BY <2>7, ResumeRouting
  <2>8. ASSUME NEW r \in Answers, ConnectFails(r) PROVE RoutingInv'
    BY <2>8, ConnectFailsRouting
  <2>9. ASSUME NEW r \in Answers, NEW mutates \in BOOLEAN, Call(r, mutates) PROVE RoutingInv'
    BY <2>9, CallRouting
  <2> QED
    BY <1>2, <2>1, <2>2, <2>3, <2>4, <2>5, <2>6, <2>7, <2>8, <2>9 DEF Step
<1>3. ASSUME NEW s \in streams, NEW commits \in BOOLEAN, CloseStream(s, commits)
      PROVE  RoutingInv'
  BY <1>3, CloseStreamRouting
<1>4. ASSUME NEW x \in Paths, NEW z \in Paths,
             Derive(x, z) \/ \E p \in Providers: Via(x, z, p)
      PROVE  RoutingInv'
  BY <1>4, PathsRouting
<1>5. ASSUME NEW z \in Paths, NEW p \in Providers, HostPath(z, p) PROVE RoutingInv'
  BY <1>5, PathsRouting
<1>6. ASSUME NEW p \in Providers, HostPathRefused(p) PROVE RoutingInv'
  BY <1>6, HostPathRefusedRouting
<1>7. CASE Invalidate
  BY <1>7, ForgetsRouting
<1>8. CASE UNCHANGED vars
  <2>1. /\ routing' = routing /\ declined' = declined /\ stack' = stack /\ answer' = answer
        /\ streams' = streams /\ calls' = calls
        /\ writers' = writers /\ refused' = refused /\ blamed' = blamed
    BY <1>8 DEF vars
  <2>2. Tied' /\ Stacked' /\ Ordered'
    BY <2>1, StackKept DEF RoutingInv
  <2>3. Kinds' /\ DeclinedRefused'
    BY <2>1 DEF RoutingInv, Kinds, DeclinedRefused
  <2> QED
    BY <2>2, <2>3 DEF RoutingInv
<1> QED
  BY <1>1, <1>2, <1>3, <1>4, <1>5, <1>6, <1>7, <1>8 DEF Next

(* RoutingInv is an inductive invariant of the paths.                      *)
THEOREM RoutingInvariance == Spec => []RoutingInv
<1>1. Init => RoutingInv
  BY InitRouting
<1> QED
  BY <1>1, RoutingInductive, PTL DEF Spec

LEMMA RoutingIsTyped == RoutingInv => TypeOK
<1> SUFFICES ASSUME RoutingInv PROVE TypeOK
  OBVIOUS
<1>1. Kinds /\ stack \in Seq(Frames) /\ Len(stack) <= 2
  BY DEF RoutingInv, Stacked
<1>2. ASSUME NEW i \in 1 .. Len(stack)
      PROVE  LET f == stack[i] IN
             /\ f.op \in Operations /\ f.path \in Paths /\ f.target \in Paths
             /\ f.excluded \subseteq Providers /\ f.tried \subseteq Providers
             /\ f.at \in Providers \cup {Nowhere} /\ f.handle \in Providers \cup {Nowhere}
             /\ f.old \in Route
             /\ f.stage \in {"choose", "connect", "call", "inside"}
  <2>1. stack[i] \in Frames
    BY <1>1
  <2> QED
    BY <2>1 DEF Frames
<1> QED
  BY <1>1, <1>2 DEF TypeOK, Kinds

(* All that is written through a path, a stream's upload included, is      *)
(* written by the one backend it is pinned to (`_adopt`); what was begun is*)
(* not offered again; and nobody is declined who did not refuse.           *)
THEOREM RoutingIsSound == Spec => []RoutingSound
<1>1. RoutingInv => OneWriter
  <2> SUFFICES ASSUME RoutingInv, NEW x \in Paths, writers[x] # {}
               PROVE  routing[x].pinned /\ writers[x] = {routing[x].provider}
    BY RoutingIsTyped DEF OneWriter
  <2>1. \A p \in writers[x]: routing[x].pinned /\ p = routing[x].provider
    BY DEF RoutingInv, Tied, Ties
  <2> QED
    BY <2>1
<1>2. RoutingInv => NoReplay
  <2> SUFFICES ASSUME RoutingInv, NEW i \in 1 .. Len(stack), stack[i].touched
               PROVE  stack[i].op \in Transfers
    BY DEF NoReplay
  <2>1. Plain(stack[i])
    BY FrameAt DEF RoutingInv
  <2> QED
    BY <2>1 DEF Plain
<1>3. RoutingInv => RoutingSound
  BY <1>1, <1>2 DEF RoutingInv, RoutingSound
<1> QED
  BY <1>3, RoutingInvariance, PTL

-----------------------------------------------------------------------------
(* A dispatch of the caller's, as Failover sees it: the outermost one.     *)
With == IF stack = <<>> \/ stack[1].at = Nowhere THEN {} ELSE {stack[1].at}
Gone == IF stack = <<>> THEN {} ELSE stack[1].tried

LEMMA IsStutter ==
  ASSUME (stack' = <<>>) <=> (stack = <<>>), With' = With, Gone' = Gone
  PROVE  UNCHANGED F!vars
BY DEF F!vars, With, Gone

LEMMA IsBegin ==
  ASSUME stack = <<>>, stack' # <<>>, With' = {}, Gone' = {}
  PROVE  F!Next
<1>1. F!Begin("caller")
  BY DEF F!Begin, With, Gone
<1> QED
  BY <1>1 DEF F!Next

LEMMA IsOffer ==
  ASSUME stack # <<>>, stack' # <<>>, NEW p \in Providers \ Gone,
         With = {}, With' = {p}, Gone' = Gone
  PROVE  F!Next
<1>1. F!Offer("caller", p)
  BY DEF F!Offer, With, Gone
<1> QED
  BY <1>1 DEF F!Next

LEMMA IsRefuse ==
  ASSUME stack # <<>>, stack' # <<>>, With # {}, With' = {}, Gone' = Gone \cup With
  PROVE  F!Next
<1>1. F!Refuse("caller")
  BY DEF F!Refuse, With, Gone
<1> QED
  BY <1>1 DEF F!Next

LEMMA IsEnd ==
  ASSUME stack # <<>>, stack' = <<>>
  PROVE  F!Next
<1>1. F!End("caller")
  BY DEF F!End
<1> QED
  BY <1>1 DEF F!Next

(* The outermost dispatch after a step of the innermost one. *)
LEMMA Outermost ==
  ASSUME Stacked, stack # <<>>, NEW g, Tops(stack', stack, g)
  PROVE  /\ stack' # <<>>
         /\ Len(stack) = 1 => stack[1] = Top /\ stack'[1] = g
         /\ Len(stack) # 1 => stack'[1] = stack[1]
<1>1. Len(stack) \in {1, 2} /\ stack \in Seq(Frames)
  BY TopIs DEF Stacked
<1>2. stack' \in Seq(Frames) /\ Len(stack') = Len(stack) /\ stack'[Len(stack)] = g
      /\ \A i \in 1 .. Len(stack) - 1: stack'[i] = stack[i]
  BY DEF Tops
<1>3. stack' # <<>>
  BY <1>1, <1>2, Places
<1>4. Len(stack) # 1 => 1 \in 1 .. Len(stack) - 1
  BY <1>1
<1> QED
  BY <1>1, <1>2, <1>3, <1>4 DEF Top

(* A step of a dispatch that keeps its provider, or of an inner one. *)
LEMMA KeepsProvider ==
  ASSUME Stacked, stack # <<>>, NEW g, Tops(stack', stack, g),
         Len(stack) # 1 \/ (g.at = Top.at /\ g.tried = Top.tried)
  PROVE  UNCHANGED F!vars
<1>1. /\ stack' # <<>>
      /\ stack'[1].at = stack[1].at /\ stack'[1].tried = stack[1].tried
  BY Outermost
<1>2. With' = With /\ Gone' = Gone
  BY <1>1 DEF With, Gone
<1> QED
  BY <1>1, <1>2, IsStutter

LEMMA TryOffers ==
  ASSUME RoutingInv, At("choose"), NEW p \in Providers \ Top.tried, Try(p)
  PROVE  [F!Next]_(F!vars)
<1> DEFINE f == Top
           g == Tried(f, p, routing[f.path])
<1>1. /\ Kinds /\ Tied /\ Stacked /\ stack # <<>> /\ f.stage = "choose" /\ stack \in Seq(Frames)
      /\ f \in Frames /\ Plain(f)
  BY TopIs DEF At, Stacked, RoutingInv
<1>2. f.path \in Paths /\ f.at = Nowhere
  BY <1>1 DEF Frames, Plain
<1>3. routing[f.path] \in Route
  BY <1>1, <1>2, Agreed
<1>4. stack' = [stack EXCEPT ![Len(stack)] = g]
  BY DEF Try, Replaced, Tried
<1>5. g \in Frames /\ g.at = p /\ g.tried = f.tried
  BY <1>1, <1>3, TryIs
<1>6. Tops(stack', stack, g)
  BY <1>1, <1>4, <1>5, ReplacedIs
<1> HIDE DEF f, g
<1>7. CASE Len(stack) # 1
  BY <1>1, <1>6, <1>7, KeepsProvider
<1>8. CASE Len(stack) = 1
  <2>1. stack' # <<>> /\ stack[1] = f /\ stack'[1] = g
    BY <1>1, <1>6, <1>8, Outermost DEF f
  <2>2. With = {} /\ With' = {p} /\ Gone' = Gone /\ p \notin Gone
    BY <1>1, <1>2, <1>5, <2>1, NowhereIs DEF With, Gone, f
  <2> QED
    BY <1>1, <2>1, <2>2, IsOffer
<1> QED
  BY <1>7, <1>8

LEMMA AnswerEnds ==
  ASSUME RoutingInv, stack # <<>>, NEW s \in Seq(Frames), Len(s) = Len(stack),
         \A i \in 1 .. Len(s): Alike(s[i], stack[i]), stack' = Front(s)
  PROVE  [F!Next]_(F!vars)
<1>1. Stacked /\ Len(stack) \in {1, 2}
  BY TopIs DEF RoutingInv
<1>2. CASE Len(stack) = 1
  <2>1. stack' \in Seq(Frames) /\ Len(stack') = 0
    BY <1>2, PopsOne
  <2>2. stack' = <<>>
    BY <2>1, Places
  <2> QED
    BY <2>2, IsEnd
<1>3. CASE Len(stack) = 2
  <2>1. stack' \in Seq(Frames) /\ Len(stack') = 1 /\ stack'[1] = s[1]
    BY <1>3, PopsTwo
  <2>2. stack' # <<>>
    BY <2>1, Places
  <2>3. Alike(s[1], stack[1])
    BY <1>3, Places
  <2>4. With' = With /\ Gone' = Gone
    BY <2>1, <2>2, <2>3 DEF With, Gone, Alike
  <2> QED
    BY <2>2, <2>4, IsStutter
<1> QED
  BY <1>1, <1>2, <1>3

LEMMA AnswerEndsPlainly ==
  ASSUME RoutingInv, stack # <<>>, NEW r, Answer(stack, r)
  PROVE  [F!Next]_(F!vars)
<1>1. stack' = Front(stack) /\ stack \in Seq(Frames)
  BY DEF Answer, RoutingInv, Stacked
<1>2. \A i \in 1 .. Len(stack): Alike(stack[i], stack[i])
  BY DEF Alike
<1> QED
  BY <1>1, <1>2, AnswerEnds

LEMMA CaughtRefuses ==
  ASSUME RoutingInv, stack # <<>>, Top.stage # "choose", NEW r, Caught(stack, r)
  PROVE  [F!Next]_(F!vars)
<1> DEFINE f == Top
           g == Retried(f, r = "not implemented")
<1>1. Last(stack) = Top
  BY DEF Last, Top
<1>2. CASE ~Retries(r)
  BY <1>1, <1>2, CaughtIs, AnswerEndsPlainly
<1>3. CASE Retries(r)
  <2>1. /\ Stacked /\ stack \in Seq(Frames) /\ f \in Frames /\ Plain(f)
    BY TopIs DEF RoutingInv, Stacked
  <2>2. f.at \in Providers
    BY <2>1 DEF Frames, Plain
  <2>3. stack' = Append(Front(stack), g)
    BY <1>1, <1>3, CaughtIs
  <2>4. (r = "not implemented") \in BOOLEAN
    OBVIOUS
  <2>5. g \in Frames /\ g.at = Nowhere /\ g.tried = f.tried \cup {f.at}
    BY <2>1, <2>2, <2>4, RetryIs
  <2> HIDE DEF g
  <2>6. Tops(stack', stack, g)
    <3>1. Tops(Append(Front(stack), g), stack, g)
      BY <2>1, <2>5, RenewedIs
    <3> QED
      BY ONLY <2>3, <3>1
  <2>7. CASE Len(stack) # 1
    BY <2>1, <2>6, <2>7, KeepsProvider
  <2>8. CASE Len(stack) = 1
    <3>1. stack' # <<>> /\ stack[1] = f /\ stack'[1] = g
      BY <2>1, <2>6, <2>8, Outermost
    <3> HIDE DEF f
    <3>2. With = {f.at} /\ With' = {} /\ Gone = f.tried /\ Gone' = f.tried \cup {f.at}
      BY <2>2, <2>5, <3>1, NowhereIs DEF With, Gone
    <3> QED
      BY <3>1, <3>2, IsRefuse
  <2> QED
    BY <2>7, <2>8
<1> QED
  BY <1>2, <1>3

(* A transfer makes a dispatch: Failover sees the transfer's only. *)
LEMMA FirstOfTwo ==
  ASSUME NEW S, NEW s \in Seq(S), Len(s) = 1, NEW g \in S, NEW h \in S
  PROVE  Pushed(s, g, h) # <<>> /\ Pushed(s, g, h)[1] = g
<1> DEFINE y == [s EXCEPT ![Len(s)] = g]
<1>1. y \in Seq(S) /\ Len(y) = 1 /\ y[1] = g
  BY ExceptSeq
<1> HIDE DEF y
<1>2. Append(y, h) # <<>>
  BY <1>1, AppendProperties
<1>3. Append(y, h)[1] = g
  <2>1. \A i \in 1 .. Len(y): Append(y, h)[i] = y[i]
    BY <1>1, AppendProperties
  <2> QED
    BY <1>1, <2>1
<1> QED
  BY <1>2, <1>3 DEF Pushed, y

LEMMA FirstStays ==
  ASSUME NEW s \in Seq(Frames), Len(s) = 1, NEW g, NEW h
  PROVE  Pushed(s, g, h) # <<>> /\ Pushed(s, g, h)[1] = g
<1> DEFINE S == Frames \cup {g, h}
<1>1. s \in Seq(S) /\ g \in S /\ h \in S
  OBVIOUS
<1> HIDE DEF S
<1> QED
  BY <1>1, FirstOfTwo

LEMMA PushStutters ==
  ASSUME RoutingInv, stack # <<>>, Top.op \in Transfers \/ Top.stage = "inside",
         NEW s, NEW g, g = [Top EXCEPT !.todo = s], Push(g)
  PROVE  UNCHANGED F!vars
<1>1. Len(stack) = 1 /\ Top = stack[1] /\ stack \in Seq(Frames) /\ Top \in Frames
  BY OneBelow, TopIs DEF RoutingInv, Stacked
<1> DEFINE k == [g EXCEPT !.stage = "inside", !.todo = Tail(@)]
           h == Frame(g.todo[1][1], g.todo[1][2],
                      IF g.todo[1][1] = "rename" THEN g.target ELSE g.todo[1][2])
<1>2. k.at = Top.at /\ k.tried = Top.tried
  BY <1>1 DEF Frames
<1>3. stack' = Pushed(stack, k, h)
  BY DEF Push, Replaced, Pushed
<1> HIDE DEF k, h
<1>4. stack' # <<>> /\ stack'[1] = k
  BY <1>1, <1>3, FirstStays
<1>5. With' = With /\ Gone' = Gone
  BY <1>1, <1>2, <1>4 DEF With, Gone
<1> QED
  BY <1>4, <1>5, IsStutter

(* Every step of a path is one of Failover's, or none of them. *)
LEMMA RoutingAbstracts ==
  ASSUME RoutingInv, Step
  PROVE  [F!Next]_(F!vars)
<1>1. Kinds /\ Tied /\ Stacked /\ Ordered
  BY DEF RoutingInv
<1>2. ASSUME NEW supported \in BOOLEAN, Pinned(supported) PROVE [F!Next]_(F!vars)
  <2>1. At("choose") /\ stack # <<>> /\ Top.tried = {}
    BY <1>2 DEF Pinned, At
  <2>2. Top.path \in Paths
    BY <1>1, <2>1, TopIs DEF Frames
  <2>3. routing[Top.path].provider \in Providers \ Top.tried
    BY <1>1, <2>1, <2>2 DEF Kinds, Route
  <2>4. CASE supported
    BY <1>2, <2>1, <2>3, <2>4, TryOffers DEF Pinned
  <2>5. CASE ~supported
    BY <1>2, <2>1, <2>5, AnswerEndsPlainly DEF Pinned
  <2> QED
    BY <2>4, <2>5
<1>3. ASSUME NEW supported \in BOOLEAN, NEW p \in Providers, Offer(p, supported)
      PROVE  [F!Next]_(F!vars)
  <2>1. At("choose") /\ stack # <<>> /\ p \notin Top.excluded
    BY <1>3 DEF Offer, At
  <2>2. /\ Plain(Top) /\ Top \in Frames /\ stack \in Seq(Frames)
    BY <1>1, <2>1, TopIs DEF Stacked
  <2>3. p \in Providers \ Top.tried
    BY <2>1, <2>2 DEF Plain
  <2>4. CASE supported
    BY <1>3, <2>1, <2>3, <2>4, TryOffers DEF Offer
  <2>5. CASE ~supported
    <3>1. stack' = [stack EXCEPT ![Len(stack)] = Skipped(Top, p)]
      BY <1>3, <2>5 DEF Offer, Replaced, Skipped
    <3>2. /\ Skipped(Top, p) \in Frames /\ Skipped(Top, p).at = Top.at
          /\ Skipped(Top, p).tried = Top.tried
      BY <2>2, SkipIs
    <3>3. Tops(stack', stack, Skipped(Top, p))
      BY <2>1, <2>2, <3>1, <3>2, ReplacedIs
    <3> QED
      BY <1>1, <2>1, <3>2, <3>3, KeepsProvider
  <2> QED
    BY <2>4, <2>5
<1>4. CASE Readmit
  <2>1. stack' = stack
    BY <1>4 DEF Readmit
  <2> QED
    BY <2>1, IsStutter DEF With, Gone
<1>5. CASE Exhausted
  <2>1. stack # <<>>
    BY <1>5 DEF Exhausted, At
  <2>2. PICK r: Answer(stack, r)
    BY <1>5 DEF Exhausted
  <2> QED
    BY <2>1, <2>2, AnswerEndsPlainly
<1>6. CASE Connect
  <2>1. stack # <<>> /\ Top.stage = "connect"
    BY <1>6 DEF Connect, At
  <2>2. Plain(Top) /\ Top \in Frames /\ stack \in Seq(Frames)
    BY <1>1, <2>1, TopIs DEF Stacked
  <2>3. Top.at \in Providers /\ Top.path \in Paths
    BY <2>1, <2>2 DEF Frames, Plain
  <2>4. Handle(Top.path, Top.at) = Top.at
    BY <1>1, <2>3, HandleIs
  <2>5. stack' = [stack EXCEPT ![Len(stack)] = Connected(Top, Top.at)]
    BY <1>6, <2>4 DEF Connect, Replaced, Connected
  <2>6. /\ Connected(Top, Top.at) \in Frames /\ Connected(Top, Top.at).at = Top.at
        /\ Connected(Top, Top.at).tried = Top.tried
    BY <2>2, <2>3, ConnectIs
  <2>7. Tops(stack', stack, Connected(Top, Top.at))
    BY <2>1, <2>2, <2>5, <2>6, ReplacedIs
  <2> QED
    BY <1>1, <2>1, <2>6, <2>7, KeepsProvider
<1>7. CASE CallGeneric
  <2>1. stack # <<>> /\ Top.op \in Transfers
    BY <1>7 DEF CallGeneric, At
  <2>2. PICK s: Push([Top EXCEPT !.todo = s])
    BY <1>7 DEF CallGeneric
  <2> QED
    BY <2>1, <2>2, PushStutters
<1>8. CASE Resume
  <2>1. stack # <<>> /\ Top.stage = "inside"
    BY <1>8 DEF Resume, At
  <2>2. \/ Answer(stack, "ok")
        \/ Push(Top)
        \/ Caught(stack, answer)
    BY <1>8 DEF Resume
  <2>3. CASE Push(Top)
    <3>1. Top = [Top EXCEPT !.todo = Top.todo]
      BY <1>1, <2>1, TopIs DEF Frames
    <3> QED
      BY <2>1, <2>3, <3>1, PushStutters
  <2> QED
    BY <2>1, <2>2, <2>3, AnswerEndsPlainly, CaughtRefuses
<1>9. ASSUME NEW r \in Answers, ConnectFails(r) PROVE [F!Next]_(F!vars)
  <2>1. stack # <<>> /\ Top.stage = "connect" /\ Caught(stack, r)
    BY <1>9 DEF ConnectFails, At
  <2> QED
    BY <2>1, CaughtRefuses
<1>10. ASSUME NEW r \in Answers, NEW mutates \in BOOLEAN, Call(r, mutates)
       PROVE  [F!Next]_(F!vars)
  <2>1. stack # <<>> /\ Top.stage = "call" /\ stack \in Seq(Frames)
    BY <1>1, <1>10 DEF Call, At, Stacked
  <2>2. CASE ~mutates
    BY <1>10, <2>1, <2>2, CaughtRefuses DEF Call
  <2>3. CASE mutates
    <3>1. /\ Caught(Touched(stack), r)
          /\ r = "not started" \/ (r = "not implemented" /\ Harmless(Top.op)) => ~mutates
      BY <1>10, <2>3 DEF Call, Mutates
    <3>2. /\ Touched(stack) \in Seq(Frames) /\ Len(Touched(stack)) = Len(stack)
          /\ \A i \in 1 .. Len(stack): Alike(Touched(stack)[i], stack[i])
      BY <2>1, MarkedAlike
    <3>3. Last(Touched(stack)).op = Top.op
      <4>1. Len(stack) \in 1 .. Len(stack)
        BY <1>1, <2>1, TopIs
      <4> QED
        BY <3>2, <4>1 DEF Last, Alike, Top
    <3>4. ~Retries(r)
      BY <2>3, <3>1 DEF Retries, RetrySafe, Harmless
    <3>5. stack' = Front(Touched(stack))
      BY <3>1, <3>3, <3>4, CaughtIs DEF Answer
    <3> QED
      BY <2>1, <3>2, <3>5, AnswerEnds
  <2> QED
    BY <2>2, <2>3
<1> QED
  BY <1>2, <1>3, <1>4, <1>5, <1>6, <1>7, <1>8, <1>9, <1>10 DEF Step

(* A dispatch offers its operation to each provider at most once, and to   *)
(* none after one has started it: it implements Failover.                  *)
THEOREM DispatchImplemented == Spec => OfferedOnce
<1>1. Init => F!Init
  BY DEF Init, F!Init
<1>2. RoutingInv /\ [Next]_vars => [F!Next]_(F!vars)
  <2> SUFFICES ASSUME RoutingInv, [Next]_vars
               PROVE  [F!Next]_(F!vars)
    OBVIOUS
  <2>1. ASSUME NEW o \in Operations, NEW x \in Paths, NEW y \in Paths, Begin(o, x, y)
        PROVE  [F!Next]_(F!vars)
    <3> DEFINE h == Frame(o, x, y)
    <3>1. stack = <<>> /\ stack' = <<h>> /\ (o \in Transfers => y # x)
      BY <2>1 DEF Begin
    <3>2. h.at = Nowhere /\ h.tried = {}
      BY DEF Frame
    <3> HIDE DEF h
    <3>3. stack' # <<>> /\ With' = {} /\ Gone' = {}
      BY <3>1, <3>2 DEF With, Gone
    <3> QED
      BY <3>1, <3>3, IsBegin
  <2>2. CASE Step
    BY <2>2, RoutingAbstracts
  <2>3. CASE UNCHANGED stack
    BY <2>3, IsStutter DEF With, Gone
  <2>4. ASSUME NEW s \in streams, NEW commits \in BOOLEAN, CloseStream(s, commits)
        PROVE  stack' = stack
    BY <2>4 DEF CloseStream
  <2>5. ASSUME NEW x \in Paths, NEW z \in Paths,
               Derive(x, z) \/ \E p \in Providers: Via(x, z, p) \/ HostPath(z, p)
        PROVE  stack' = stack
    BY <2>5 DEF Derive, Via, HostPath, Replaces
  <2>6. ASSUME NEW p \in Providers, HostPathRefused(p) PROVE stack' = stack
    BY <2>6 DEF HostPathRefused
  <2>7. ASSUME Invalidate PROVE stack' = stack
    BY <2>7 DEF Invalidate
  <2>8. ASSUME UNCHANGED vars PROVE stack' = stack
    BY <2>8 DEF vars
  <2> QED
    BY <2>1, <2>2, <2>3, <2>4, <2>5, <2>6, <2>7, <2>8 DEF Next
<1> QED
  BY <1>1, <1>2, RoutingInvariance, PTL DEF Spec, OfferedOnce, F!Spec

-----------------------------------------------------------------------------
(* RemoteFiles: how a path is written as a whole.                          *)

Writers == Callers \cup {R!Other}
Values == [1 .. Parts -> Writers \cup {0}]
Owners == {"root", "app"}
AFile == [type: {"file"}, pieces: Values, by: Writers, owner: Owners]
Doing == [op: {"none", "write", "create", "read", "ranges"},
          at: {"idle", "create", "append", "commit", "unlink", "stat", "inherit", "put", "extract",
               "open", "write", "close", "move", "check", "read", "ranges", "ended"},
          part: 1 .. Parts, ino: Writers \cup {0}, inherit: Owners, got: Values,
          end: {"none", "done", "failed"}]
Sent == [n: Callers, part: 1 .. Parts,
         do: {"create", "append", "commit", "unlink", "put", "extract", "open", "write", "move",
              "check"}]

FilesTyped ==
    /\ kind \in FileKinds /\ kind \in {"winrm", "archive", "qga"} /\ outside \in 0 .. MaxOutside
    /\ fs \in [R!Names -> {R!None, R!Dir} \cup AFile] /\ \A n \in Callers: fs[n] # R!Dir
    /\ call \in [Callers -> Doing] /\ late \subseteq Sent
    /\ handles \subseteq Callers /\ landed \subseteq Callers /\ overtaken \subseteq Callers
    /\ orphaned \subseteq Callers

Writing == {"write", "create"}

(* Where a call can be, by its backend and what it does.                   *)
Sits(n) ==
    LET c == call[n]
    IN  /\ c.at = "idle" => c.op = "none" /\ c.part = 1
        /\ c.at = "ended" => c.op # "none" /\ c.end # "none"
        /\ c.at \in {"create", "append", "commit"} => kind = "winrm" /\ c.op \in Writing
        /\ c.at = "stat" => kind = "archive" /\ c.op = "create"
        /\ c.at = "inherit" => kind = "archive" /\ c.op = "write"
        /\ c.at \in {"put", "extract"} => kind = "archive" /\ c.op \in Writing
        /\ c.at \in {"open", "write", "close"} => kind = "qga" /\ c.op \in Writing
        /\ c.at \in {"move", "check"} => kind = "qga" /\ c.op = "create"
        /\ c.at = "unlink" => \/ kind = "winrm" /\ c.op \in Writing
                              \/ kind = "qga" /\ c.op = "create"
        /\ c.at = "read" => c.op = "read"
        /\ c.at = "ranges" => c.op = "ranges"
        /\ c.end = "done" => c.at = "ended"
        /\ c.end # "none" => c.at \in {"close", "unlink", "ended"}
        /\ c.at \in {"create", "open"} => c.part = 1

(* What was given up and may be done yet.                                  *)
LateOf(n) == {r \in late: r.n = n}
Gives(n) ==
    LET c == call[n]
    IN  /\ LateOf(n) # {} => /\ c.at \in {"close", "unlink", "ended"}
                             /\ c.at \in {"close", "ended"} => c.end = "failed"
                             /\ <<n, "temporary">> \in unclean
        /\ \A r \in LateOf(n):
               /\ r.do \in {"create", "append", "commit"} => kind = "winrm" /\ c.op \in Writing
               /\ r.do \in {"put", "extract"} => kind = "archive" /\ c.op \in Writing
               /\ r.do \in {"open", "write"} => kind = "qga" /\ c.op \in Writing
               /\ r.do \in {"move", "check"} => kind = "qga" /\ c.op = "create"
               /\ c.at = "close" => r.do = "write"
               /\ r.do = "put" => LateOf(n) = {r}
               /\ r.do = "unlink" => c.at = "ended"
               /\ r.do \in {"commit", "move"} =>
                      /\ fs[n] # R!None => fs[n].pieces = R!Whole(n)
                      /\ \A q \in LateOf(n): q.do \notin {"create", "append", "open", "write"}

(* A temporary is its call's own, and holds what the call has sent.        *)
Sofar(e, n, k) == \A i \in 1 .. k: e.pieces[i] = n
Stages(n) ==
    LET c == call[n]
    IN  /\ fs[n] # R!None => fs[n].by = n
        /\ fs[n] # R!None => /\ c.at \in {"append", "commit", "unlink", "write", "close", "move",
                                          "check", "ended"}
                             /\ \/ kind = "winrm" /\ c.op \in Writing
                                \/ kind = "qga" /\ c.op = "create"
        /\ c.at = "append" => fs[n] # R!None /\ Sofar(fs[n], n, c.part - 1)
        /\ c.at \in {"commit", "move"} => fs[n] # R!None
        /\ c.at = "write" /\ c.op = "create" =>
               fs[n] # R!None /\ c.ino = n /\ Sofar(fs[n], n, c.part - 1)
        /\ c.at = "close" /\ c.op = "create" /\ c.end = "none" =>
               fs[n] # R!None /\ fs[n].pieces = R!Whole(n)
        /\ c.at \in {"commit", "move", "check"} /\ fs[n] # R!None => fs[n].pieces = R!Whole(n)
        /\ c.at = "check" /\ fs[n] = R!None => n \in landed
        /\ c.at = "ended" /\ fs[n] # R!None => <<n, "temporary">> \in unclean

(* The path, as a call that nobody has overtaken knows it.                 *)
Finds(n) ==
    LET c == call[n]
    IN  /\ c.at = "put" \/ (\E r \in LateOf(n): r.do = "put") =>
               /\ c.op = "create" => fs[R!Target] = R!None
               /\ c.op = "write" =>
                      /\ fs[R!Target] # R!Dir
                      /\ R!IsFile(fs[R!Target]) => fs[R!Target].owner = c.inherit
        /\ c.at = "extract" => R!IsFile(fs[R!Target]) /\ fs[R!Target].by = n
        /\ c.at = "write" /\ c.op = "write" =>
               /\ R!IsFile(fs[R!Target]) /\ fs[R!Target].by = c.ino
               /\ Sofar(fs[R!Target], n, c.part - 1)
        /\ c.at = "close" /\ c.op = "write" /\ c.end = "none" => n \in landed
        /\ kind = "winrm" /\ c.at = "ranges" /\ c.part > 1 =>
               R!IsFile(fs[R!Target]) /\ \A i \in 1 .. c.part - 1: c.got[i] = fs[R!Target].pieces[i]
        /\ kind = "winrm" /\ c.op \in {"read", "ranges"} /\ c.end = "done" => R!WholeValue(c.got)
        /\ c.end = "done" /\ c.op \in Writing => n \in landed

Held(n) ==
    n \in handles => \/ call[n].at \in {"write", "close"} \/ <<n, "handle">> \in unclean
                     \/ n \in orphaned

TargetWhole == R!StagedOnly /\ R!IsFile(fs[R!Target]) => R!WholeValue(fs[R!Target].pieces)

CallKept(n) ==
    /\ Sits(n) /\ Gives(n) /\ Stages(n) /\ Held(n)
    /\ n \in overtaken \/ Finds(n)

FilesInv == FilesTyped /\ TargetWhole /\ \A n \in Callers: CallKept(n)

Entries == {R!None, R!Dir} \cup AFile

(* Entries are told apart by their kind. *)
LEMMA EntryKinds ==
  /\ R!None # R!Dir /\ ~R!IsFile(R!None) /\ ~R!IsFile(R!Dir)
  /\ \A e \in Entries: /\ R!IsFile(e) <=> e \in AFile
                       /\ R!IsFile(e) <=> e # R!None /\ e # R!Dir
                       /\ e \in AFile => /\ e.pieces \in Values /\ e.by \in Writers
                                         /\ e.owner \in Owners
                       /\ e.type \in {"none", "file"} \/ e = R!Dir
<1>1. R!None.type = "none" /\ R!Dir.type = "dir"
  BY DEF R!None, R!Dir
<1>2. \A e \in AFile: /\ e.type = "file" /\ e.pieces \in Values /\ e.by \in Writers
                      /\ e.owner \in Owners
  BY DEF AFile
<1> QED
  BY <1>1, <1>2 DEF Entries, R!IsFile

LEMMA NamesApart ==
  /\ R!Target \in R!Names /\ Callers \subseteq R!Names
         /\ R!Target \notin Callers /\ R!Other \notin Callers
  /\ Callers \subseteq Writers /\ R!Other \in Writers
BY FilesAssumption DEF R!FilesAssumption, R!Target, R!Names, R!Other, Writers

LEMMA WholeIs ==
  ASSUME NEW w \in Writers \cup {0}
  PROVE  R!Whole(w) \in Values /\ \A i \in 1 .. Parts: R!Whole(w)[i] = w
BY DEF R!Whole, Values

LEMMA FileIs ==
  ASSUME NEW p \in Values, NEW w \in Writers, NEW o \in Owners
  PROVE  /\ R!File(p, w, o) \in AFile /\ R!File(p, w, o).pieces = p /\ R!File(p, w, o).by = w
         /\ R!File(p, w, o).owner = o
         /\ R!File(p, w, o) # R!None /\ R!File(p, w, o) # R!Dir /\ R!IsFile(R!File(p, w, o))
<1>1. R!File(p, w, o) \in AFile
  BY DEF R!File, AFile
<1>2. R!File(p, w, o) \in Entries
  BY <1>1 DEF Entries
<1> QED
  BY <1>1, <1>2, EntryKinds DEF R!File

(* An entry placed under one name. *)
LEMMA Placed ==
  ASSUME FilesTyped, NEW x \in R!Names, NEW e \in Entries, x \in Callers => e # R!Dir
  PROVE  /\ [fs EXCEPT ![x] = e] \in [R!Names -> Entries]
         /\ \A n \in Callers: [fs EXCEPT ![x] = e][n] # R!Dir
         /\ [fs EXCEPT ![x] = e][x] = e
         /\ \A y \in R!Names: y # x => [fs EXCEPT ![x] = e][y] = fs[y]
BY NamesApart DEF FilesTyped, Entries

(* What each request does. *)
Entered(f) == f \in [R!Names -> Entries] /\ \A n \in Callers: f[n] # R!Dir
OnlyAt(f, x) == \A y \in R!Names: y # x => f[y] = fs[y]

LEMMA Unplaced ==
  ASSUME FilesTyped
  PROVE  Entered(fs) /\ \A x: OnlyAt(fs, x)
BY DEF FilesTyped, Entered, OnlyAt, Entries

LEMMA CreateDoes ==
  ASSUME FilesTyped, NEW r \in Sent, r.do = "create"
  PROVE  LET f == R!Effect(r).fs
         IN  /\ Entered(f) /\ OnlyAt(f, r.n)
             /\ fs[r.n] # R!None => f = fs /\ R!Effect(r).result # "ok"
             /\ fs[r.n] = R!None => R!IsFile(f[r.n]) /\ f[r.n].by = r.n /\ f[r.n] # R!None
             /\ \A k \in Callers: ~(R!Effect(r).result = "ok" /\ fs[r.n] # R!None)
<1> DEFINE e == R!File(R!Empty, r.n, "root")
<1>1. r.n \in Callers /\ R!Effect(r) = R!CreateTemporary(r.n)
  BY DEF Sent, R!Effect
<1>2. e \in AFile /\ e # R!None /\ e # R!Dir /\ R!IsFile(e) /\ e.by = r.n /\ e \in Entries
  BY <1>1, NamesApart, WholeIs, FileIs DEF R!Empty, Owners, Entries
<1> HIDE DEF e
<1>3. CASE fs[r.n] = R!None
  <2>1. R!Effect(r) = [fs |-> [fs EXCEPT ![r.n] = e], result |-> "ok"]
    BY <1>1, <1>3 DEF R!CreateTemporary, R!Fine, e
  <2> QED
    BY <1>1, <1>2, <1>3, <2>1, Placed, NamesApart DEF Entered, OnlyAt
<1>4. CASE fs[r.n] # R!None
  <2>1. R!Effect(r) = [fs |-> fs, result |-> "error"]
    BY <1>1, <1>4 DEF R!CreateTemporary, R!Err
  <2> QED
    BY <1>4, <2>1, Unplaced
<1> QED
  BY <1>3, <1>4

(* A piece placed in a file. *)
LEMMA Pieced ==
  ASSUME NEW e \in AFile, NEW i \in 1 .. Parts, NEW w \in Writers
  PROVE  LET d == [e EXCEPT !.pieces[i] = w]
         IN  /\ d \in AFile /\ d.by = e.by /\ d.owner = e.owner /\ d.pieces[i] = w
             /\ \A j \in 1 .. Parts: j # i => d.pieces[j] = e.pieces[j]
<1> DEFINE p == [e.pieces EXCEPT ![i] = w]
<1>1. [e EXCEPT !.pieces[i] = w] = [e EXCEPT !.pieces = p]
  BY DEF AFile
<1>2. e.pieces \in Values
  BY DEF AFile
<1>3. p \in Values /\ p[i] = w /\ \A j \in 1 .. Parts: j # i => p[j] = e.pieces[j]
  BY <1>2 DEF Values
<1> HIDE DEF p
<1> QED
  BY <1>1, <1>3 DEF AFile

LEMMA AppendDoes ==
  ASSUME FilesTyped, NEW r \in Sent, r.do = "append", fs[r.n] # R!None => fs[r.n].by = r.n
  PROVE  LET f == R!Effect(r).fs
         IN  /\ Entered(f) /\ OnlyAt(f, r.n) /\ R!Effect(r).result = "ok"
             /\ f[r.n] # R!None /\ f[r.n].by = r.n /\ f[r.n].pieces[r.part] = r.n
             /\ fs[r.n] # R!None => \A i \in 1 .. Parts: i # r.part =>
                                      f[r.n].pieces[i] = fs[r.n].pieces[i]
<1> DEFINE e == IF fs[r.n] = R!None THEN R!File(R!Empty, r.n, "root") ELSE fs[r.n]
           d == [e EXCEPT !.pieces[r.part] = r.n]
<1>1. r.n \in Callers /\ r.part \in 1 .. Parts /\ R!Effect(r) = R!AppendPiece(r.n, r.part)
  BY DEF Sent, R!Effect
<1>2. e \in AFile /\ e.by = r.n
  <2>1. CASE fs[r.n] = R!None
    BY <1>1, <2>1, NamesApart, WholeIs, FileIs DEF R!Empty, Owners
  <2>2. CASE fs[r.n] # R!None
    <3>1. fs[r.n] \in Entries /\ fs[r.n] # R!Dir
      BY <1>1, NamesApart DEF FilesTyped, Entries
    <3> QED
      BY <2>2, <3>1 DEF Entries
  <2> QED
    BY <2>1, <2>2
<1>3. fs[r.n] # R!None => e = fs[r.n]
  OBVIOUS
<1>4. R!Effect(r) = [fs |-> [fs EXCEPT ![r.n] = d], result |-> "ok"]
  BY <1>1 DEF R!AppendPiece, R!Fine
<1> HIDE DEF e
<1>5. d \in AFile /\ d.by = r.n /\ d.pieces[r.part] = r.n
      /\ \A j \in 1 .. Parts: j # r.part => d.pieces[j] = e.pieces[j]
  BY <1>1, <1>2, NamesApart, Pieced
<1> HIDE DEF d
<1>6. d \in Entries /\ d # R!None /\ d # R!Dir
  BY <1>5, EntryKinds DEF Entries
<1> QED
  BY <1>1, <1>3, <1>4, <1>5, <1>6, Placed, NamesApart DEF Entered, OnlyAt

LEMMA UnlinkDoes ==
  ASSUME FilesTyped, NEW r \in Sent, r.do = "unlink"
  PROVE  LET f == R!Effect(r).fs
         IN  /\ Entered(f) /\ OnlyAt(f, r.n) /\ R!Effect(r).result = "ok" /\ f[r.n] = R!None
<1>1. r.n \in Callers /\ R!Effect(r) = [fs |-> [fs EXCEPT ![r.n] = R!None], result |-> "ok"]
  BY DEF Sent, R!Effect, R!Unlink, R!Fine
<1>2. R!None \in Entries /\ R!None # R!Dir
  BY EntryKinds DEF Entries
<1> QED
  BY <1>1, <1>2, Placed, NamesApart DEF Entered, OnlyAt

(* What moves the temporary over the path. *)
Moved(f, n) ==
    /\ fs[n] # R!None /\ f[n] = R!None /\ R!IsFile(f[R!Target])
    /\ f[R!Target].pieces = fs[n].pieces /\ f[R!Target].by = fs[n].by
    /\ \A y \in R!Names: y # n /\ y # R!Target => f[y] = fs[y]

LEMMA MovedIs ==
  ASSUME FilesTyped, NEW n \in Callers, fs[n] # R!None, NEW o \in Owners
  PROVE  LET e == [fs[n] EXCEPT !.owner = o]
             f == [fs EXCEPT ![R!Target] = e, ![n] = R!None]
         IN  Entered(f) /\ Moved(f, n) /\ f[R!Target].owner = o
<1> DEFINE e == [fs[n] EXCEPT !.owner = o]
           g == [fs EXCEPT ![R!Target] = e]
           f == [g EXCEPT ![n] = R!None]
<1>1. fs[n] \in AFile
  BY NamesApart DEF FilesTyped
<1>2. e \in AFile /\ e.pieces = fs[n].pieces /\ e.by = fs[n].by /\ e.owner = o
  BY <1>1 DEF AFile
<1>3. e \in Entries /\ R!IsFile(e)
  BY <1>2, EntryKinds DEF Entries
<1> HIDE DEF e
<1>4. Entered(g) /\ g[R!Target] = e /\ OnlyAt(g, R!Target)
  BY <1>3, Placed, NamesApart DEF Entered, OnlyAt
<1> HIDE DEF g
<1>5. Entered(f) /\ f[n] = R!None /\ \A y \in R!Names: y # n => f[y] = g[y]
  BY <1>4, NamesApart, EntryKinds DEF Entered, Entries
<1>6. f[R!Target] = e
  BY <1>4, <1>5, NamesApart
<1> HIDE DEF f
<1>7. Moved(f, n)
  BY <1>2, <1>3, <1>4, <1>5, <1>6 DEF Moved, OnlyAt
<1> QED
  BY <1>2, <1>5, <1>6, <1>7 DEF e, f, g

LEMMA SwappedIs ==
  ASSUME FilesTyped, NEW n \in Callers, fs[n] # R!None, R!IsFile(fs[R!Target])
  PROVE  /\ R!Replaced(n).result = "ok" /\ Entered(R!Replaced(n).fs) /\ Moved(R!Replaced(n).fs, n)
         /\ R!Replaced(n).fs[R!Target].owner = fs[R!Target].owner
<1> DEFINE f == [fs EXCEPT ![R!Target] = [fs[n] EXCEPT !.owner = fs[R!Target].owner], ![n] = R!None]
<1>1. R!Replaced(n) = [fs |-> f, result |-> "ok"]
  BY Zenon DEF R!Replaced, R!Fine
<1>2. fs[R!Target].owner \in Owners
  BY EntryKinds, NamesApart DEF FilesTyped, Entries
<1>3. Entered(f) /\ Moved(f, n) /\ f[R!Target].owner = fs[R!Target].owner
  BY <1>2, MovedIs, Zenon
<1> HIDE DEF f
<1> QED
  BY <1>1, <1>3

LEMMA RenamedIs ==
  ASSUME FilesTyped, NEW n \in Callers, fs[n] # R!None
  PROVE  R!Renamed(n).result = "ok" /\ Entered(R!Renamed(n).fs) /\ Moved(R!Renamed(n).fs, n)
<1> DEFINE e == [fs[n] EXCEPT !.owner = fs[n].owner]
           f == [fs EXCEPT ![R!Target] = fs[n], ![n] = R!None]
           g == [fs EXCEPT ![R!Target] = e, ![n] = R!None]
<1>1. R!Renamed(n) = [fs |-> f, result |-> "ok"]
  BY Zenon DEF R!Renamed, R!Fine
<1>2. fs[n] \in AFile
  BY NamesApart DEF FilesTyped
<1>3. fs[n] = e /\ fs[n].owner \in Owners
  BY <1>2 DEF AFile
<1>4. Entered(g) /\ Moved(g, n)
  BY <1>3, MovedIs, Zenon
<1> HIDE DEF e
<1>5. f = g
  BY <1>3, Zenon
<1> HIDE DEF f, g
<1> QED
  BY <1>1, <1>4, <1>5

LEMMA CommitDoes ==
  ASSUME FilesTyped, NEW r \in Sent, r.do = "commit"
  PROVE  LET f == R!Effect(r).fs
         IN  /\ Entered(f)
             /\ \/ f = fs /\ R!Effect(r).result # "ok"
                \/ /\ Moved(f, r.n) /\ fs[R!Target] # R!Dir
                   /\ R!IsFile(fs[R!Target]) => /\ call[r.n].op = "write"
                                                /\ f[R!Target].owner = fs[R!Target].owner
<1>0. r.n \in Callers /\ R!Effect(r) = R!Commit(r.n)
  BY DEF Sent, R!Effect
<1>1. fs[R!Target] \in Entries
  BY NamesApart DEF FilesTyped, Entries
<1>2. CASE fs[r.n] # R!None /\ R!IsFile(fs[R!Target]) /\ call[r.n].op = "write"
  <2>1. R!Effect(r) = R!Replaced(r.n)
    BY <1>0, <1>1, <1>2, EntryKinds DEF R!Commit
  <2>2. fs[R!Target] # R!Dir
    BY <1>1, <1>2, EntryKinds
  <2> QED
    BY <1>0, <1>2, <2>1, <2>2, SwappedIs
<1>3. CASE fs[r.n] # R!None /\ fs[R!Target] = R!None
  <2>1. R!Effect(r) = R!Renamed(r.n)
    BY <1>0, <1>3, EntryKinds DEF R!Commit
  <2> QED
    BY <1>0, <1>3, <2>1, RenamedIs, EntryKinds
<1>4. CASE \/ fs[r.n] = R!None
           \/ ~(R!IsFile(fs[R!Target]) /\ call[r.n].op = "write") /\ fs[R!Target] # R!None
  <2>1. R!Effect(r) = [fs |-> fs, result |-> "error"]
    BY <1>0, <1>4, EntryKinds DEF R!Commit, R!Err
  <2> QED
    BY <2>1, Unplaced
<1> QED
  BY <1>2, <1>3, <1>4

LEMMA PutDoes ==
  ASSUME FilesTyped, NEW r \in Sent, r.do = "put"
  PROVE  LET f == R!Effect(r).fs
         IN  /\ Entered(f) /\ OnlyAt(f, R!Target)
             /\ R!IsFile(f[R!Target]) /\ f[R!Target].by = r.n
             /\ f[R!Target].owner = call[r.n].inherit
<1> DEFINE e == R!File(R!Empty, r.n, call[r.n].inherit)
<1>1. r.n \in Callers /\ R!Effect(r) = [fs |-> [fs EXCEPT ![R!Target] = e], result |-> "ok"]
  BY DEF Sent, R!Effect, R!Put, R!Fine
<1>2. call[r.n].inherit \in Owners
  BY <1>1 DEF FilesTyped, Doing
<1>3. e \in AFile /\ R!IsFile(e) /\ e.by = r.n /\ e.owner = call[r.n].inherit /\ e \in Entries
  BY <1>1, <1>2, NamesApart, WholeIs, FileIs DEF R!Empty, Entries
<1> HIDE DEF e
<1> QED
  BY <1>1, <1>3, Placed, NamesApart DEF Entered, OnlyAt

LEMMA ExtractDoes ==
  ASSUME FilesTyped, NEW r \in Sent, r.do = "extract"
  PROVE  LET f == R!Effect(r).fs
         IN  /\ Entered(f) /\ OnlyAt(f, R!Target)
             /\ IF R!IsFile(fs[R!Target]) /\ fs[R!Target].by = r.n
                THEN /\ R!IsFile(f[R!Target]) /\ f[R!Target].by = r.n
                     /\ f[R!Target].owner = fs[R!Target].owner /\ f[R!Target].pieces = R!Whole(r.n)
                ELSE f = fs
<1>1. r.n \in Callers /\ R!Effect(r) = R!Extract(r.n)
  BY DEF Sent, R!Effect
<1>2. CASE R!IsFile(fs[R!Target]) /\ fs[R!Target].by = r.n
  <2> DEFINE e == [fs[R!Target] EXCEPT !.pieces = R!Whole(r.n)]
  <2>1. fs[R!Target] \in AFile
    BY <1>2, EntryKinds, NamesApart DEF FilesTyped, Entries
  <2>2. R!Effect(r) = [fs |-> [fs EXCEPT ![R!Target] = e], result |-> "ok"]
    BY <1>1, <1>2 DEF R!Extract, R!Fine
  <2>3. e \in AFile /\ e.by = r.n /\ e.owner = fs[R!Target].owner /\ e.pieces = R!Whole(r.n)
    BY <1>1, <1>2, <2>1, WholeIs, NamesApart DEF AFile
  <2> HIDE DEF e
  <2>4. e \in Entries /\ R!IsFile(e)
    BY <2>3, EntryKinds DEF Entries
  <2> QED
    BY <1>2, <2>2, <2>3, <2>4, Placed, NamesApart DEF Entered, OnlyAt
<1>3. CASE ~(R!IsFile(fs[R!Target]) /\ fs[R!Target].by = r.n)
  <2>1. R!Effect(r) = [fs |-> fs, result |-> "ok"]
    BY <1>1, <1>3 DEF R!Extract, R!Fine
  <2> QED
    BY <1>3, <2>1, Unplaced
<1> QED
  BY <1>2, <1>3

Named(n) == IF call[n].op = "create" THEN n ELSE R!Target

LEMMA OpenDoes ==
  ASSUME FilesTyped, NEW r \in Sent, r.do = "open"
  PROVE  LET f == R!Effect(r).fs  x == Named(r.n)
         IN  /\ Entered(f) /\ OnlyAt(f, x) /\ x \in R!Names
             /\ IF fs[x] = R!Dir THEN f = fs /\ R!Effect(r).result # "ok"
                ELSE /\ R!IsFile(f[x])
                     /\ f[x].by = (IF fs[x] = R!None THEN r.n ELSE fs[x].by)
                     /\ fs[x] # R!None => f[x].owner = fs[x].owner
<1> DEFINE x == Named(r.n)
<1>1. r.n \in Callers /\ R!Effect(r) = R!OpenFor(r.n, x) /\ x \in R!Names
  BY NamesApart DEF Sent, R!Effect, Named
<1>2. fs[x] \in Entries
  BY <1>1 DEF FilesTyped, Entries
<1> HIDE DEF x
<1>3. CASE fs[x] = R!None
  <2> DEFINE e == R!File(R!Empty, r.n, "root")
  <2>1. R!Effect(r) = [fs |-> [fs EXCEPT ![x] = e], result |-> "ok"]
    BY <1>1, <1>3, EntryKinds DEF R!OpenFor, R!Fine
  <2>2. e \in AFile /\ R!IsFile(e) /\ e.by = r.n /\ e \in Entries /\ e # R!Dir
    BY <1>1, NamesApart, WholeIs, FileIs DEF R!Empty, Entries, Owners
  <2> HIDE DEF e
  <2> QED
    BY <1>1, <1>3, <2>1, <2>2, Placed, EntryKinds DEF Entered, OnlyAt, x
<1>4. CASE R!IsFile(fs[x])
  <2> DEFINE e == [fs[x] EXCEPT !.pieces = R!Empty]
  <2>1. fs[x] \in AFile /\ fs[x] # R!None /\ fs[x] # R!Dir
    BY <1>2, <1>4, EntryKinds
  <2>2. R!Effect(r) = [fs |-> [fs EXCEPT ![x] = e], result |-> "ok"]
    BY <1>1, <1>4, <2>1 DEF R!OpenFor, R!Fine
  <2>3. e \in AFile /\ e.by = fs[x].by /\ e.owner = fs[x].owner
    BY <2>1, WholeIs DEF AFile, R!Empty
  <2> HIDE DEF e
  <2>4. e \in Entries /\ R!IsFile(e) /\ e # R!Dir
    BY <2>3, EntryKinds DEF Entries
  <2> QED
    BY <1>1, <2>1, <2>2, <2>3, <2>4, Placed DEF Entered, OnlyAt, x
<1>5. CASE fs[x] = R!Dir
  <2>1. R!Effect(r) = [fs |-> fs, result |-> "error"]
    BY <1>1, <1>5, EntryKinds DEF R!OpenFor, R!Err
  <2> QED
    BY <1>1, <1>5, <2>1, Unplaced DEF x
<1> QED
  BY <1>2, <1>3, <1>4, <1>5, EntryKinds

LEMMA WriteDoes ==
  ASSUME FilesTyped, NEW r \in Sent, r.do = "write"
  PROVE  LET f == R!Effect(r).fs  x == Named(r.n)
         IN  /\ Entered(f) /\ OnlyAt(f, x) /\ x \in R!Names
             /\ IF R!IsFile(fs[x]) /\ fs[x].by = call[r.n].ino
                THEN /\ R!IsFile(f[x]) /\ f[x].by = fs[x].by /\ f[x].owner = fs[x].owner
                     /\ f[x].pieces[r.part] = r.n
                     /\ \A i \in 1 .. Parts: i # r.part => f[x].pieces[i] = fs[x].pieces[i]
                ELSE f = fs
<1> DEFINE x == Named(r.n)
<1>1. r.n \in Callers /\ r.part \in 1 .. Parts /\ R!Effect(r) = R!WritePiece(r.n, x, r.part)
      /\ x \in R!Names
  BY NamesApart DEF Sent, R!Effect, Named
<1> HIDE DEF x
<1>2. CASE R!IsFile(fs[x]) /\ fs[x].by = call[r.n].ino
  <2> DEFINE e == [fs[x] EXCEPT !.pieces[r.part] = r.n]
  <2>1. fs[x] \in AFile
    BY <1>1, <1>2, EntryKinds DEF FilesTyped, Entries
  <2>2. R!Effect(r) = [fs |-> [fs EXCEPT ![x] = e], result |-> "ok"]
    BY <1>1, <1>2 DEF R!WritePiece, R!Fine
  <2>3. /\ e \in AFile /\ e.by = fs[x].by /\ e.owner = fs[x].owner /\ e.pieces[r.part] = r.n
        /\ \A j \in 1 .. Parts: j # r.part => e.pieces[j] = fs[x].pieces[j]
    BY <1>1, <2>1, NamesApart, Pieced
  <2> HIDE DEF e
  <2>4. e \in Entries /\ R!IsFile(e) /\ e # R!Dir
    BY <2>3, EntryKinds DEF Entries
  <2> QED
    BY <1>1, <1>2, <2>2, <2>3, <2>4, Placed DEF Entered, OnlyAt, x
<1>3. CASE ~(R!IsFile(fs[x]) /\ fs[x].by = call[r.n].ino)
  <2>1. R!Effect(r) = [fs |-> fs, result |-> "ok"]
    BY <1>1, <1>3 DEF R!WritePiece, R!Fine
  <2> QED
    BY <1>1, <1>3, <2>1, Unplaced DEF x
<1> QED
  BY <1>2, <1>3

LEMMA MoveDoes ==
  ASSUME FilesTyped, NEW r \in Sent, r.do = "move"
  PROVE  LET f == R!Effect(r).fs
         IN  /\ Entered(f)
             /\ \/ f = fs /\ (fs[R!Target] # R!None \/ fs[r.n] = R!None)
                \/ fs[R!Target] = R!None /\ Moved(f, r.n)
<1>1. r.n \in Callers /\ R!Effect(r) = R!MoveNoReplace(r.n)
  BY DEF Sent, R!Effect
<1>2. CASE fs[R!Target] = R!None /\ fs[r.n] # R!None
  <2>1. R!Effect(r) = R!Renamed(r.n)
    BY <1>1, <1>2 DEF R!MoveNoReplace
  <2> QED
    BY <1>1, <1>2, <2>1, RenamedIs
<1>3. CASE ~(fs[R!Target] = R!None /\ fs[r.n] # R!None)
  <2>1. R!Effect(r) = [fs |-> fs, result |-> "ok"]
    BY <1>1, <1>3 DEF R!MoveNoReplace, R!Fine
  <2> QED
    BY <1>3, <2>1, Unplaced
<1> QED
  BY <1>2, <1>3

LEMMA CheckDoes ==
  ASSUME FilesTyped, NEW r \in Sent, r.do = "check"
  PROVE  /\ Entered(R!Effect(r).fs) /\ R!Effect(r).fs = fs
         /\ R!Effect(r).result = "ok" => fs[r.n] = R!None
<1>1. R!Effect(r) = (IF fs[r.n] = R!None THEN [fs |-> fs, result |-> "ok"]
                   ELSE [fs |-> fs, result |-> "error"])
  BY DEF Sent, R!Effect, R!StatTemporary, R!Fine, R!Err
<1> QED
  BY <1>1, Unplaced

(* A step of one call, or of what it gave up, seen by the others. *)
Touches(n) ==
    /\ kind' = kind
    /\ \A m \in Callers: m # n =>
           /\ call'[m] = call[m] /\ fs'[m] = fs[m] /\ (m \in handles' => m \in handles)
           /\ \A r \in Sent: r.n = m => (r \in late' <=> r \in late)
           /\ fs'[R!Target] # fs[R!Target] /\ R!Looked(m) => m \in overtaken'
    /\ landed \subseteq landed' /\ overtaken \subseteq overtaken' /\ unclean \subseteq unclean'
    /\ orphaned \subseteq orphaned'

LEMMA OthersKeep ==
  ASSUME FilesTyped, FilesTyped', NEW n \in Writers, Touches(n),
         NEW m \in Callers, m # n, CallKept(m)
  PROVE  CallKept(m)'
<1>1. /\ kind' = kind /\ call'[m] = call[m] /\ fs'[m] = fs[m] /\ (m \in handles' => m \in handles)
      /\ fs'[R!Target] # fs[R!Target] /\ R!Looked(m) => m \in overtaken'
      /\ landed \subseteq landed' /\ overtaken \subseteq overtaken' /\ unclean \subseteq unclean'
      /\ orphaned \subseteq orphaned'
  BY DEF Touches
<1>2. LateOf(m)' = LateOf(m)
  BY DEF LateOf, Touches, FilesTyped
<1>3. Sits(m)'
  BY <1>1 DEF CallKept, Sits
<1>4. Gives(m)'
  BY <1>1, <1>2 DEF CallKept, Gives, R!Whole
<1>5. Stages(m)'
  BY <1>1 DEF CallKept, Stages, Sofar, R!Whole
<1>6. Held(m)'
  BY <1>1 DEF CallKept, Held
<1>7. (m \in overtaken \/ Finds(m))'
  <2> SUFFICES ASSUME m \notin overtaken' PROVE Finds(m)'
    OBVIOUS
  <2>1. Finds(m)
    BY <1>1 DEF CallKept
  <2>2. CASE fs'[R!Target] = fs[R!Target]
    BY <1>1, <1>2, <2>1, <2>2 DEF Finds, R!IsFile, Sofar, R!WholeValue, R!Whole
  <2>3. CASE fs'[R!Target] # fs[R!Target]
    <3>1. ~R!Looked(m)
      BY <1>1, <2>3
    <3>2. /\ call[m].at \notin {"put", "extract", "write"} /\ LateOf(m) = {}
          /\ ~(call[m].at = "ranges" /\ call[m].part > 1)
      BY <3>1 DEF R!Looked, LateOf
    <3> QED
      BY <1>1, <1>2, <2>1, <3>2 DEF Finds, R!WholeValue, R!Whole
  <2> QED
    BY <2>2, <2>3
<1> QED
  BY <1>3, <1>4, <1>5, <1>6, <1>7 DEF CallKept

(* Where a call goes. *)
LEMMA CallIs ==
  ASSUME FilesTyped, NEW n \in Callers
  PROVE  /\ call[n] \in Doing /\ call[n].part \in 1 .. Parts /\ call[n].ino \in Writers \cup {0}
         /\ call[n].inherit \in Owners /\ call[n].got \in Values
         /\ call[n].op \in {"none", "write", "create", "read", "ranges"}
         /\ call[n].end \in {"none", "done", "failed"}
<1>1. call[n] \in Doing
  BY DEF FilesTyped
<1> QED
  BY <1>1 DEF Doing

Ats == {"idle", "create", "append", "commit", "unlink", "stat", "inherit", "put", "extract",
        "open", "write", "close", "move", "check", "read", "ranges", "ended"}

(* The others stay; and of the call itself, all but its place and its end. *)
Alone(n) == call' \in [Callers -> Doing] /\ \A m \in Callers: m # n => call'[m] = call[m]
SameWork(n) ==
    /\ call'[n].op = call[n].op /\ call'[n].ino = call[n].ino
    /\ call'[n].inherit = call[n].inherit /\ call'[n].got = call[n].got

LEMMA GoesIs ==
  ASSUME FilesTyped, NEW n \in Callers, NEW a \in Ats, R!Goes(n, a)
  PROVE  /\ Alone(n) /\ SameWork(n) /\ call'[n].at = a
         /\ call'[n].part = call[n].part /\ call'[n].end = call[n].end
<1>1. call[n] \in Doing /\ call \in [Callers -> Doing]
  BY CallIs DEF FilesTyped
<1>2. [call[n] EXCEPT !.at = a] \in Doing
  BY <1>1 DEF Doing, Ats
<1>3. call' = [call EXCEPT ![n] = [call[n] EXCEPT !.at = a]]
  BY <1>1 DEF R!Goes
<1> QED
  BY <1>1, <1>2, <1>3 DEF Alone, SameWork, Doing

LEMMA EndsIs ==
  ASSUME FilesTyped, NEW n \in Callers, NEW how \in {"done", "failed"}, R!Ends(n, how)
  PROVE  /\ Alone(n) /\ SameWork(n) /\ call'[n].at = "ended"
         /\ call'[n].part = call[n].part /\ call'[n].end = how
<1>1. call[n] \in Doing /\ call \in [Callers -> Doing]
  BY CallIs DEF FilesTyped
<1>2. [call[n] EXCEPT !.at = "ended", !.end = how] \in Doing
  BY <1>1 DEF Doing
<1>3. call' = [call EXCEPT ![n] = [call[n] EXCEPT !.at = "ended", !.end = how]]
  BY <1>1 DEF R!Ends
<1> QED
  BY <1>1, <1>2, <1>3 DEF Alone, SameWork, Doing

LEMMA NextPieceIs ==
  ASSUME FilesTyped, NEW n \in Callers, NEW a \in Ats, R!NextPiece(n, a)
  PROVE  /\ Alone(n) /\ SameWork(n) /\ call'[n].end = call[n].end
         /\ IF call[n].part = Parts THEN call'[n].at = a /\ call'[n].part = Parts
            ELSE call'[n].at = call[n].at /\ call'[n].part = call[n].part + 1
<1> DEFINE at == IF call[n].part = Parts THEN a ELSE call[n].at
           after == IF call[n].part = Parts THEN call[n].part ELSE call[n].part + 1
<1>1. call[n] \in Doing /\ call \in [Callers -> Doing] /\ call[n].part \in 1 .. Parts
      /\ Parts \in Nat
  BY CallIs, FilesAssumption DEF FilesTyped, R!FilesAssumption
<1>2. after \in 1 .. Parts /\ at \in Ats
  BY <1>1 DEF Ats, Doing
<1>3. call' = [call EXCEPT ![n] = [call[n] EXCEPT !.at = at, !.part = after]]
  BY <1>1 DEF R!NextPiece
<1>4. /\ at = IF call[n].part = Parts THEN a ELSE call[n].at
      /\ after = IF call[n].part = Parts THEN Parts ELSE call[n].part + 1
  OBVIOUS
<1> HIDE DEF at, after
<1>5. [call[n] EXCEPT !.at = at, !.part = after] \in Doing
  BY <1>1, <1>2 DEF Doing, Ats
<1> QED
  BY <1>1, <1>3, <1>4, <1>5 DEF Alone, SameWork, Doing

(* How a request may come out. *)
Done(q) == R!Effect(q).result = "ok" /\ fs' = R!Effect(q).fs /\ late' = late /\ unclean' = unclean
Fails(q) ==
    /\ unclean \subseteq unclean'
    /\ \/ fs' = R!Effect(q).fs /\ late' = late
       \/ /\ fs' = fs /\ late' \in {late, late \cup {q}}
          /\ late' # late \/ q.do = "unlink" => <<q.n, "temporary">> \in unclean'

LEMMA RequestIs ==
  ASSUME FilesTyped, NEW n \in Callers,
         NEW do \in {"create", "append", "commit", "unlink", "put", "extract", "open", "write",
                     "move", "check"}
  PROVE  LET q == R!Request(n, do, call[n].part)
         IN  q \in Sent /\ q.n = n /\ q.do = do /\ q.part = call[n].part
BY CallIs DEF R!Request, Sent

(* The frame of a request, done or not. *)
LEMMA Framed ==
  ASSUME FilesTyped, NEW n \in Callers, NEW q \in Sent, q.n = n, Done(q) \/ Fails(q),
         Entered(R!Effect(q).fs), \A m \in Callers: m # n => R!Effect(q).fs[m] = fs[m],
         Alone(n), kind' = kind, outside' = outside, R!Overtakes(n), R!Lands,
         handles' \subseteq Callers, \A m \in Callers: m # n => (m \in handles' => m \in handles),
         orphaned \subseteq orphaned', orphaned' \subseteq Callers
  PROVE  /\ FilesTyped' /\ Touches(n)
         /\ LateOf(n)' \in {LateOf(n), LateOf(n) \cup {q}}
         /\ LateOf(n)' # LateOf(n) => fs' = fs /\ <<n, "temporary">> \in unclean' /\ ~Done(q)
<1>1. /\ Entered(fs') /\ \A m \in Callers: m # n => fs'[m] = fs[m]
      /\ late' \subseteq Sent /\ late' \in {late, late \cup {q}}
      /\ unclean \subseteq unclean'
      /\ late' # late => fs' = fs /\ <<n, "temporary">> \in unclean' /\ ~Done(q)
  BY Unplaced DEF Done, Fails, FilesTyped
<1>2. /\ landed' \subseteq Callers /\ landed \subseteq landed'
      /\ overtaken' \subseteq Callers /\ overtaken \subseteq overtaken'
      /\ \A m \in Callers: m # n /\ fs'[R!Target] # fs[R!Target] /\ R!Looked(m) => m \in overtaken'
  BY DEF R!Lands, R!Overtakes, FilesTyped
<1>3. FilesTyped'
  BY <1>1, <1>2 DEF FilesTyped, Entered, Entries, Alone
<1>4. Touches(n)
  BY <1>1, <1>2 DEF Touches, Alone
<1>5. LateOf(n)' \in {LateOf(n), LateOf(n) \cup {q}} /\ (late' = late => LateOf(n)' = LateOf(n))
  BY <1>1 DEF LateOf
<1> QED
  BY <1>1, <1>3, <1>4, <1>5

(* What may be at the path when only staged values go there. *)
LEMMA TargetStays ==
  ASSUME FilesTyped, TargetWhole, NEW n \in Writers, Touches(n),
         n \in Callers => call[n].op \in {"none", call'[n].op},
         R!StagedOnly' => \/ fs'[R!Target] = fs[R!Target] \/ ~R!IsFile(fs'[R!Target])
                          \/ R!WholeValue(fs'[R!Target].pieces)
  PROVE  TargetWhole'
<1>1. \A p: R!WholeValue(p)' = R!WholeValue(p)
  BY DEF R!WholeValue, R!Whole
<1>2. R!StagedOnly' => R!StagedOnly
  <2>1. \A m \in Callers: call[m].op = "write" => call'[m].op = "write"
    BY DEF Touches
  <2> QED
    BY <2>1 DEF R!StagedOnly, Touches
<1> QED
  BY <1>1, <1>2 DEF TargetWhole, R!IsFile

LEMMA StepKeeps ==
  ASSUME FilesInv, FilesTyped', NEW n \in Writers, Touches(n), TargetWhole',
         n \in Callers => CallKept(n)'
  PROVE  FilesInv'
<1>1. \A m \in Callers: m # n => CallKept(m)'
  BY OthersKeep DEF FilesInv
<1> QED
  BY <1>1 DEF FilesInv

(* WinRM's write, request by request. *)
LEMMA WinRMCreates ==
  ASSUME FilesInv, NEW n \in Callers, kind = "winrm", R!At(n, "create"),
         R!Asks(n, "create", R!Goes(n, "append"), R!Aborts(n)), R!Overtakes(n), R!Lands,
         UNCHANGED <<kind, handles, orphaned, outside>>
  PROVE  FilesInv'
<1> DEFINE q == R!Request(n, "create", call[n].part)
<1>1. q \in Sent /\ q.n = n /\ q.do = "create" /\ q.part = call[n].part
  BY RequestIs DEF FilesInv
<1>2. (Done(q) /\ R!Goes(n, "append")) \/ (Fails(q) /\ R!Goes(n, "unlink"))
  BY <1>1 DEF R!Asks, R!Sends, Done, Fails, R!Aborts
<1> HIDE DEF q
<1>3. /\ Entered(R!Effect(q).fs) /\ OnlyAt(R!Effect(q).fs, n)
      /\ fs[n] # R!None => R!Effect(q).fs = fs /\ R!Effect(q).result # "ok"
      /\ fs[n] = R!None => /\ R!Effect(q).fs[n].by = n /\ R!Effect(q).fs[n] # R!None
  BY <1>1, CreateDoes DEF FilesInv
<1>4. FilesTyped /\ CallKept(n) /\ TargetWhole
  BY DEF FilesInv
<1>5. /\ Alone(n) /\ SameWork(n) /\ call'[n].at \in {"append", "unlink"}
      /\ call'[n].part = call[n].part /\ call'[n].end = call[n].end
      /\ call'[n].at = "append" => Done(q)
  BY <1>2, <1>4, GoesIs DEF Ats
<1>6. /\ FilesTyped' /\ Touches(n)
      /\ LateOf(n)' \in {LateOf(n), LateOf(n) \cup {q}}
      /\ LateOf(n)' # LateOf(n) => fs' = fs /\ <<n, "temporary">> \in unclean' /\ ~Done(q)
  BY <1>1, <1>2, <1>3, <1>4, <1>5, Framed, NamesApart DEF OnlyAt, FilesTyped
<1>7. /\ call[n].at = "create" /\ call[n].part = 1 /\ call[n].op \in Writing
      /\ call[n].end = "none" /\ LateOf(n) = {} /\ fs[n] = R!None
  BY <1>4, CallIs DEF CallKept, Sits, Gives, Stages, R!At
<1>8. /\ fs'[n] # R!None => fs'[n].by = n
      /\ call'[n].at = "append" => fs'[n] # R!None
  BY <1>1, <1>2, <1>3, <1>5, <1>7 DEF Done, Fails
<1>9. CallKept(n)'
  <2>1. Sits(n)'
    BY <1>5, <1>7 DEF Sits, SameWork, Writing
  <2>2. Gives(n)'
    BY <1>1, <1>5, <1>6, <1>7 DEF Gives, SameWork, Touches
  <2>3. Stages(n)'
    BY <1>5, <1>7, <1>8 DEF Stages, SameWork, Sofar
  <2>4. Held(n)'
    BY <1>4, <1>5, <1>6, <1>7 DEF CallKept, Held, Touches
  <2>5. Finds(n)'
    BY <1>1, <1>5, <1>6, <1>7 DEF Finds, SameWork
  <2> QED
    BY <2>1, <2>2, <2>3, <2>4, <2>5 DEF CallKept
<1>10. TargetWhole'
  <2>1. fs'[R!Target] = fs[R!Target]
    BY <1>2, <1>3, NamesApart DEF OnlyAt, Done, Fails
  <2> QED
    BY <1>4, <1>5, <1>6, <2>1, CallIs, TargetStays, NamesApart DEF SameWork
<1> QED
  BY <1>6, <1>9, <1>10, StepKeeps, NamesApart

LEMMA WinRMAppends ==
  ASSUME FilesInv, NEW n \in Callers, kind = "winrm", R!At(n, "append"),
         R!Asks(n, "append", R!NextPiece(n, "commit"), R!Aborts(n)), R!Overtakes(n), R!Lands,
         UNCHANGED <<kind, handles, orphaned, outside>>
  PROVE  FilesInv'
<1> DEFINE q == R!Request(n, "append", call[n].part)
<1>1. q \in Sent /\ q.n = n /\ q.do = "append" /\ q.part = call[n].part
  BY RequestIs DEF FilesInv
<1>2. (Done(q) /\ R!NextPiece(n, "commit")) \/ (Fails(q) /\ R!Goes(n, "unlink"))
  BY <1>1 DEF R!Asks, R!Sends, Done, Fails, R!Aborts
<1> HIDE DEF q
<1>3. FilesTyped /\ CallKept(n) /\ TargetWhole
  BY DEF FilesInv
<1>4. /\ call[n].at = "append" /\ call[n].op \in Writing /\ call[n].end = "none"
      /\ LateOf(n) = {} /\ fs[n] # R!None /\ fs[n].by = n
      /\ \A i \in 1 .. call[n].part - 1: fs[n].pieces[i] = n
      /\ call[n].part \in 1 .. Parts /\ Parts \in Nat
  BY <1>3, CallIs, FilesAssumption
     DEF CallKept, Sits, Gives, Stages, R!At, Sofar, R!FilesAssumption
<1>5. /\ Entered(R!Effect(q).fs) /\ OnlyAt(R!Effect(q).fs, n)
      /\ R!Effect(q).fs[n] # R!None /\ R!Effect(q).fs[n].by = n
      /\ R!Effect(q).fs[n].pieces[call[n].part] = n
      /\ \A i \in 1 .. Parts: i # call[n].part => R!Effect(q).fs[n].pieces[i] = fs[n].pieces[i]
  BY <1>1, <1>3, <1>4, AppendDoes
<1>6. /\ Alone(n) /\ SameWork(n) /\ call'[n].end = call[n].end
      /\ \/ /\ Done(q)
            /\ IF call[n].part = Parts THEN call'[n].at = "commit" /\ call'[n].part = Parts
               ELSE call'[n].at = "append" /\ call'[n].part = call[n].part + 1
         \/ call'[n].at = "unlink"
  <2>1. CASE Done(q) /\ R!NextPiece(n, "commit")
    <3>1. "commit" \in Ats
      BY DEF Ats
    <3> QED
      BY <1>3, <1>4, <2>1, <3>1, NextPieceIs
  <2>2. CASE Fails(q) /\ R!Goes(n, "unlink")
    <3>1. "unlink" \in Ats
      BY DEF Ats
    <3> QED
      BY <1>3, <1>4, <2>2, <3>1, GoesIs
  <2> QED
    BY <1>2, <2>1, <2>2
<1>7. /\ FilesTyped' /\ Touches(n)
      /\ LateOf(n)' \in {LateOf(n), LateOf(n) \cup {q}}
      /\ LateOf(n)' # LateOf(n) => fs' = fs /\ <<n, "temporary">> \in unclean' /\ ~Done(q)
  BY <1>1, <1>2, <1>3, <1>5, <1>6, Framed, NamesApart DEF OnlyAt, FilesTyped
<1>8. /\ fs'[n] # R!None /\ fs'[n].by = n
      /\ Done(q) => \A i \in 1 .. call[n].part: fs'[n].pieces[i] = n
  <2>1. fs' = fs \/ fs' = R!Effect(q).fs
    BY <1>2 DEF Done, Fails
  <2>2. ASSUME Done(q) PROVE \A i \in 1 .. call[n].part: fs'[n].pieces[i] = n
    <3>1. fs' = R!Effect(q).fs
      BY <2>2 DEF Done
    <3>2. \A i \in 1 .. call[n].part: i = call[n].part \/ i \in 1 .. call[n].part - 1
      BY <1>4
    <3>3. \A i \in 1 .. call[n].part: i \in 1 .. Parts
      BY <1>4
    <3> QED
      BY <1>4, <1>5, <3>1, <3>2, <3>3
  <2> QED
    BY <1>4, <1>5, <2>1, <2>2
<1>9. CallKept(n)'
  <2>1. Sits(n)'
    BY <1>3, <1>4, <1>6 DEF Sits, SameWork, Writing
  <2>2. Gives(n)'
    BY <1>1, <1>4, <1>6, <1>7 DEF Gives, SameWork, Touches
  <2>4. call'[n].at = "append" => \A i \in 1 .. call'[n].part - 1: fs'[n].pieces[i] = n
    BY <1>4, <1>6, <1>8
  <2>5. call'[n].at = "commit" => fs'[n].pieces = R!Whole(n)
    <3> SUFFICES ASSUME call'[n].at = "commit" PROVE fs'[n].pieces = R!Whole(n)
      OBVIOUS
    <3>1. \A i \in 1 .. Parts: fs'[n].pieces[i] = n
      BY <1>4, <1>6, <1>8
    <3>2. fs'[n] \in AFile
      BY <1>7, <1>8, NamesApart DEF FilesTyped
    <3>3. fs'[n].pieces \in Values
      BY <3>2 DEF AFile
    <3> QED
      BY <3>1, <3>3 DEF Values, R!Whole
  <2>6. Stages(n)'
    BY <1>4, <1>6, <1>8, <2>4, <2>5, <1>7, <1>3 DEF Stages, SameWork, Sofar, R!Whole, Touches
  <2>7. Held(n)'
    BY <1>3, <1>4, <1>6, <1>7 DEF CallKept, Held, Touches
  <2>8. Finds(n)'
    BY <1>1, <1>4, <1>6, <1>7 DEF Finds, SameWork
  <2> QED
    BY <2>1, <2>2, <2>6, <2>7, <2>8 DEF CallKept
<1>10. TargetWhole'
  <2>1. fs'[R!Target] = fs[R!Target]
    BY <1>2, <1>5, NamesApart DEF OnlyAt, Done, Fails
  <2> QED
    BY <1>3, <1>6, <1>7, <2>1, CallIs, TargetStays, NamesApart DEF SameWork
<1> QED
  BY <1>7, <1>9, <1>10, StepKeeps, NamesApart

LEMMA WinRMCommits ==
  ASSUME FilesInv, NEW n \in Callers, kind = "winrm", R!At(n, "commit"),
         R!Asks(n, "commit", R!Ends(n, "done"), R!Aborts(n)), R!Overtakes(n), R!Lands,
         UNCHANGED <<kind, handles, orphaned, outside>>
  PROVE  FilesInv'
<1> DEFINE q == R!Request(n, "commit", call[n].part)
<1>1. q \in Sent /\ q.n = n /\ q.do = "commit" /\ q.part = call[n].part
  BY RequestIs DEF FilesInv
<1>2. (Done(q) /\ R!Ends(n, "done")) \/ (Fails(q) /\ R!Goes(n, "unlink"))
  BY <1>1 DEF R!Asks, R!Sends, Done, Fails, R!Aborts
<1> HIDE DEF q
<1>3. FilesTyped /\ CallKept(n) /\ TargetWhole
  BY DEF FilesInv
<1>4. /\ call[n].at = "commit" /\ call[n].op \in Writing /\ call[n].end = "none"
      /\ LateOf(n) = {} /\ fs[n] # R!None /\ fs[n].by = n /\ fs[n].pieces = R!Whole(n)
  BY <1>3, CallIs DEF CallKept, Sits, Gives, Stages, R!At
<1>5. /\ Entered(R!Effect(q).fs)
      /\ \/ R!Effect(q).fs = fs /\ R!Effect(q).result # "ok"
         \/ Moved(R!Effect(q).fs, n)
  BY <1>1, <1>3, CommitDoes
<1>6. \A m \in Callers: m # n => R!Effect(q).fs[m] = fs[m]
  BY <1>5, NamesApart DEF Moved
<1>7. /\ Alone(n) /\ SameWork(n) /\ call'[n].at \in {"ended", "unlink"}
      /\ call'[n].part = call[n].part
      /\ call'[n].at = "ended" => Done(q) /\ call'[n].end = "done"
      /\ call'[n].at = "unlink" => call'[n].end = "none"
  BY <1>2, <1>3, <1>4, GoesIs, EndsIs DEF Ats
<1>8. /\ FilesTyped' /\ Touches(n)
      /\ LateOf(n)' \in {LateOf(n), LateOf(n) \cup {q}}
      /\ LateOf(n)' # LateOf(n) => fs' = fs /\ <<n, "temporary">> \in unclean' /\ ~Done(q)
  BY <1>1, <1>2, <1>3, <1>5, <1>6, <1>7, Framed DEF FilesTyped
<1>9. fs' = fs \/ Moved(fs', n)
  BY <1>2, <1>5 DEF Done, Fails
<1>10. Done(q) => fs'[n] = R!None /\ n \in landed'
  <2> SUFFICES ASSUME Done(q) PROVE fs'[n] = R!None /\ n \in landed'
    OBVIOUS
  <2>1. Moved(fs', n)
    BY <1>5 DEF Done
  <2> QED
    BY <1>4, <2>1 DEF Moved, R!Lands
<1>11. CallKept(n)'
  <2>1. Sits(n)'
    BY <1>3, <1>4, <1>7 DEF Sits, SameWork, Writing
  <2>2. Gives(n)'
    BY <1>1, <1>4, <1>7, <1>8 DEF Gives, SameWork, Touches, R!Whole
  <2>3. fs'[n] # R!None => fs' = fs
    BY <1>9 DEF Moved
  <2>4. Stages(n)'
    BY <1>3, <1>4, <1>7, <1>8, <1>10, <2>3 DEF Stages, SameWork, Touches
  <2>5. Held(n)'
    BY <1>3, <1>4, <1>7, <1>8 DEF CallKept, Held, Touches
  <2>6. Finds(n)'
    BY <1>1, <1>4, <1>7, <1>8, <1>10 DEF Finds, SameWork, Writing
  <2> QED
    BY <2>1, <2>2, <2>4, <2>5, <2>6 DEF CallKept
<1>12. TargetWhole'
  <2>1. fs'[R!Target] = fs[R!Target] \/ R!WholeValue(fs'[R!Target].pieces)
    BY <1>4, <1>9 DEF Moved, R!WholeValue
  <2> QED
    BY <1>3, <1>7, <1>8, <2>1, CallIs, TargetStays, NamesApart DEF SameWork
<1> QED
  BY <1>8, <1>11, <1>12, StepKeeps, NamesApart

(* The removal of a temporary, of WinRM's or of the guest's. *)
LEMMA Unlinks ==
  ASSUME FilesInv, NEW n \in Callers, R!At(n, "unlink"),
         R!Asks(n, "unlink", R!Ends(n, "failed"), R!Ends(n, "failed")), R!Overtakes(n), R!Lands,
         UNCHANGED <<kind, handles, orphaned, outside>>
  PROVE  FilesInv'
<1> DEFINE q == R!Request(n, "unlink", call[n].part)
<1>1. q \in Sent /\ q.n = n /\ q.do = "unlink" /\ q.part = call[n].part
  BY RequestIs DEF FilesInv
<1>2. (Done(q) \/ Fails(q)) /\ R!Ends(n, "failed")
  BY <1>1 DEF R!Asks, R!Sends, Done, Fails
<1> HIDE DEF q
<1>3. FilesTyped /\ CallKept(n) /\ TargetWhole
  BY DEF FilesInv
<1>4. /\ call[n].at = "unlink"
      /\ (kind = "winrm" /\ call[n].op \in Writing) \/ (kind = "qga" /\ call[n].op = "create")
      /\ \A r \in LateOf(n): r.do # "unlink"
  BY <1>3 DEF CallKept, Sits, Gives, R!At
<1>5. /\ Entered(R!Effect(q).fs) /\ OnlyAt(R!Effect(q).fs, n) /\ R!Effect(q).fs[n] = R!None
  BY <1>1, <1>3, UnlinkDoes
<1>6. /\ Alone(n) /\ SameWork(n) /\ call'[n].at = "ended"
      /\ call'[n].part = call[n].part /\ call'[n].end = "failed"
  BY <1>2, <1>3, EndsIs
<1>7. /\ FilesTyped' /\ Touches(n)
      /\ LateOf(n)' \in {LateOf(n), LateOf(n) \cup {q}}
      /\ LateOf(n)' # LateOf(n) => fs' = fs /\ <<n, "temporary">> \in unclean' /\ ~Done(q)
  BY <1>1, <1>2, <1>3, <1>5, <1>6, Framed, NamesApart DEF OnlyAt, FilesTyped
<1>8. \/ fs'[n] = R!None /\ fs'[R!Target] = fs[R!Target]
      \/ fs' = fs /\ <<n, "temporary">> \in unclean'
  <2>1. fs' = R!Effect(q).fs \/ (fs' = fs /\ <<n, "temporary">> \in unclean')
    BY <1>1, <1>2 DEF Done, Fails
  <2> QED
    BY <1>5, <2>1, NamesApart DEF OnlyAt
<1>9. CallKept(n)'
  <2>0. kind' = kind /\ unclean \subseteq unclean'
    BY <1>7 DEF Touches
  <2>1. Sits(n)'
    BY <1>3, <1>4, <1>6, <2>0 DEF Sits, SameWork, Writing
  <2>2. Gives(n)'
    <3> USE DEF SameWork, R!Whole
    <3>1. Gives(n)
      BY <1>3 DEF CallKept
    <3>2. \A r \in LateOf(n)': r \in LateOf(n) \/ r = q
      BY <1>7
    <3>3. LateOf(n)' # {} => <<n, "temporary">> \in unclean'
      BY <1>7, <2>0, <3>1 DEF Gives
    <3>4. \A r \in LateOf(n): r.do # "put"
      BY <1>4, <3>1 DEF Gives
    <3>5. fs'[n] # R!None => fs'[n] = fs[n]
      BY <1>8
    <3> QED
      BY <1>1, <1>4, <1>6, <2>0, <3>1, <3>2, <3>3, <3>4, <3>5 DEF Gives
  <2>3. Stages(n)'
    BY <1>3, <1>4, <1>6, <1>8, <2>0 DEF CallKept, Stages, SameWork
  <2>4. Held(n)'
    BY <1>3, <1>4, <1>6, <2>0 DEF CallKept, Held, Touches
  <2>5. Finds(n)'
    <3>1. \A r \in LateOf(n)': r.do # "put"
      BY <1>1, <1>3, <1>4, <1>7 DEF CallKept, Gives
    <3> QED
      BY <1>4, <1>6, <3>1 DEF Finds, SameWork
  <2> QED
    BY <2>1, <2>2, <2>3, <2>4, <2>5 DEF CallKept
<1>10. TargetWhole'
  BY <1>3, <1>6, <1>7, <1>8, CallIs, TargetStays, NamesApart DEF SameWork
<1> QED
  BY <1>7, <1>9, <1>10, StepKeeps, NamesApart

(* The archive API. *)
LEMMA ArchiveLooks ==
  ASSUME FilesInv, NEW n \in Callers, R!Stat(n) \/ R!Inherit(n)
  PROVE  FilesInv'
<1>1. FilesTyped /\ CallKept(n) /\ TargetWhole
  BY DEF FilesInv
<1>2. /\ kind = "archive" /\ kind' = kind /\ fs' = fs /\ late' = late /\ handles' = handles
      /\ outside' = outside /\ landed' = landed /\ overtaken' = overtaken /\ unclean' = unclean
      /\ orphaned' = orphaned
      /\ call[n].at \in {"stat", "inherit"}
  BY DEF R!Stat, R!Inherit, R!At, R!world, R!history
<1>3. /\ call[n].at = "stat" => call[n].op = "create"
      /\ call[n].at = "inherit" => call[n].op = "write"
      /\ call[n].end = "none" /\ LateOf(n) = {} /\ fs[n] = R!None
  BY <1>1, <1>2, CallIs DEF CallKept, Sits, Gives, Stages
<1>4. /\ Alone(n) /\ call'[n].op = call[n].op /\ call'[n].part = call[n].part
      /\ \/ call'[n].at = "ended" /\ call'[n].end = "failed"
         \/ /\ call'[n].at = "put" /\ call'[n].end = "none"
            /\ call[n].op = "create" => fs[R!Target] = R!None
            /\ call[n].op = "write" =>
                   /\ fs[R!Target] # R!Dir
                   /\ R!IsFile(fs[R!Target]) => fs[R!Target].owner = call'[n].inherit
  <2>1. CASE R!Ends(n, "failed")
    BY <1>1, <2>1, EndsIs DEF SameWork
  <2>2. CASE fs[R!Target] = R!None /\ R!Goes(n, "put")
    <3>1. "put" \in Ats /\ fs[R!Target] # R!Dir /\ ~R!IsFile(fs[R!Target])
      BY <2>2, EntryKinds DEF Ats
    <3> QED
      BY <1>1, <1>3, <2>2, <3>1, GoesIs DEF SameWork
  <2>3. CASE /\ call[n].at = "inherit" /\ ~R!Refused(fs[R!Target])
             /\ call' = [call EXCEPT ![n].at = "put", ![n].inherit = R!InheritedOwner(fs[R!Target])]
    <3> DEFINE o == R!InheritedOwner(fs[R!Target])
    <3>1. fs[R!Target] \in Entries
      BY <1>1, NamesApart DEF FilesTyped, Entries
    <3>2. o \in Owners /\ (R!IsFile(fs[R!Target]) => o = fs[R!Target].owner) /\ fs[R!Target] # R!Dir
      BY <2>3, <3>1, EntryKinds DEF R!InheritedOwner, Owners, R!Refused
    <3> HIDE DEF o
    <3>3. call[n] \in Doing /\ call \in [Callers -> Doing]
      BY <1>1, CallIs DEF FilesTyped
    <3>4. [call[n] EXCEPT !.at = "put", !.inherit = o] \in Doing
      BY <3>2, <3>3 DEF Doing
    <3>5. call' = [call EXCEPT ![n] = [call[n] EXCEPT !.at = "put", !.inherit = o]]
      BY <2>3, <3>3 DEF o
    <3>6. /\ Alone(n) /\ call'[n].op = call[n].op /\ call'[n].part = call[n].part
          /\ call'[n].at = "put" /\ call'[n].end = call[n].end /\ call'[n].inherit = o
      BY <3>3, <3>4, <3>5 DEF Alone, Doing
    <3> QED
      BY <1>3, <2>3, <3>2, <3>6
  <2> QED
    BY <1>2, <2>1, <2>2, <2>3 DEF R!Stat, R!Inherit, R!At
<1>5. FilesTyped' /\ Touches(n) /\ LateOf(n)' = {}
  BY <1>1, <1>2, <1>3, <1>4 DEF FilesTyped, Touches, Alone, LateOf
<1>6. CallKept(n)'
  <2>1. Sits(n)'
    BY <1>1, <1>2, <1>3, <1>4 DEF CallKept, Sits, Writing
  <2>2. Gives(n)'
    BY <1>5 DEF Gives
  <2>3. Stages(n)'
    BY <1>2, <1>3, <1>4 DEF Stages
  <2>4. Held(n)'
    BY <1>1, <1>2, <1>4 DEF CallKept, Held
  <2>5. Finds(n)'
    BY <1>2, <1>3, <1>4, <1>5 DEF Finds, Writing, R!IsFile
  <2> QED
    BY <2>1, <2>2, <2>3, <2>4, <2>5 DEF CallKept
<1>7. TargetWhole'
  BY <1>1, <1>2, <1>4, <1>5, CallIs, TargetStays, NamesApart
<1> QED
  BY <1>5, <1>6, <1>7, StepKeeps, NamesApart

LEMMA ArchivePuts ==
  ASSUME FilesInv, NEW n \in Callers, kind = "archive", R!At(n, "put"),
         R!Asks(n, "put", R!Goes(n, "extract"), R!Ends(n, "failed")), R!Overtakes(n), R!Lands,
         UNCHANGED <<kind, handles, orphaned, outside>>
  PROVE  FilesInv'
<1> DEFINE q == R!Request(n, "put", call[n].part)
<1>1. q \in Sent /\ q.n = n /\ q.do = "put" /\ q.part = call[n].part
  BY RequestIs DEF FilesInv
<1>2. (Done(q) /\ R!Goes(n, "extract")) \/ (Fails(q) /\ R!Ends(n, "failed"))
  BY <1>1 DEF R!Asks, R!Sends, Done, Fails
<1> HIDE DEF q
<1>3. FilesTyped /\ CallKept(n) /\ TargetWhole
  BY DEF FilesInv
<1>4. /\ call[n].at = "put" /\ call[n].op \in Writing /\ call[n].end = "none"
      /\ LateOf(n) = {} /\ fs[n] = R!None
  BY <1>3, CallIs DEF CallKept, Sits, Gives, Stages, R!At
<1>5. /\ Entered(R!Effect(q).fs) /\ OnlyAt(R!Effect(q).fs, R!Target)
      /\ R!IsFile(R!Effect(q).fs[R!Target]) /\ R!Effect(q).fs[R!Target].by = n
  BY <1>1, <1>3, PutDoes
<1>6. /\ Alone(n) /\ SameWork(n) /\ call'[n].part = call[n].part
      /\ \/ Done(q) /\ call'[n].at = "extract" /\ call'[n].end = "none"
         \/ Fails(q) /\ call'[n].at = "ended" /\ call'[n].end = "failed"
  BY <1>2, <1>3, <1>4, GoesIs, EndsIs DEF Ats
<1>7. /\ FilesTyped' /\ Touches(n)
      /\ LateOf(n)' \in {LateOf(n), LateOf(n) \cup {q}}
      /\ LateOf(n)' # LateOf(n) => fs' = fs /\ <<n, "temporary">> \in unclean' /\ ~Done(q)
  BY <1>1, <1>2, <1>3, <1>5, <1>6, Framed, NamesApart DEF OnlyAt, FilesTyped
<1>8. fs'[n] = R!None /\ (Done(q) => R!IsFile(fs'[R!Target]) /\ fs'[R!Target].by = n)
  BY <1>2, <1>4, <1>5, NamesApart DEF Done, Fails, OnlyAt
<1>9. CallKept(n)'
  <2>0. kind' = kind /\ unclean \subseteq unclean' /\ overtaken \subseteq overtaken'
    BY <1>7 DEF Touches
  <2>1. Sits(n)'
    BY <1>3, <1>4, <1>6, <2>0 DEF Sits, SameWork, Writing
  <2>2. Gives(n)'
    BY <1>1, <1>4, <1>6, <1>7, <2>0 DEF Gives, SameWork
  <2>3. Stages(n)'
    BY <1>6, <1>8 DEF Stages, SameWork
  <2>4. Held(n)'
    BY <1>3, <1>4, <1>6, <2>0 DEF CallKept, Held, Touches
  <2>5. (n \in overtaken \/ Finds(n))'
    <3> SUFFICES ASSUME n \notin overtaken' PROVE Finds(n)'
      OBVIOUS
    <3>1. CASE call'[n].at = "extract"
      BY <1>4, <1>6, <1>7, <1>8, <3>1 DEF Finds, SameWork, Writing, R!IsFile
    <3>2. CASE call'[n].at = "ended"
      <4>1. Finds(n)
        BY <1>3, <2>0 DEF CallKept
      <4>2. LateOf(n)' # {} => fs' = fs
        BY <1>4, <1>7
      <4>3. /\ call[n].op = "create" => fs[R!Target] = R!None
            /\ call[n].op = "write" =>
                   /\ fs[R!Target] # R!Dir
                   /\ R!IsFile(fs[R!Target]) => fs[R!Target].owner = call[n].inherit
        BY <1>4, <4>1 DEF Finds
      <4> QED
        BY <1>4, <1>6, <3>2, <4>2, <4>3, <2>0 DEF Finds, SameWork, Writing, R!IsFile
    <3> QED
      BY <1>6, <3>1, <3>2
  <2> QED
    BY <2>1, <2>2, <2>3, <2>4, <2>5 DEF CallKept
<1>10. TargetWhole'
  <2>1. ~R!StagedOnly'
    BY <1>7 DEF R!StagedOnly, Touches
  <2> QED
    BY <2>1 DEF TargetWhole
<1> QED
  BY <1>7, <1>9, <1>10, StepKeeps, NamesApart

LEMMA ArchiveExtracts ==
  ASSUME FilesInv, NEW n \in Callers, kind = "archive", R!At(n, "extract"),
         R!Asks(n, "extract", R!Ends(n, "done"), R!Ends(n, "failed")), R!Overtakes(n), R!Lands,
         UNCHANGED <<kind, handles, orphaned, outside>>
  PROVE  FilesInv'
<1> DEFINE q == R!Request(n, "extract", call[n].part)
<1>1. q \in Sent /\ q.n = n /\ q.do = "extract" /\ q.part = call[n].part
  BY RequestIs DEF FilesInv
<1>2. (Done(q) /\ R!Ends(n, "done")) \/ (Fails(q) /\ R!Ends(n, "failed"))
  BY <1>1 DEF R!Asks, R!Sends, Done, Fails
<1> HIDE DEF q
<1>3. FilesTyped /\ CallKept(n) /\ TargetWhole
  BY DEF FilesInv
<1>4. /\ call[n].at = "extract" /\ call[n].op \in Writing /\ call[n].end = "none"
      /\ LateOf(n) = {} /\ fs[n] = R!None
      /\ n \in overtaken \/ (R!IsFile(fs[R!Target]) /\ fs[R!Target].by = n)
  BY <1>3, CallIs DEF CallKept, Sits, Gives, Stages, Finds, R!At
<1>5. /\ Entered(R!Effect(q).fs) /\ OnlyAt(R!Effect(q).fs, R!Target)
      /\ R!IsFile(fs[R!Target]) /\ fs[R!Target].by = n =>
             R!IsFile(R!Effect(q).fs[R!Target]) /\ R!Effect(q).fs[R!Target].pieces = R!Whole(n)
  BY <1>1, <1>3, ExtractDoes
<1>6. /\ Alone(n) /\ SameWork(n) /\ call'[n].part = call[n].part /\ call'[n].at = "ended"
      /\ \/ Done(q) /\ call'[n].end = "done"
         \/ Fails(q) /\ call'[n].end = "failed"
  BY <1>2, <1>3, <1>4, EndsIs
<1>7. /\ FilesTyped' /\ Touches(n)
      /\ LateOf(n)' \in {LateOf(n), LateOf(n) \cup {q}}
      /\ LateOf(n)' # LateOf(n) => fs' = fs /\ <<n, "temporary">> \in unclean' /\ ~Done(q)
  BY <1>1, <1>2, <1>3, <1>5, <1>6, Framed, NamesApart DEF OnlyAt, FilesTyped
<1>8. fs'[n] = R!None /\ (Done(q) => n \in overtaken \/ n \in landed')
  BY <1>2, <1>4, <1>5, NamesApart DEF Done, Fails, OnlyAt, R!Lands
<1>9. CallKept(n)'
  <2>0. kind' = kind /\ unclean \subseteq unclean' /\ overtaken \subseteq overtaken'
    BY <1>7 DEF Touches
  <2>1. Sits(n)'
    BY <1>3, <1>4, <1>6, <2>0 DEF Sits, SameWork, Writing
  <2>2. Gives(n)'
    BY <1>1, <1>4, <1>6, <1>7, <2>0 DEF Gives, SameWork
  <2>3. Stages(n)'
    BY <1>6, <1>8 DEF Stages, SameWork
  <2>4. Held(n)'
    BY <1>3, <1>4, <1>6, <2>0 DEF CallKept, Held, Touches
  <2>5. (n \in overtaken \/ Finds(n))'
    <3>1. \A r \in LateOf(n)': r.do # "put"
      BY <1>1, <1>4, <1>7
    <3> QED
      BY <1>4, <1>6, <1>8, <2>0, <3>1 DEF Finds, SameWork, Writing
  <2> QED
    BY <2>1, <2>2, <2>3, <2>4, <2>5 DEF CallKept
<1>10. TargetWhole'
  <2>1. ~R!StagedOnly'
    BY <1>7 DEF R!StagedOnly, Touches
  <2> QED
    BY <2>1 DEF TargetWhole
<1> QED
  BY <1>7, <1>9, <1>10, StepKeeps, NamesApart

(* The guest agent. *)
LEMMA GuestOpens ==
  ASSUME FilesInv, NEW n \in Callers, R!GuestOpen(n)
  PROVE  FilesInv'
<1> DEFINE q == R!Request(n, "open", call[n].part)
           x == Named(n)
<1>1. q \in Sent /\ q.n = n /\ q.do = "open" /\ q.part = call[n].part
  BY RequestIs DEF FilesInv
<1>2. /\ kind = "qga" /\ kind' = kind /\ outside' = outside /\ call[n].at = "open"
      /\ R!Overtakes(n) /\ R!Lands
      /\ handles' \subseteq handles \cup {n}
      /\ orphaned \subseteq orphaned' /\ orphaned' \subseteq orphaned \cup {n}
      /\ n \in handles' => n \in handles \/ call'[n].at = "write" \/ n \in orphaned'
      /\ \/ Done(q) /\ call' = [call EXCEPT ![n].at = "write", ![n].ino = fs'[x].by]
         \/ Fails(q) /\ R!Goes(n, "unlink") /\ call[n].op = "create"
         \/ Fails(q) /\ R!Ends(n, "failed") /\ call[n].op # "create"
  BY <1>1 DEF R!GuestOpen, R!Opens, R!Asks, R!Sends, Done, Fails, R!Aborts, R!At, R!HandleName,
               Named
<1>3. FilesTyped /\ CallKept(n) /\ TargetWhole
  BY DEF FilesInv
<1>4. /\ call[n].op \in Writing /\ call[n].end = "none" /\ LateOf(n) = {} /\ fs[n] = R!None
      /\ call[n].part = 1
  BY <1>2, <1>3, CallIs DEF CallKept, Sits, Gives, Stages
<1>5. /\ Entered(R!Effect(q).fs) /\ OnlyAt(R!Effect(q).fs, x) /\ x \in R!Names
      /\ IF fs[x] = R!Dir THEN R!Effect(q).fs = fs /\ R!Effect(q).result # "ok"
         ELSE /\ R!IsFile(R!Effect(q).fs[x])
              /\ R!Effect(q).fs[x].by = (IF fs[x] = R!None THEN n ELSE fs[x].by)
  BY <1>1, <1>3, OpenDoes
<1>6. /\ call[n].op = "create" => x = n
      /\ call[n].op # "create" => x = R!Target
  BY DEF Named
<1> HIDE DEF q, x
<1>7. Done(q) => /\ R!IsFile(fs'[x]) /\ fs'[x].by \in Writers
                 /\ call[n].op = "create" => fs'[n].by = n /\ fs'[n] # R!None
                 /\ call[n].op # "create" => fs'[n] = R!None
  <2> SUFFICES ASSUME Done(q)
               PROVE  /\ R!IsFile(fs'[x]) /\ fs'[x].by \in Writers
                      /\ call[n].op = "create" => fs'[n].by = n /\ fs'[n] # R!None
                      /\ call[n].op # "create" => fs'[n] = R!None
    OBVIOUS
  <2>1. fs' = R!Effect(q).fs /\ R!Effect(q).result = "ok"
    BY DEF Done
  <2>2. R!IsFile(fs'[x]) /\ fs'[x] \in Entries
    BY <1>5, <2>1 DEF Entered
  <2>3. fs'[x].by \in Writers
    BY <2>2, EntryKinds
  <2>4. call[n].op # "create" => fs'[n] = R!None
    BY <1>4, <1>5, <1>6, <2>1, NamesApart DEF OnlyAt
  <2>5. call[n].op = "create" => fs'[n].by = n /\ fs'[n] # R!None
    BY <1>4, <1>5, <1>6, <2>1, <2>2, EntryKinds
  <2> QED
    BY <2>2, <2>3, <2>4, <2>5
<1>8. /\ Alone(n) /\ call'[n].op = call[n].op /\ call'[n].part = call[n].part
      /\ \/ /\ Done(q) /\ call'[n].at = "write" /\ call'[n].end = "none"
            /\ call'[n].ino = fs'[x].by
         \/ Fails(q) /\ call'[n].at = "unlink" /\ call'[n].end = "none" /\ call[n].op = "create"
         \/ Fails(q) /\ call'[n].at = "ended" /\ call'[n].end = "failed" /\ call[n].op = "write"
  <2>1. CASE Done(q) /\ call' = [call EXCEPT ![n].at = "write", ![n].ino = fs'[x].by]
    <3> DEFINE w == fs'[x].by
    <3>1. w \in Writers
      BY <1>7, <2>1
    <3>2. call[n] \in Doing /\ call \in [Callers -> Doing]
      BY <1>3, CallIs DEF FilesTyped
    <3> HIDE DEF w
    <3>3. [call[n] EXCEPT !.at = "write", !.ino = w] \in Doing
      BY <3>1, <3>2 DEF Doing
    <3>4. call' = [call EXCEPT ![n] = [call[n] EXCEPT !.at = "write", !.ino = w]]
      BY <2>1, <3>2 DEF w
    <3>5. /\ Alone(n) /\ call'[n].op = call[n].op /\ call'[n].part = call[n].part
          /\ call'[n].at = "write" /\ call'[n].end = call[n].end /\ call'[n].ino = w
      BY <3>2, <3>3, <3>4 DEF Alone, Doing
    <3> QED
      BY <1>4, <2>1, <3>5 DEF w
  <2>2. CASE Fails(q) /\ R!Goes(n, "unlink") /\ call[n].op = "create"
    BY <1>3, <1>4, <2>2, GoesIs DEF Ats, SameWork
  <2>3. CASE Fails(q) /\ R!Ends(n, "failed") /\ call[n].op # "create"
    BY <1>3, <1>4, <2>3, EndsIs DEF SameWork, Writing
  <2> QED
    BY <1>2, <2>1, <2>2, <2>3
<1>9. /\ FilesTyped' /\ Touches(n)
      /\ LateOf(n)' \in {LateOf(n), LateOf(n) \cup {q}}
      /\ LateOf(n)' # LateOf(n) => fs' = fs /\ <<n, "temporary">> \in unclean' /\ ~Done(q)
  <2>1. \A m \in Callers: m # n => R!Effect(q).fs[m] = fs[m]
    BY <1>3, <1>5, <1>6, NamesApart DEF OnlyAt
  <2>2. /\ handles' \subseteq Callers /\ orphaned' \subseteq Callers
        /\ \A m \in Callers: m # n => (m \in handles' => m \in handles)
    BY <1>2, <1>3 DEF FilesTyped
  <2> QED
    BY <1>1, <1>2, <1>3, <1>5, <1>8, <2>1, <2>2, Framed
<1>10. /\ fs'[n] # R!None => fs'[n].by = n /\ call[n].op = "create"
  <2>1. fs' = fs \/ fs' = R!Effect(q).fs
    BY <1>2 DEF Done, Fails
  <2>2. call[n].op = "create" => (R!Effect(q).fs[n] # R!None => R!Effect(q).fs[n].by = n)
    BY <1>4, <1>5, <1>6, EntryKinds
  <2>3. call[n].op # "create" => R!Effect(q).fs[n] = R!None
    BY <1>4, <1>5, <1>6, NamesApart DEF OnlyAt
  <2> QED
    BY <1>4, <2>1, <2>2, <2>3
<1>11. CallKept(n)'
  <2>0. kind' = kind /\ unclean \subseteq unclean' /\ overtaken \subseteq overtaken'
        /\ orphaned \subseteq orphaned'
    BY <1>9 DEF Touches
  <2>1. Sits(n)'
    BY <1>2, <1>4, <1>8, <2>0 DEF Sits, Writing
  <2>2. Gives(n)'
    BY <1>1, <1>2, <1>4, <1>8, <1>9, <2>0 DEF Gives
  <2>3. Stages(n)'
    BY <1>2, <1>4, <1>6, <1>7, <1>8, <1>10, <2>0 DEF Stages, Sofar
  <2>4. Held(n)'
    BY <1>2, <1>3, <1>8, <2>0 DEF CallKept, Held
  <2>5. Finds(n)'
    <3>1. \A r \in LateOf(n)': r.do # "put"
      BY <1>1, <1>4, <1>9
    <3>2. call[n].op = "write" => x = R!Target
      BY <1>6
    <3> QED
      BY <1>2, <1>4, <1>7, <1>8, <3>1, <3>2, <2>0 DEF Finds, Writing, R!IsFile, Sofar
  <2> QED
    BY <2>1, <2>2, <2>3, <2>4, <2>5 DEF CallKept
<1>12. TargetWhole'
  <2>1. CASE call[n].op = "write"
    <3>1. ~R!StagedOnly'
      BY <1>2, <1>8, <2>1 DEF R!StagedOnly
    <3> QED
      BY <3>1 DEF TargetWhole
  <2>2. CASE call[n].op # "write"
    <3>1. R!Effect(q).fs[R!Target] = fs[R!Target]
      BY <1>4, <1>5, <1>6, <2>2, NamesApart DEF OnlyAt, Writing
    <3>2. fs'[R!Target] = fs[R!Target]
      BY <1>2, <3>1 DEF Done, Fails
    <3> QED
      BY <1>3, <1>8, <1>9, <3>2, CallIs, TargetStays, NamesApart
  <2> QED
    BY <2>1, <2>2
<1> QED
  BY <1>9, <1>11, <1>12, StepKeeps, NamesApart

LEMMA GuestWrites ==
  ASSUME FilesInv, NEW n \in Callers, R!GuestWrite(n)
  PROVE  FilesInv'
<1> DEFINE q == R!Request(n, "write", call[n].part)
           x == Named(n)
<1>1. q \in Sent /\ q.n = n /\ q.do = "write" /\ q.part = call[n].part
  BY RequestIs DEF FilesInv
<1>2. /\ kind = "qga" /\ kind' = kind /\ outside' = outside /\ call[n].at = "write"
      /\ handles' = handles /\ orphaned' = orphaned /\ R!Overtakes(n) /\ R!Lands
      /\ \/ Done(q) /\ R!NextPiece(n, "close")
         \/ Fails(q) /\ call' = [call EXCEPT ![n].at = "close", ![n].end = "failed"]
  BY <1>1 DEF R!GuestWrite, R!Asks, R!Sends, Done, Fails, R!At
<1>3. FilesTyped /\ CallKept(n) /\ TargetWhole
  BY DEF FilesInv
<1>4. /\ call[n].op \in Writing /\ call[n].end = "none" /\ LateOf(n) = {}
      /\ call[n].part \in 1 .. Parts /\ Parts \in Nat
      /\ fs[n] # R!None => fs[n].by = n /\ call[n].op = "create"
      /\ call[n].op = "create" =>
             /\ fs[n] # R!None /\ call[n].ino = n
             /\ \A i \in 1 .. call[n].part - 1: fs[n].pieces[i] = n
      /\ call[n].op = "write" => n \in overtaken
             \/ /\ R!IsFile(fs[R!Target]) /\ fs[R!Target].by = call[n].ino
                /\ \A i \in 1 .. call[n].part - 1: fs[R!Target].pieces[i] = n
  <2>1. Sits(n) /\ Gives(n) /\ Stages(n) /\ (n \in overtaken \/ Finds(n))
    BY <1>3 DEF CallKept
  <2>2. call[n].op \in Writing /\ call[n].end = "none" /\ LateOf(n) = {}
    BY <1>2, <1>3, <2>1, CallIs DEF Sits, Gives
  <2>3. call[n].part \in 1 .. Parts /\ Parts \in Nat
    BY <1>3, CallIs, FilesAssumption DEF R!FilesAssumption
  <2>4. fs[n] # R!None => fs[n].by = n /\ call[n].op = "create"
    BY <1>2, <2>1 DEF Stages
  <2>5. call[n].op = "create" =>
             /\ fs[n] # R!None /\ call[n].ino = n
             /\ \A i \in 1 .. call[n].part - 1: fs[n].pieces[i] = n
    BY <1>2, <2>1 DEF Stages, Sofar
  <2>6. call[n].op = "write" => n \in overtaken
             \/ /\ R!IsFile(fs[R!Target]) /\ fs[R!Target].by = call[n].ino
                /\ \A i \in 1 .. call[n].part - 1: fs[R!Target].pieces[i] = n
    BY <1>2, <2>1 DEF Finds, Sofar
  <2> QED
    BY <2>2, <2>3, <2>4, <2>5, <2>6
<1>5. /\ Entered(R!Effect(q).fs) /\ OnlyAt(R!Effect(q).fs, x) /\ x \in R!Names
      /\ IF R!IsFile(fs[x]) /\ fs[x].by = call[n].ino
         THEN /\ R!IsFile(R!Effect(q).fs[x]) /\ R!Effect(q).fs[x].by = fs[x].by
              /\ R!Effect(q).fs[x].pieces[call[n].part] = n
              /\ \A i \in 1 .. Parts: i # call[n].part =>
                     R!Effect(q).fs[x].pieces[i] = fs[x].pieces[i]
         ELSE R!Effect(q).fs = fs
  BY <1>1, <1>3, WriteDoes
<1>6. /\ call[n].op = "create" => x = n
      /\ call[n].op # "create" => x = R!Target
  BY DEF Named
<1> HIDE DEF q, x
<1>7. /\ Alone(n) /\ SameWork(n)
      /\ \/ /\ Done(q) /\ call'[n].end = "none"
            /\ IF call[n].part = Parts THEN call'[n].at = "close" /\ call'[n].part = Parts
               ELSE call'[n].at = "write" /\ call'[n].part = call[n].part + 1
         \/ Fails(q) /\ call'[n].at = "close" /\ call'[n].end = "failed"
  <2>1. CASE Done(q) /\ R!NextPiece(n, "close")
    <3>1. "close" \in Ats
      BY DEF Ats
    <3> QED
      BY <1>2, <1>3, <1>4, <2>1, <3>1, NextPieceIs
  <2>2. CASE Fails(q) /\ call' = [call EXCEPT ![n].at = "close", ![n].end = "failed"]
    <3>2. call[n] \in Doing /\ call \in [Callers -> Doing]
      BY <1>3, CallIs DEF FilesTyped
    <3>3. [call[n] EXCEPT !.at = "close", !.end = "failed"] \in Doing
      BY <3>2 DEF Doing
    <3>4. call' = [call EXCEPT ![n] = [call[n] EXCEPT !.at = "close", !.end = "failed"]]
      BY <2>2, <3>2
    <3>5. Alone(n) /\ SameWork(n) /\ call'[n].at = "close" /\ call'[n].end = "failed"
      BY <3>2, <3>3, <3>4 DEF Alone, SameWork, Doing
    <3> QED
      BY <2>2, <3>5
  <2> QED
    BY <1>2, <2>1, <2>2
<1>8. /\ FilesTyped' /\ Touches(n)
      /\ LateOf(n)' \in {LateOf(n), LateOf(n) \cup {q}}
      /\ LateOf(n)' # LateOf(n) => fs' = fs /\ <<n, "temporary">> \in unclean' /\ ~Done(q)
  <2>1. \A m \in Callers: m # n => R!Effect(q).fs[m] = fs[m]
    BY <1>3, <1>5, <1>6, NamesApart DEF OnlyAt
  <2> QED
    BY <1>1, <1>2, <1>3, <1>5, <1>7, <2>1, Framed DEF FilesTyped
<1>9. fs'[n] # R!None => fs'[n].by = n /\ call[n].op = "create"
  <2>1. fs' = fs \/ fs' = R!Effect(q).fs
    BY <1>2 DEF Done, Fails
  <2>2. call[n].op = "create" => (R!Effect(q).fs[n] # R!None => R!Effect(q).fs[n].by = n)
    BY <1>4, <1>5, <1>6
  <2>3. call[n].op # "create" => R!Effect(q).fs[n] = R!None
    BY <1>4, <1>5, <1>6, NamesApart DEF OnlyAt
  <2> QED
    BY <1>4, <2>1, <2>2, <2>3
<1>10. ASSUME Done(q), n \notin overtaken \/ call[n].op = "create"
       PROVE  /\ R!IsFile(fs'[x]) /\ fs'[x].by = call[n].ino
              /\ \A i \in 1 .. call[n].part: fs'[x].pieces[i] = n
  <2>1. fs' = R!Effect(q).fs
    BY <1>10 DEF Done
  <2>2. /\ R!IsFile(fs[x]) /\ fs[x].by = call[n].ino
        /\ \A i \in 1 .. call[n].part - 1: fs[x].pieces[i] = n
    <3>1. fs[n] \in Entries /\ fs[n] # R!Dir
      BY <1>3, NamesApart DEF FilesTyped, Entries
    <3> QED
      BY <1>4, <1>6, <1>10, <3>1, EntryKinds DEF Writing
  <2>3. \A i \in 1 .. call[n].part: /\ i \in 1 .. Parts
                                    /\ i = call[n].part \/ i \in 1 .. call[n].part - 1
    BY <1>4
  <2> QED
    BY <1>5, <2>1, <2>2, <2>3
<1>11. ASSUME Done(q), n \notin overtaken \/ call[n].op = "create",
              call'[n].at = "close", call'[n].end = "none"
       PROVE  fs'[x].pieces = R!Whole(n)
  <2>0. call[n].part = Parts
    BY <1>7, <1>11
  <2>1. \A i \in 1 .. Parts: fs'[x].pieces[i] = n
    BY <2>0, <1>10, <1>11
  <2>2. fs'[x] \in Entries
    BY <1>5, <1>8 DEF FilesTyped, Entries
  <2>3. fs'[x].pieces \in Values
    BY <1>10, <1>11, <2>2, EntryKinds
  <2> QED
    BY <2>1, <2>3 DEF Values, R!Whole
<1>12. CallKept(n)'
  <2>0. kind' = kind /\ unclean \subseteq unclean' /\ overtaken \subseteq overtaken'
    BY <1>8 DEF Touches
  <2>1. Sits(n)'
    BY <1>2, <1>3, <1>4, <1>7, <2>0 DEF Sits, Writing, SameWork
  <2>2. Gives(n)'
    BY <1>1, <1>2, <1>4, <1>7, <1>8, <2>0 DEF Gives, SameWork
  <2>3. Stages(n)'
    <3>1. fs'[n] # R!None <=> call[n].op = "create"
      <4>1. CASE call[n].op = "create"
        <5>1. fs' = fs \/ fs' = R!Effect(q).fs
          BY <1>2 DEF Done, Fails
        <5>2. fs[n] # R!None /\ R!Effect(q).fs[n] # R!None
          BY <1>4, <1>5, <1>6, <4>1, EntryKinds
        <5> QED
          BY <4>1, <5>1, <5>2
      <4> QED
        BY <1>9, <4>1
    <3>2. call[n].op = "create" /\ Done(q) => \A i \in 1 .. call[n].part: fs'[n].pieces[i] = n
      BY <1>6, <1>10
    <3>3. /\ call[n].op = "create" /\ Done(q) /\ call'[n].at = "close" /\ call'[n].end = "none"
          => fs'[n].pieces = R!Whole(n)
      BY <1>6, <1>11
    <3>4. call'[n].at = "write" => call'[n].part - 1 = call[n].part /\ Done(q)
      BY <1>4, <1>7
    <3>5. call'[n].at = "close" /\ call'[n].end = "none" => Done(q)
      BY <1>7
    <3>6. R!Whole(n)' = R!Whole(n) /\ call'[n].at \in {"close", "write"}
      BY <1>7 DEF R!Whole
    <3> QED
      BY <1>2, <1>4, <1>7, <1>9, <2>0, <3>1, <3>2, <3>3, <3>4, <3>5, <3>6
         DEF Stages, Sofar, SameWork
  <2>4. Held(n)'
    BY <1>2, <1>3, <1>7, <2>0 DEF CallKept, Held
  <2>5. (n \in overtaken \/ Finds(n))'
    <3> SUFFICES ASSUME n \notin overtaken' PROVE Finds(n)'
      OBVIOUS
    <3>1. \A r \in LateOf(n)': r.do # "put"
      BY <1>1, <1>4, <1>8
    <3>2. call[n].op = "write" => x = R!Target
      BY <1>6
    <3>3. Done(q) /\ call[n].op = "write" =>
              /\ R!IsFile(fs'[R!Target]) /\ fs'[R!Target].by = call[n].ino
              /\ \A i \in 1 .. call[n].part: fs'[R!Target].pieces[i] = n
      BY <1>10, <2>0, <3>2
    <3>4. /\ Done(q) /\ call[n].op = "write" /\ call'[n].at = "close" /\ call'[n].end = "none"
          => n \in landed'
      BY <1>2, <1>10, <1>11, <2>0, <3>2 DEF R!Lands
    <3>5. call'[n].at = "write" => call'[n].part - 1 = call[n].part /\ Done(q)
      BY <1>4, <1>7
    <3>6. call'[n].at \in {"close", "write"} /\ call'[n].end \in {"none", "failed"}
          /\ (call'[n].at = "close" /\ call'[n].end = "none" => Done(q))
      BY <1>7
    <3> QED
      BY <1>2, <1>4, <1>7, <3>1, <3>3, <3>4, <3>5, <3>6, <2>0
         DEF Finds, Writing, R!IsFile, Sofar, SameWork
  <2> QED
    BY <2>1, <2>2, <2>3, <2>4, <2>5 DEF CallKept
<1>13. TargetWhole'
  <2>1. CASE call[n].op = "write"
    <3>1. ~R!StagedOnly'
      BY <1>2, <1>7, <2>1 DEF R!StagedOnly, SameWork
    <3> QED
      BY <3>1 DEF TargetWhole
  <2>2. CASE call[n].op # "write"
    <3>1. R!Effect(q).fs[R!Target] = fs[R!Target]
      BY <1>4, <1>5, <1>6, <2>2, NamesApart DEF OnlyAt, Writing
    <3>2. fs'[R!Target] = fs[R!Target]
      BY <1>2, <3>1 DEF Done, Fails
    <3> QED
      BY <1>3, <1>7, <1>8, <3>2, CallIs, TargetStays, NamesApart DEF SameWork
  <2> QED
    BY <2>1, <2>2
<1> QED
  BY <1>8, <1>12, <1>13, StepKeeps, NamesApart

LEMMA GuestCloses ==
  ASSUME FilesInv, NEW n \in Callers, R!GuestClose(n)
  PROVE  FilesInv'
<1>1. /\ kind = "qga" /\ kind' = kind /\ fs' = fs /\ late' = late /\ outside' = outside
      /\ landed' = landed /\ overtaken' = overtaken /\ orphaned' = orphaned
      /\ call[n].at = "close"
  BY DEF R!GuestClose, R!At
<1>2. PICK closed \in BOOLEAN:
        /\ handles' = (IF closed /\ (call[n].end = "none" \/ R!Closes(n)) THEN handles \ {n}
                       ELSE handles)
        /\ unclean' = (IF closed THEN unclean ELSE unclean \cup {<<n, "handle">>})
        /\ IF closed /\ call[n].end = "none"
           THEN IF call[n].op = "write" THEN R!Ends(n, "done") ELSE R!Goes(n, "move")
           ELSE IF call[n].op = "write" THEN R!Ends(n, "failed") ELSE R!Aborts(n)
  BY DEF R!GuestClose
<1>3. FilesTyped /\ CallKept(n) /\ TargetWhole
  BY DEF FilesInv
<1>4. /\ call[n].op \in Writing /\ call[n].end \in {"none", "failed"}
      /\ call[n].end = "none" => LateOf(n) = {}
      /\ \A r \in LateOf(n): r.do = "write"
      /\ fs[n] # R!None => fs[n].by = n /\ call[n].op = "create"
      /\ call[n].end = "none" /\ call[n].op = "create" =>
             fs[n] # R!None /\ fs[n].pieces = R!Whole(n)
      /\ call[n].end = "none" /\ call[n].op = "write" => n \in overtaken \/ n \in landed
  BY <1>1, <1>3, CallIs DEF CallKept, Sits, Gives, Stages, Finds
<1>5. /\ handles' \subseteq handles /\ unclean \subseteq unclean'
      /\ n \in handles' => <<n, "handle">> \in unclean'
  BY <1>2 DEF R!Closes
<1>6. /\ Alone(n) /\ SameWork(n) /\ call'[n].part = call[n].part
      /\ \/ /\ call'[n].at = "ended" /\ call'[n].end = "done"
            /\ call[n].end = "none" /\ call[n].op = "write"
         \/ /\ call'[n].at = "move" /\ call'[n].end = "none"
            /\ call[n].end = "none" /\ call[n].op = "create"
         \/ call'[n].at = "ended" /\ call'[n].end = "failed" /\ call[n].op = "write"
         \/ call'[n].at = "unlink" /\ call'[n].end = call[n].end /\ call[n].op = "create"
  <2>1. CASE R!Ends(n, "done") /\ call[n].end = "none" /\ call[n].op = "write"
    BY <1>3, <2>1, EndsIs
  <2>2. CASE R!Goes(n, "move") /\ call[n].end = "none" /\ call[n].op # "write"
    BY <1>3, <1>4, <2>2, GoesIs DEF Ats, Writing
  <2>3. CASE R!Ends(n, "failed") /\ call[n].op = "write"
    BY <1>3, <2>3, EndsIs
  <2>4. CASE R!Goes(n, "unlink") /\ call[n].op # "write"
    BY <1>3, <1>4, <2>4, GoesIs DEF Ats, Writing
  <2> QED
    BY <1>2, <2>1, <2>2, <2>3, <2>4 DEF R!Aborts
<1>7. FilesTyped' /\ Touches(n) /\ LateOf(n)' = LateOf(n)
  BY <1>1, <1>3, <1>5, <1>6 DEF FilesTyped, Touches, Alone, LateOf
<1>8. CallKept(n)'
  <2>1. Sits(n)'
    BY <1>1, <1>4, <1>6 DEF Sits, Writing, SameWork
  <2>2. Gives(n)'
    BY <1>1, <1>3, <1>4, <1>5, <1>6, <1>7 DEF CallKept, Gives, SameWork
  <2>3. Stages(n)'
    BY <1>1, <1>4, <1>6 DEF Stages, SameWork, R!Whole
  <2>4. Held(n)'
    BY <1>5 DEF Held
  <2>5. (n \in overtaken \/ Finds(n))'
    BY <1>1, <1>4, <1>6, <1>7 DEF Finds, SameWork, Writing
  <2> QED
    BY <2>1, <2>2, <2>3, <2>4, <2>5 DEF CallKept
<1>9. TargetWhole'
  BY <1>1, <1>3, <1>6, <1>7, CallIs, TargetStays, NamesApart DEF SameWork
<1> QED
  BY <1>7, <1>8, <1>9, StepKeeps, NamesApart

LEMMA GuestMoves ==
  ASSUME FilesInv, NEW n \in Callers, kind = "qga", R!At(n, "move"),
         R!Asks(n, "move", R!Goes(n, "check"), R!Aborts(n)), R!Overtakes(n), R!Lands,
         UNCHANGED <<kind, handles, orphaned, outside>>
  PROVE  FilesInv'
<1> DEFINE q == R!Request(n, "move", call[n].part)
<1>1. q \in Sent /\ q.n = n /\ q.do = "move" /\ q.part = call[n].part
  BY RequestIs DEF FilesInv
<1>2. (Done(q) /\ R!Goes(n, "check")) \/ (Fails(q) /\ R!Goes(n, "unlink"))
  BY <1>1 DEF R!Asks, R!Sends, Done, Fails, R!Aborts
<1> HIDE DEF q
<1>3. FilesTyped /\ CallKept(n) /\ TargetWhole
  BY DEF FilesInv
<1>4. /\ call[n].at = "move" /\ call[n].op = "create" /\ call[n].end = "none"
      /\ LateOf(n) = {} /\ fs[n] # R!None /\ fs[n].by = n /\ fs[n].pieces = R!Whole(n)
  BY <1>3, CallIs DEF CallKept, Sits, Gives, Stages, R!At
<1>5. /\ Entered(R!Effect(q).fs)
      /\ R!Effect(q).fs = fs \/ Moved(R!Effect(q).fs, n)
  BY <1>1, <1>3, MoveDoes
<1>6. \A m \in Callers: m # n => R!Effect(q).fs[m] = fs[m]
  BY <1>5, NamesApart DEF Moved
<1>7. /\ Alone(n) /\ SameWork(n) /\ call'[n].part = call[n].part /\ call'[n].end = "none"
      /\ call'[n].at \in {"check", "unlink"} /\ (call'[n].at = "check" => Done(q))
  BY <1>2, <1>3, <1>4, GoesIs DEF Ats
<1>8. /\ FilesTyped' /\ Touches(n)
      /\ LateOf(n)' \in {LateOf(n), LateOf(n) \cup {q}}
      /\ LateOf(n)' # LateOf(n) => fs' = fs /\ <<n, "temporary">> \in unclean' /\ ~Done(q)
  BY <1>1, <1>2, <1>3, <1>5, <1>6, <1>7, Framed DEF FilesTyped
<1>9. fs' = fs \/ Moved(fs', n)
  BY <1>2, <1>5 DEF Done, Fails
<1>10. fs'[n] = R!None => n \in landed'
  <2> SUFFICES ASSUME fs'[n] = R!None PROVE n \in landed'
    OBVIOUS
  <2>1. Moved(fs', n)
    BY <1>4, <1>9
  <2> QED
    BY <1>4, <2>1 DEF Moved, R!Lands
<1>11. CallKept(n)'
  <2>1. Sits(n)'
    BY <1>3, <1>4, <1>7 DEF Sits, SameWork, Writing
  <2>2. Gives(n)'
    BY <1>1, <1>4, <1>7, <1>8 DEF Gives, SameWork, Touches, R!Whole
  <2>3. fs'[n] # R!None => fs' = fs
    BY <1>9 DEF Moved
  <2>4. Stages(n)'
    BY <1>3, <1>4, <1>7, <1>8, <1>10, <2>3 DEF Stages, SameWork, Touches, R!Whole
  <2>5. Held(n)'
    BY <1>3, <1>4, <1>7, <1>8 DEF CallKept, Held, Touches
  <2>6. Finds(n)'
    BY <1>1, <1>4, <1>7, <1>8 DEF Finds, SameWork, Writing
  <2> QED
    BY <2>1, <2>2, <2>4, <2>5, <2>6 DEF CallKept
<1>12. TargetWhole'
  <2>1. fs'[R!Target] = fs[R!Target] \/ R!WholeValue(fs'[R!Target].pieces)
    BY <1>4, <1>9 DEF Moved, R!WholeValue
  <2> QED
    BY <1>3, <1>7, <1>8, <2>1, CallIs, TargetStays, NamesApart DEF SameWork
<1> QED
  BY <1>8, <1>11, <1>12, StepKeeps, NamesApart

LEMMA GuestChecks ==
  ASSUME FilesInv, NEW n \in Callers, kind = "qga", R!At(n, "check"),
         R!Asks(n, "check", R!Ends(n, "done"), R!Aborts(n)), R!Overtakes(n), R!Lands,
         UNCHANGED <<kind, handles, orphaned, outside>>
  PROVE  FilesInv'
<1> DEFINE q == R!Request(n, "check", call[n].part)
<1>1. q \in Sent /\ q.n = n /\ q.do = "check" /\ q.part = call[n].part
  BY RequestIs DEF FilesInv
<1>2. (Done(q) /\ R!Ends(n, "done")) \/ (Fails(q) /\ R!Goes(n, "unlink"))
  BY <1>1 DEF R!Asks, R!Sends, Done, Fails, R!Aborts
<1> HIDE DEF q
<1>3. FilesTyped /\ CallKept(n) /\ TargetWhole
  BY DEF FilesInv
<1>4. /\ call[n].at = "check" /\ call[n].op = "create" /\ call[n].end = "none"
      /\ LateOf(n) = {} /\ (fs[n] # R!None => fs[n].by = n /\ fs[n].pieces = R!Whole(n))
      /\ fs[n] = R!None => n \in landed
  BY <1>3, CallIs DEF CallKept, Sits, Gives, Stages, R!At
<1>5. /\ Entered(R!Effect(q).fs) /\ R!Effect(q).fs = fs
      /\ R!Effect(q).result = "ok" => fs[n] = R!None
  BY <1>1, <1>3, CheckDoes
<1>6. fs' = fs /\ (Done(q) => fs[n] = R!None)
  BY <1>2, <1>5 DEF Done, Fails
<1>7. /\ Alone(n) /\ SameWork(n) /\ call'[n].part = call[n].part
      /\ call'[n].at \in {"ended", "unlink"}
      /\ call'[n].at = "ended" => Done(q) /\ call'[n].end = "done"
      /\ call'[n].at = "unlink" => call'[n].end = "none"
  BY <1>2, <1>3, <1>4, GoesIs, EndsIs DEF Ats
<1>8. /\ FilesTyped' /\ Touches(n)
      /\ LateOf(n)' \in {LateOf(n), LateOf(n) \cup {q}}
      /\ LateOf(n)' # LateOf(n) => fs' = fs /\ <<n, "temporary">> \in unclean' /\ ~Done(q)
  BY <1>1, <1>2, <1>3, <1>5, <1>7, Framed DEF FilesTyped
<1>9. CallKept(n)'
  <2>1. Sits(n)'
    BY <1>3, <1>4, <1>7 DEF Sits, SameWork, Writing
  <2>2. Gives(n)'
    BY <1>1, <1>4, <1>6, <1>7, <1>8 DEF Gives, SameWork, Touches, R!Whole
  <2>4. Stages(n)'
    BY <1>3, <1>4, <1>6, <1>7 DEF Stages, SameWork, R!Whole
  <2>5. Held(n)'
    BY <1>3, <1>4, <1>7, <1>8 DEF CallKept, Held, Touches
  <2>6. Finds(n)'
    BY <1>1, <1>4, <1>6, <1>7, <1>8 DEF Finds, SameWork, Writing, Touches
  <2> QED
    BY <2>1, <2>2, <2>4, <2>5, <2>6 DEF CallKept
<1>10. TargetWhole'
  BY <1>3, <1>6, <1>7, <1>8, CallIs, TargetStays, NamesApart DEF SameWork
<1> QED
  BY <1>8, <1>9, <1>10, StepKeeps, NamesApart

(* Reading, and a call that starts. *)
LEMMA ReadsAll ==
  ASSUME FilesInv, NEW n \in Callers, R!ReadAll(n)
  PROVE  FilesInv'
<1>1. /\ kind' = kind /\ fs' = fs /\ late' = late /\ handles' = handles /\ outside' = outside
      /\ landed' = landed /\ overtaken' = overtaken /\ unclean' = unclean
      /\ orphaned' = orphaned
      /\ call[n].at = "read"
      /\ (R!IsFile(fs[R!Target]) /\ R!Got(n, fs[R!Target].pieces)) \/ R!Ends(n, "failed")
  BY DEF R!ReadAll, R!At, R!world, R!history
<1>2. FilesTyped /\ CallKept(n) /\ TargetWhole
  BY DEF FilesInv
<1>3. /\ call[n].op = "read" /\ call[n].end = "none" /\ LateOf(n) = {} /\ fs[n] = R!None
  BY <1>1, <1>2, CallIs DEF CallKept, Sits, Gives, Stages
<1>4. fs[R!Target] \in Entries
  BY <1>2, NamesApart DEF FilesTyped, Entries
<1>5. /\ Alone(n) /\ call'[n].op = call[n].op /\ call'[n].part = call[n].part
      /\ call'[n].at = "ended"
      /\ \/ call'[n].end = "failed"
         \/ call'[n].end = "done" /\ R!IsFile(fs[R!Target]) /\ call'[n].got = fs[R!Target].pieces
  <2>1. CASE R!Ends(n, "failed")
    BY <1>2, <2>1, EndsIs DEF SameWork
  <2>2. CASE R!IsFile(fs[R!Target]) /\ R!Got(n, fs[R!Target].pieces)
    <3> DEFINE p == fs[R!Target].pieces
    <3>1. p \in Values
      BY <1>4, <2>2, EntryKinds
    <3>2. call[n] \in Doing /\ call \in [Callers -> Doing]
      BY <1>2, CallIs DEF FilesTyped
    <3> HIDE DEF p
    <3>3. [call[n] EXCEPT !.at = "ended", !.end = "done", !.got = p] \in Doing
      BY <3>1, <3>2 DEF Doing
    <3>4. call' = [call EXCEPT ![n] = [call[n] EXCEPT !.at = "ended", !.end = "done", !.got = p]]
      BY <2>2, <3>2 DEF R!Got, p
    <3>5. /\ Alone(n) /\ call'[n].op = call[n].op /\ call'[n].part = call[n].part
          /\ call'[n].at = "ended" /\ call'[n].end = "done" /\ call'[n].got = p
      BY <3>2, <3>3, <3>4 DEF Alone, Doing
    <3> QED
      BY <2>2, <3>5 DEF p
  <2> QED
    BY <1>1, <2>1, <2>2
<1>6. FilesTyped' /\ Touches(n) /\ LateOf(n)' = {}
  BY <1>1, <1>2, <1>3, <1>5 DEF FilesTyped, Touches, Alone, LateOf
<1>7. CallKept(n)'
  <2>1. Sits(n)'
    BY <1>1, <1>3, <1>5 DEF Sits
  <2>2. Gives(n)'
    BY <1>6 DEF Gives
  <2>3. Stages(n)'
    BY <1>1, <1>3, <1>5 DEF Stages
  <2>4. Held(n)'
    BY <1>1, <1>2, <1>5 DEF CallKept, Held
  <2>5. Finds(n)'
    <3>1. kind = "winrm" /\ R!IsFile(fs[R!Target]) => R!WholeValue(fs[R!Target].pieces)
      BY <1>2 DEF TargetWhole, R!StagedOnly
    <3>2. \A p: R!WholeValue(p)' = R!WholeValue(p)
      BY DEF R!WholeValue, R!Whole
    <3> QED
      BY <1>1, <1>3, <1>5, <1>6, <3>1, <3>2 DEF Finds, Writing
  <2> QED
    BY <2>1, <2>2, <2>3, <2>4, <2>5 DEF CallKept
<1>8. TargetWhole'
  BY <1>1, <1>2, <1>5, <1>6, CallIs, TargetStays, NamesApart
<1> QED
  BY <1>6, <1>7, <1>8, StepKeeps, NamesApart

LEMMA ReadsPiece ==
  ASSUME FilesInv, NEW n \in Callers, R!ReadPiece(n)
  PROVE  FilesInv'
<1> DEFINE k == call[n].part
           pieces == [call[n].got EXCEPT ![k] = fs[R!Target].pieces[k]]
<1>1. /\ kind' = kind /\ fs' = fs /\ late' = late /\ handles' = handles /\ outside' = outside
      /\ landed' = landed /\ overtaken' = overtaken /\ unclean' = unclean
      /\ orphaned' = orphaned
      /\ call[n].at = "ranges"
      /\ \/ /\ R!IsFile(fs[R!Target])
            /\ IF k = Parts THEN R!Got(n, pieces)
               ELSE call' = [call EXCEPT ![n].got = pieces, ![n].part = @ + 1]
         \/ R!Ends(n, "failed")
  BY DEF R!ReadPiece, R!At, R!world, R!history
<1>2. FilesTyped /\ CallKept(n) /\ TargetWhole
  BY DEF FilesInv
<1>3. /\ call[n].op = "ranges" /\ call[n].end = "none" /\ LateOf(n) = {} /\ fs[n] = R!None
      /\ k \in 1 .. Parts /\ Parts \in Nat /\ call[n].got \in Values
      /\ kind = "winrm" /\ k > 1 /\ n \notin overtaken =>
             R!IsFile(fs[R!Target]) /\ \A i \in 1 .. k - 1: call[n].got[i] = fs[R!Target].pieces[i]
  <2>1. Sits(n) /\ Gives(n) /\ Stages(n) /\ (n \in overtaken \/ Finds(n))
    BY <1>2 DEF CallKept
  <2>2. call[n].op = "ranges" /\ call[n].end = "none" /\ LateOf(n) = {} /\ fs[n] = R!None
    BY <1>1, <1>2, <2>1, CallIs DEF Sits, Gives, Stages
  <2>3. k \in 1 .. Parts /\ Parts \in Nat /\ call[n].got \in Values
    BY <1>2, CallIs, FilesAssumption DEF R!FilesAssumption
  <2>4. kind = "winrm" /\ k > 1 /\ n \notin overtaken =>
             R!IsFile(fs[R!Target]) /\ \A i \in 1 .. k - 1: call[n].got[i] = fs[R!Target].pieces[i]
    BY <1>1, <2>1 DEF Finds
  <2> QED
    BY <2>2, <2>3, <2>4
<1>4. fs[R!Target] \in Entries
  BY <1>2, NamesApart DEF FilesTyped, Entries
<1>5. R!IsFile(fs[R!Target]) =>
          /\ fs[R!Target].pieces \in Values /\ pieces \in Values
          /\ kind = "winrm" /\ n \notin overtaken =>
                 \A i \in 1 .. k: pieces[i] = fs[R!Target].pieces[i]
  <2> SUFFICES ASSUME R!IsFile(fs[R!Target])
               PROVE  /\ fs[R!Target].pieces \in Values /\ pieces \in Values
                      /\ kind = "winrm" /\ n \notin overtaken =>
                             \A i \in 1 .. k: pieces[i] = fs[R!Target].pieces[i]
    OBVIOUS
  <2>1. fs[R!Target].pieces \in Values
    BY <1>4, EntryKinds
  <2>2. pieces \in Values
    BY <1>3, <2>1 DEF Values
  <2>3. pieces[k] = fs[R!Target].pieces[k] /\ \A i \in 1 .. k - 1: pieces[i] = call[n].got[i]
    BY <1>3 DEF Values
  <2>4. ASSUME kind = "winrm", n \notin overtaken, NEW i \in 1 .. k
        PROVE  pieces[i] = fs[R!Target].pieces[i]
    <3>1. i = k \/ (i \in 1 .. k - 1 /\ k > 1)
      BY <1>3
    <3> HIDE DEF pieces, k
    <3> QED
      BY <1>3, <2>3, <2>4, <3>1
  <2> QED
    BY <2>1, <2>2, <2>4
<1> HIDE DEF pieces
<1>6. /\ Alone(n) /\ call'[n].op = call[n].op
      /\ \/ call'[n].at = "ended" /\ call'[n].end = "failed"
         \/ /\ R!IsFile(fs[R!Target]) /\ k = Parts /\ call'[n].got = pieces
            /\ call'[n].at = "ended" /\ call'[n].end = "done"
         \/ /\ R!IsFile(fs[R!Target]) /\ call'[n].part = k + 1 /\ call'[n].got = pieces
            /\ call'[n].at = "ranges" /\ call'[n].end = "none"
  <2>0. call[n] \in Doing /\ call \in [Callers -> Doing]
    BY <1>2, CallIs DEF FilesTyped
  <2>1. CASE R!Ends(n, "failed")
    BY <1>2, <2>1, EndsIs DEF SameWork
  <2>2. CASE R!IsFile(fs[R!Target]) /\ k = Parts /\ R!Got(n, pieces)
    <3>3. [call[n] EXCEPT !.at = "ended", !.end = "done", !.got = pieces] \in Doing
      BY <1>5, <2>0, <2>2 DEF Doing
    <3>4. call' = [call EXCEPT ![n] =
                     [call[n] EXCEPT !.at = "ended", !.end = "done", !.got = pieces]]
      BY <2>0, <2>2 DEF R!Got
    <3>5. /\ Alone(n) /\ call'[n].op = call[n].op
          /\ call'[n].at = "ended" /\ call'[n].end = "done" /\ call'[n].got = pieces
      BY <2>0, <3>3, <3>4 DEF Alone, Doing
    <3> QED
      BY <2>2, <3>5
  <2>3. CASE /\ R!IsFile(fs[R!Target]) /\ k # Parts
             /\ call' = [call EXCEPT ![n].got = pieces, ![n].part = @ + 1]
    <3>1. k + 1 \in 1 .. Parts
      BY <1>3, <2>3
    <3>3. [call[n] EXCEPT !.got = pieces, !.part = k + 1] \in Doing
      BY <1>5, <2>0, <2>3, <3>1 DEF Doing
    <3>4. call' = [call EXCEPT ![n] = [call[n] EXCEPT !.got = pieces, !.part = k + 1]]
      BY <2>0, <2>3
    <3>5. /\ Alone(n) /\ call'[n].op = call[n].op /\ call'[n].part = k + 1
          /\ call'[n].at = call[n].at /\ call'[n].end = call[n].end /\ call'[n].got = pieces
      BY <2>0, <3>3, <3>4 DEF Alone, Doing
    <3> QED
      BY <1>1, <1>3, <2>3, <3>5
  <2> QED
    BY <1>1, <2>1, <2>2, <2>3
<1>7. FilesTyped' /\ Touches(n) /\ LateOf(n)' = {}
  BY <1>1, <1>2, <1>3, <1>6 DEF FilesTyped, Touches, Alone, LateOf
<1>8. CallKept(n)'
  <2>1. Sits(n)'
    BY <1>1, <1>3, <1>6 DEF Sits
  <2>2. Gives(n)'
    BY <1>7 DEF Gives
  <2>3. Stages(n)'
    BY <1>1, <1>3, <1>6 DEF Stages
  <2>4. Held(n)'
    BY <1>1, <1>2, <1>6 DEF CallKept, Held
  <2>5. (n \in overtaken \/ Finds(n))'
    <3> SUFFICES ASSUME n \notin overtaken PROVE Finds(n)'
      BY <1>1
    <3>1. kind = "winrm" /\ R!IsFile(fs[R!Target]) => R!WholeValue(fs[R!Target].pieces)
      BY <1>2 DEF TargetWhole, R!StagedOnly
    <3>2. \A p: R!WholeValue(p)' = R!WholeValue(p)
      BY DEF R!WholeValue, R!Whole
    <3>3. kind = "winrm" /\ R!IsFile(fs[R!Target]) /\ k = Parts => pieces = fs[R!Target].pieces
      BY <1>3, <1>5 DEF Values
    <3>4. \A i \in 1 .. k + 1 - 1: i \in 1 .. k
      BY <1>3
    <3> QED
      BY <1>1, <1>3, <1>5, <1>6, <1>7, <3>1, <3>2, <3>3, <3>4 DEF Finds, Writing, R!IsFile
  <2> QED
    BY <2>1, <2>2, <2>3, <2>4, <2>5 DEF CallKept
<1>9. TargetWhole'
  BY <1>1, <1>2, <1>6, <1>7, CallIs, TargetStays, NamesApart
<1> QED
  BY <1>7, <1>8, <1>9, StepKeeps, NamesApart

LEMMA Begins ==
  ASSUME FilesInv, NEW n \in Callers, NEW o \in {"write", "create", "read", "ranges"},
         R!Begin(n, o)
  PROVE  FilesInv'
<1> DEFINE at == IF o \in {"read", "ranges"} THEN o ELSE R!FirstStep(o)
<1>1. /\ kind' = kind /\ fs' = fs /\ late' = late /\ handles' = handles /\ outside' = outside
      /\ landed' = landed /\ overtaken' = overtaken /\ unclean' = unclean
      /\ orphaned' = orphaned
      /\ call[n].at = "idle"
      /\ call' = [call EXCEPT ![n] = [R!Idle EXCEPT !.op = o, !.at = at]]
  BY DEF R!Begin, R!At, R!world, R!history
<1>2. FilesTyped /\ CallKept(n) /\ TargetWhole
  BY DEF FilesInv
<1>3. /\ call[n].op = "none" /\ LateOf(n) = {} /\ fs[n] = R!None
      /\ kind \in {"winrm", "archive", "qga"}
  BY <1>1, <1>2 DEF CallKept, Sits, Gives, Stages, FilesTyped
<1>4. /\ at \in Ats
      /\ \/ o = "read" /\ at = "read"
         \/ o = "ranges" /\ at = "ranges"
         \/ o \in Writing /\ at = "create" /\ kind = "winrm"
         \/ o = "create" /\ at = "stat" /\ kind = "archive"
         \/ o = "write" /\ at = "inherit" /\ kind = "archive"
         \/ o \in Writing /\ at = "open" /\ kind = "qga"
  BY <1>3 DEF R!FirstStep, Ats, Writing
<1> HIDE DEF at
<1>5. R!Empty \in Values /\ 1 \in 1 .. Parts
  BY WholeIs, FilesAssumption DEF R!Empty, R!FilesAssumption
<1>6. /\ Alone(n) /\ call'[n].op = o /\ call'[n].at = at
      /\ call'[n].part = 1 /\ call'[n].end = "none"
  <2> DEFINE d == [R!Idle EXCEPT !.op = o, !.at = at]
  <2>1. d \in Doing
    BY <1>4, <1>5 DEF Doing, R!Idle, Ats, Owners
  <2>2. d.op = o /\ d.at = at /\ d.part = 1 /\ d.end = "none"
    BY DEF R!Idle
  <2>3. call' = [call EXCEPT ![n] = d]
    BY <1>1
  <2> HIDE DEF d
  <2> QED
    BY <1>2, <2>1, <2>2, <2>3 DEF Alone, FilesTyped
<1>7. FilesTyped' /\ Touches(n) /\ LateOf(n)' = {}
  BY <1>1, <1>2, <1>3, <1>6 DEF FilesTyped, Touches, Alone, LateOf
<1>8. CallKept(n)'
  <2>1. Sits(n)'
    BY <1>1, <1>4, <1>6 DEF Sits, Writing
  <2>2. Gives(n)'
    BY <1>7 DEF Gives
  <2>3. Stages(n)'
    BY <1>1, <1>3, <1>4, <1>6 DEF Stages
  <2>4. Held(n)'
    BY <1>1, <1>2 DEF CallKept, Held
  <2>5. Finds(n)'
    BY <1>1, <1>4, <1>6, <1>7 DEF Finds
  <2> QED
    BY <2>1, <2>2, <2>3, <2>4, <2>5 DEF CallKept
<1>9. TargetWhole'
  BY <1>1, <1>2, <1>3, <1>6, <1>7, TargetStays, NamesApart
<1> QED
  BY <1>7, <1>8, <1>9, StepKeeps, NamesApart

(* What a request may do, whenever it is done. *)
Mine(r) ==
    /\ fs[r.n] # R!None => fs[r.n].by = r.n
    /\ r.do \in {"create", "append", "commit"} => kind = "winrm" /\ call[r.n].op \in Writing
    /\ r.do \in {"put", "extract"} => kind = "archive"
    /\ r.do \in {"open", "write"} => kind = "qga" /\ call[r.n].op \in Writing
    /\ r.do \in {"commit", "move"} /\ fs[r.n] # R!None => fs[r.n].pieces = R!Whole(r.n)

LEMMA Requested ==
  ASSUME FilesTyped, NEW r \in Sent, Mine(r)
  PROVE  LET f == R!Effect(r).fs
         IN  /\ Entered(f) /\ \A m \in Callers: m # r.n => f[m] = fs[m]
             /\ \/ f[r.n] = fs[r.n] \/ f[r.n] = R!None
                \/ /\ r.do \in {"create", "append", "open", "write"}
                   /\ f[r.n].by = r.n
                   /\ \/ kind = "winrm" /\ call[r.n].op \in Writing
                      \/ kind = "qga" /\ call[r.n].op = "create"
             /\ f[R!Target] = fs[R!Target] \/ f[R!Target].pieces = R!Whole(r.n) \/ ~R!StagedOnly
<1> DEFINE f == R!Effect(r).fs
           n == r.n
<1>1. n \in Callers /\ n # R!Target /\ R!Target \notin Callers
      /\ n \in R!Names /\ R!Target \in R!Names
      /\ \A m \in Callers: m \in R!Names /\ m # R!Target
      /\ fs[n] \in Entries /\ (fs[n] # R!None => R!IsFile(fs[n])) /\ fs[n] # R!Dir
  <2>1. n \in Callers
    BY DEF Sent
  <2>2. fs[n] \in Entries /\ fs[n] # R!Dir
    BY <2>1, NamesApart DEF FilesTyped, Entries
  <2> QED
    BY <2>1, <2>2, NamesApart, EntryKinds
<1>2. CASE r.do = "create"
  <2>1. Entered(f) /\ OnlyAt(f, n) /\ (f = fs \/ f[n].by = n)
    BY <1>2, CreateDoes
  <2> QED
    BY <1>1, <1>2, <2>1 DEF OnlyAt, Mine
<1>3. CASE r.do = "append"
  <2>1. Entered(f) /\ OnlyAt(f, n) /\ f[n].by = n
    BY <1>3, AppendDoes DEF Mine
  <2> QED
    BY <1>1, <1>3, <2>1 DEF OnlyAt, Mine
<1>4. CASE r.do = "commit"
  <2>1. Entered(f) /\ (f = fs \/ Moved(f, n))
    BY <1>4, CommitDoes
  <2> QED
    BY <1>1, <1>4, <2>1 DEF Moved, Mine
<1>5. CASE r.do = "unlink"
  <2>1. Entered(f) /\ OnlyAt(f, n) /\ f[n] = R!None
    BY <1>5, UnlinkDoes
  <2> QED
    BY <1>1, <2>1 DEF OnlyAt
<1>6. CASE r.do \in {"put", "extract"}
  <2>1. Entered(f) /\ OnlyAt(f, R!Target)
    BY <1>6, PutDoes, ExtractDoes
  <2> QED
    BY <1>1, <1>6, <2>1 DEF OnlyAt, Mine, R!StagedOnly
<1>7. CASE r.do \in {"open", "write"}
  <2>1. Entered(f) /\ OnlyAt(f, Named(n)) /\ f[n] \in Entries
    BY <1>1, <1>7, OpenDoes, WriteDoes DEF Entered
  <2>2. CASE call[n].op = "create"
    <3>1. Named(n) = n
      BY <2>2 DEF Named
    <3>2. f = fs \/ f[n].by = n
      <4>1. CASE r.do = "open"
        BY <1>1, <3>1, <4>1, OpenDoes DEF Mine
      <4>2. CASE r.do = "write"
        BY <1>1, <3>1, <4>2, WriteDoes, EntryKinds DEF Mine
      <4> QED
        BY <1>7, <4>1, <4>2
    <3> QED
      BY <1>1, <1>7, <2>1, <2>2, <3>1, <3>2 DEF OnlyAt, Mine
  <2>3. CASE call[n].op # "create"
    <3>1. Named(n) = R!Target
      BY <2>3 DEF Named
    <3>2. ~R!StagedOnly
      BY <1>1, <1>7, <2>3 DEF Mine, R!StagedOnly, Writing
    <3> QED
      BY <1>1, <2>1, <3>1, <3>2 DEF OnlyAt
  <2> QED
    BY <2>2, <2>3
<1>8. CASE r.do = "move"
  <2>1. Entered(f) /\ (f = fs \/ Moved(f, n))
    BY <1>8, MoveDoes
  <2> QED
    BY <1>1, <1>8, <2>1 DEF Moved, Mine
<1>9. CASE r.do = "check"
  BY <1>9, CheckDoes
<1> QED
  BY <1>2, <1>3, <1>4, <1>5, <1>6, <1>7, <1>8, <1>9 DEF Sent

LEMMA LateMine ==
  ASSUME FilesInv, NEW r \in late
  PROVE  Mine(r) /\ r \in Sent /\ r \in LateOf(r.n) /\ r.n \in Callers
<1>1. r \in Sent /\ r.n \in Callers
  BY DEF FilesInv, FilesTyped, Sent
<1>2. Gives(r.n) /\ Stages(r.n) /\ r \in LateOf(r.n)
  BY <1>1 DEF FilesInv, CallKept, LateOf
<1> QED
  BY <1>1, <1>2 DEF Mine, Gives, Stages

LEMMA Lates ==
  ASSUME FilesInv, R!Late
  PROVE  FilesInv'
<1>1. PICK r \in late:
        /\ late' = late \ {r} /\ fs' = R!Effect(r).fs /\ R!Overtakes(r.n) /\ R!Lands
        /\ kind' = kind /\ call' = call /\ outside' = outside /\ unclean' = unclean
        /\ handles' \subseteq handles \cup {r.n}
        /\ orphaned \subseteq orphaned' /\ orphaned' \subseteq orphaned \cup {r.n}
        /\ r.n \in handles' => r.n \in handles \/ r.n \in orphaned'
  BY DEF R!Late, R!Opens
<1> DEFINE n == r.n
<1>2. FilesTyped /\ TargetWhole /\ Mine(r) /\ r \in Sent /\ r \in LateOf(n) /\ n \in Callers
      /\ CallKept(n)
  BY LateMine DEF FilesInv
<1>3. /\ Entered(fs') /\ \A m \in Callers: m # n => fs'[m] = fs[m]
      /\ \/ fs'[n] = fs[n] \/ fs'[n] = R!None
         \/ /\ r.do \in {"create", "append", "open", "write"}
            /\ fs'[n].by = n
            /\ \/ kind = "winrm" /\ call[n].op \in Writing
               \/ kind = "qga" /\ call[n].op = "create"
      /\ fs'[R!Target] = fs[R!Target] \/ fs'[R!Target].pieces = R!Whole(n) \/ ~R!StagedOnly
  BY <1>1, <1>2, Requested
<1> HIDE DEF n
<1>4. /\ landed' \subseteq Callers /\ landed \subseteq landed'
      /\ overtaken' \subseteq Callers /\ overtaken \subseteq overtaken'
      /\ \A m \in Callers: m # n /\ fs'[R!Target] # fs[R!Target] /\ R!Looked(m) => m \in overtaken'
  BY <1>1, <1>2 DEF R!Lands, R!Overtakes, FilesTyped, n
<1>5. FilesTyped'
  BY <1>1, <1>2, <1>3, <1>4 DEF FilesTyped, Entered, Entries, n
<1>6. Touches(n) /\ LateOf(n)' = LateOf(n) \ {r}
  BY <1>1, <1>3, <1>4 DEF Touches, LateOf, n
<1>7. /\ call[n].at \in {"close", "unlink", "ended"}
      /\ call[n].at \in {"close", "ended"} => call[n].end = "failed"
      /\ <<n, "temporary">> \in unclean
      /\ call[n].end # "done"
      /\ r.do = "put" => LateOf(n) = {r}
      /\ \A q \in LateOf(n): /\ q.do = "put" => LateOf(n) = {q}
                             /\ q.do \in {"commit", "move"} =>
                                    r.do \notin {"create", "append", "open", "write"}
  BY <1>2 DEF CallKept, Gives, Sits
<1>8. CallKept(n)'
  <2>1. Sits(n)'
    BY <1>1, <1>2 DEF CallKept, Sits
  <2>2. Gives(n)'
    <3>1. Gives(n)
      BY <1>2 DEF CallKept
    <3>2. LateOf(n)' \subseteq LateOf(n) /\ R!Whole(n)' = R!Whole(n)
      BY <1>6 DEF R!Whole
    <3>3. ASSUME NEW q \in LateOf(n)', q.do \in {"commit", "move"}, fs'[n] # R!None
          PROVE  fs'[n].pieces = R!Whole(n)
      BY <1>3, <1>7, <3>1, <3>2, <3>3 DEF Gives
    <3>4. ASSUME NEW q \in LateOf(n)', q.do = "put"
          PROVE  LateOf(n)' = {q}
      BY <1>6, <1>7, <3>4
    <3> QED
      BY <1>1, <1>7, <3>1, <3>2, <3>3, <3>4 DEF Gives
  <2>3. Stages(n)'
    BY <1>1, <1>2, <1>3, <1>7 DEF CallKept, Stages
  <2>4. Held(n)'
    BY <1>1, <1>2 DEF CallKept, Held, n
  <2>5. Finds(n)'
    <3>1. \A q \in LateOf(n)': q.do # "put"
      BY <1>2, <1>6, <1>7
    <3> QED
      BY <1>1, <1>7, <3>1 DEF Finds
  <2> QED
    BY <2>1, <2>2, <2>3, <2>4, <2>5 DEF CallKept
<1>9. TargetWhole'
  <2>1. R!StagedOnly' <=> R!StagedOnly
    BY <1>1 DEF R!StagedOnly
  <2>2. R!StagedOnly' => fs'[R!Target] = fs[R!Target] \/ R!WholeValue(fs'[R!Target].pieces)
    BY <1>2, <1>3, <2>1 DEF R!WholeValue
  <2> QED
    BY <1>1, <1>2, <1>6, <2>2, TargetStays, NamesApart
<1> QED
  BY <1>2, <1>5, <1>6, <1>8, <1>9, StepKeeps, NamesApart

LEMMA Outsiders ==
  ASSUME FilesInv, R!Outside
  PROVE  FilesInv'
<1>1. PICK e \in {R!None, R!Dir, R!File(R!Whole(R!Other), R!Other, "app")}:
        fs' = [fs EXCEPT ![R!Target] = e]
  BY DEF R!Outside
<1>2. /\ outside < MaxOutside /\ outside' = outside + 1 /\ R!Overtakes(R!Other)
      /\ kind' = kind /\ late' = late /\ handles' = handles /\ call' = call
      /\ landed' = landed /\ unclean' = unclean /\ orphaned' = orphaned
  BY DEF R!Outside
<1>3. FilesTyped /\ TargetWhole
  BY DEF FilesInv
<1>4. e \in Entries /\ (R!IsFile(e) => e.pieces = R!Whole(R!Other))
  BY WholeIs, FileIs, NamesApart, EntryKinds DEF Entries, Owners
<1>5. /\ Entered(fs') /\ fs'[R!Target] = e /\ \A m \in Callers: fs'[m] = fs[m]
  BY <1>1, <1>3, <1>4, Placed, NamesApart DEF Entered
<1>6. /\ overtaken' \subseteq Callers /\ overtaken \subseteq overtaken'
      /\ \A m \in Callers: m # R!Other /\ fs'[R!Target] # fs[R!Target] /\ R!Looked(m)
                          => m \in overtaken'
  BY <1>2, <1>3 DEF R!Overtakes, FilesTyped
<1>7. outside' \in 0 .. MaxOutside
  BY <1>2, <1>3, FilesAssumption DEF FilesTyped, R!FilesAssumption
<1>8. FilesTyped'
  BY <1>2, <1>3, <1>5, <1>6, <1>7 DEF FilesTyped, Entered, Entries
<1>9. Touches(R!Other)
  BY <1>2, <1>5, <1>6 DEF Touches
<1>10. TargetWhole'
  <2>1. R!IsFile(fs'[R!Target]) => R!WholeValue(fs'[R!Target].pieces)
    BY <1>4, <1>5 DEF R!WholeValue
  <2> QED
    BY <1>3, <1>9, <2>1, TargetStays, NamesApart
<1> QED
  BY <1>8, <1>9, <1>10, StepKeeps, NamesApart

LEMMA FilesStart ==
  ASSUME R!Init
  PROVE  FilesInv
<1>1. R!Empty \in Values /\ 1 \in 1 .. Parts /\ kind \in {"winrm", "archive", "qga"}
      /\ MaxOutside \in Nat /\ kind \in FileKinds
  BY WholeIs, FilesAssumption DEF R!Empty, R!FilesAssumption, R!Init
<1>2. R!Idle \in Doing
  BY <1>1 DEF R!Idle, Doing, Owners
<1>3. R!File(R!Whole(R!Other), R!Other, "app") \in AFile /\ R!None # R!Dir
  BY WholeIs, FileIs, NamesApart, EntryKinds DEF Owners
<1>4. FilesTyped
  BY <1>1, <1>2, <1>3 DEF R!Init, FilesTyped
<1>5. TargetWhole
  <2>1. fs[R!Target] \in {R!None, R!Dir, R!File(R!Whole(R!Other), R!Other, "app")}
    BY NamesApart DEF R!Init
  <2>2. R!IsFile(fs[R!Target]) => fs[R!Target].pieces = R!Whole(R!Other)
    BY <2>1, EntryKinds DEF R!File
  <2> QED
    BY <2>2 DEF TargetWhole, R!WholeValue
<1>6. ASSUME NEW n \in Callers PROVE CallKept(n)
  <2>1. /\ call[n].at = "idle" /\ call[n].op = "none" /\ call[n].part = 1 /\ call[n].end = "none"
        /\ fs[n] = R!None /\ late = {} /\ handles = {} /\ orphaned = {}
    BY DEF R!Init, R!Idle
  <2>2. LateOf(n) = {}
    BY <2>1 DEF LateOf
  <2> QED
    BY <2>1, <2>2 DEF CallKept, Sits, Gives, Stages, Held, Finds
<1> QED
  BY <1>4, <1>5, <1>6 DEF FilesInv

LEMMA FilesStep ==
  ASSUME FilesInv, [R!Next]_R!vars
  PROVE  FilesInv'
<1>1. CASE UNCHANGED R!vars
  <2>1. /\ fs' = fs /\ late' = late /\ handles' = handles /\ kind' = kind /\ call' = call
        /\ outside' = outside /\ landed' = landed /\ overtaken' = overtaken
        /\ unclean' = unclean /\ orphaned' = orphaned
    BY <1>1 DEF R!vars, R!world, R!history
  <2>2. FilesTyped' /\ TargetWhole'
    BY <2>1 DEF FilesInv, FilesTyped, TargetWhole, R!StagedOnly, R!WholeValue, R!Whole
  <2>3. ASSUME NEW n \in Callers PROVE CallKept(n)'
    <3>1. CallKept(n)
      BY DEF FilesInv
    <3>2. LateOf(n)' = LateOf(n)
      BY <2>1 DEF LateOf
    <3>3. Sits(n)' /\ Held(n)'
      BY <2>1, <3>1 DEF CallKept, Sits, Held
    <3>4. Gives(n)'
      BY <2>1, <3>1, <3>2 DEF CallKept, Gives, R!Whole
    <3>5. Stages(n)'
      BY <2>1, <3>1 DEF CallKept, Stages, Sofar, R!Whole
    <3>6. (n \in overtaken \/ Finds(n))'
      BY <2>1, <3>1, <3>2 DEF CallKept, Finds, Sofar, R!WholeValue, R!Whole
    <3> QED
      BY <3>3, <3>4, <3>5, <3>6 DEF CallKept
  <2> QED
    BY <2>2, <2>3 DEF FilesInv
<1>2. CASE R!Late
  BY <1>2, Lates
<1>3. CASE R!Outside
  BY <1>3, Outsiders
<1>4. ASSUME NEW n \in Callers, NEW o \in {"write", "create", "read", "ranges"}, R!Begin(n, o)
      PROVE  FilesInv'
  BY <1>4, Begins
<1>5. ASSUME NEW n \in Callers, R!Step(n)
      PROVE  FilesInv'
  <2>1. CASE R!WinRMWrite(n)
    BY <2>1, WinRMCreates, WinRMAppends, WinRMCommits, Unlinks DEF R!WinRMWrite
  <2>2. CASE R!Stat(n) \/ R!Inherit(n)
    BY <2>2, ArchiveLooks
  <2>3. CASE R!ArchivePut(n)
    BY <2>3, ArchivePuts, ArchiveExtracts DEF R!ArchivePut
  <2>4. CASE R!GuestOpen(n)
    BY <2>4, GuestOpens
  <2>5. CASE R!GuestWrite(n)
    BY <2>5, GuestWrites
  <2>6. CASE R!GuestClose(n)
    BY <2>6, GuestCloses
  <2>7. CASE R!GuestMove(n)
    BY <2>7, GuestMoves, GuestChecks, Unlinks DEF R!GuestMove
  <2>8. CASE R!ReadAll(n)
    BY <2>8, ReadsAll
  <2>9. CASE R!ReadPiece(n)
    BY <2>9, ReadsPiece
  <2> QED
    BY <1>5, <2>1, <2>2, <2>3, <2>4, <2>5, <2>6, <2>7, <2>8, <2>9 DEF R!Step
<1> QED
  BY <1>1, <1>2, <1>3, <1>4, <1>5 DEF R!Next

LEMMA FilesTell ==
  ASSUME FilesInv
  PROVE  R!TypeOK /\ R!WholeTarget /\ R!Honest /\ R!Tidy
<1>1. FilesTyped /\ TargetWhole /\ \A n \in Callers: CallKept(n)
  BY DEF FilesInv
<1>2. \A name \in R!Names: fs[name] \in Entries /\ (name # R!Target => fs[name] # R!Dir)
  BY <1>1 DEF FilesTyped, Entries, R!Names
<1>3. R!TypeOK
  <2>1. \A name \in R!Names: \/ fs[name].type \in {"none", "file"}
                             \/ name = R!Target /\ fs[name] = R!Dir
    BY <1>2, EntryKinds
  <2>2. \A r \in late: r.n \in Callers /\ r.part \in 1 .. Parts
    BY <1>1 DEF FilesTyped, Sent
  <2> QED
    BY <1>1, <2>1, <2>2 DEF R!TypeOK, FilesTyped
<1>4. R!WholeTarget
  BY <1>1 DEF R!WholeTarget, TargetWhole, CallKept, Finds
<1>5. R!Honest
  BY <1>1 DEF R!Honest, CallKept, Finds, Writing
<1>6. R!Tidy
  BY <1>1 DEF R!Tidy, CallKept, Stages, Held, R!At
<1> QED
  BY <1>3, <1>4, <1>5, <1>6

(* What a write may take the place of. *)
Cleared(n) ==
    /\ call[n].op = "create" => fs[R!Target] = R!None
    /\ fs[R!Target] # R!Dir
    /\ R!IsFile(fs[R!Target]) => fs[R!Target].owner = call[n].inherit

LEMMA RequestSpares ==
  ASSUME FilesTyped, NEW r \in Sent, Mine(r),
         r.do = "put" => r.n \in overtaken \/ Cleared(r.n),
         fs' = fs \/ fs' = R!Effect(r).fs,
         NEW n \in Callers, R!Replaces(n), n \notin overtaken
  PROVE  R!Spared(n)
<1> DEFINE f == R!Effect(r).fs
<1>1. /\ fs' = f /\ f[R!Target] # fs[R!Target] /\ R!IsFile(f[R!Target]) /\ f[R!Target].by = n
      /\ fs[R!Target] = R!None \/ fs[R!Target] = R!Dir \/ fs[R!Target].by # n
  BY DEF R!Replaces
<1> HIDE DEF f
<1>2. r.n \in Callers /\ fs[R!Target] \in Entries /\ r.n # R!Target /\ R!Target \in R!Names
  BY NamesApart DEF Sent, FilesTyped, Entries
<1>3. CASE r.do = "commit"
  <2>1. /\ Moved(f, r.n) /\ fs[R!Target] # R!Dir
        /\ R!IsFile(fs[R!Target]) =>
               call[r.n].op = "write" /\ f[R!Target].owner = fs[R!Target].owner
    BY <1>1, <1>3, CommitDoes DEF f
  <2>2. n = r.n
    BY <1>1, <2>1 DEF Moved, Mine
  <2> QED
    BY <1>1, <1>2, <2>1, <2>2, EntryKinds DEF R!Spared
<1>4. CASE r.do = "put"
  <2>1. f[R!Target].by = r.n /\ f[R!Target].owner = call[r.n].inherit
    BY <1>4, PutDoes DEF f
  <2>2. n = r.n
    BY <1>1, <2>1
  <2> QED
    BY <1>1, <1>4, <2>1, <2>2, EntryKinds DEF R!Spared, Cleared
<1>5. CASE r.do = "extract"
  BY <1>1, <1>2, <1>5, ExtractDoes, EntryKinds DEF f
<1>6. CASE r.do = "open"
  <2>1. Named(r.n) = R!Target /\ call[r.n].op # "create"
    BY <1>1, <1>2, <1>6, OpenDoes DEF f, OnlyAt, Named
  <2>2. /\ fs[R!Target] # R!Dir
        /\ f[R!Target].by = (IF fs[R!Target] = R!None THEN r.n ELSE fs[R!Target].by)
    BY <1>1, <1>6, <2>1, OpenDoes DEF f
  <2>3. fs[R!Target] = R!None /\ n = r.n
    BY <1>1, <2>2
  <2> QED
    BY <2>1, <2>2, <2>3, EntryKinds DEF R!Spared
<1>7. CASE r.do = "write"
  <2>1. Named(r.n) = R!Target
    BY <1>1, <1>2, <1>7, WriteDoes DEF f, OnlyAt, Named
  <2> QED
    BY <1>1, <1>2, <1>7, <2>1, WriteDoes, EntryKinds DEF f
<1>8. CASE r.do = "move"
  <2>1. fs[R!Target] = R!None /\ Moved(f, r.n)
    BY <1>1, <1>8, MoveDoes DEF f
  <2>2. n = r.n
    BY <1>1, <2>1 DEF Moved, Mine
  <2> QED
    BY <2>1, <2>2, EntryKinds DEF R!Spared
<1>9. CASE r.do \in {"create", "append", "unlink"}
  <2>1. OnlyAt(f, r.n)
    BY <1>9, CreateDoes, AppendDoes, UnlinkDoes DEF f, Mine
  <2> QED
    BY <1>1, <1>2, <2>1 DEF OnlyAt
<1>10. CASE r.do = "check"
  BY <1>1, <1>10, CheckDoes DEF f
<1> QED
  BY <1>3, <1>4, <1>5, <1>6, <1>7, <1>8, <1>9, <1>10 DEF Sent

(* Every request that a call makes is made where it may be. *)
LEMMA MadeMine ==
  ASSUME FilesInv, NEW m \in Callers,
         NEW do \in {"create", "append", "commit", "unlink", "put", "extract", "open", "write",
                     "move", "check"}, R!At(m, do)
  PROVE  LET q == R!Request(m, do, call[m].part)
         IN  Mine(q) /\ q \in Sent /\ (q.do = "put" => q.n \in overtaken \/ Cleared(q.n))
<1> DEFINE q == R!Request(m, do, call[m].part)
<1>1. q \in Sent /\ q.n = m /\ q.do = do
  BY RequestIs DEF FilesInv
<1> HIDE DEF q
<1>2. Sits(m) /\ Stages(m) /\ (m \in overtaken \/ Finds(m))
  BY DEF FilesInv, CallKept
<1>3. call[m].at = do
  BY DEF R!At
<1>4. Mine(q)
  BY <1>1, <1>2, <1>3 DEF Mine, Sits, Stages
<1>5. q.do = "put" => m \in overtaken \/ Cleared(m)
  <2> SUFFICES ASSUME do = "put", m \notin overtaken PROVE Cleared(m)
    BY <1>1
  <2>1. Finds(m) /\ call[m].at = "put" /\ call[m].op \in Writing
    BY <1>2, <1>3 DEF Sits
  <2> QED
    BY <2>1, EntryKinds DEF Finds, Cleared, Writing
<1> QED
  BY <1>1, <1>4, <1>5 DEF q

LEMMA AskSpares ==
  ASSUME FilesInv, NEW m \in Callers,
         NEW do \in {"create", "append", "commit", "unlink", "put", "extract", "open", "write",
                     "move", "check"}, R!At(m, do),
         LET e == R!Effect(R!Request(m, do, call[m].part)) IN fs' = e.fs \/ fs' = fs
  PROVE  R!SparesThem
<1> DEFINE q == R!Request(m, do, call[m].part)
<1>1. Mine(q) /\ q \in Sent /\ (q.do = "put" => q.n \in overtaken \/ Cleared(q.n))
  BY MadeMine
<1>2. FilesTyped /\ (fs' = fs \/ fs' = R!Effect(q).fs)
  BY DEF FilesInv
<1> HIDE DEF q
<1> QED
  BY <1>1, <1>2, RequestSpares DEF R!SparesThem

LEMMA FilesSpare ==
  ASSUME FilesInv, [R!Next]_R!vars
  PROVE  R!SparesThem
<1>1. CASE fs' = fs
  BY <1>1 DEF R!SparesThem, R!Replaces
<1>2. CASE R!Late
  <2>1. PICK r \in late: fs' = R!Effect(r).fs
    BY <1>2 DEF R!Late
  <2>2. Mine(r) /\ r \in Sent /\ r \in LateOf(r.n) /\ r.n \in Callers
    BY LateMine
  <2>3. r.do = "put" => r.n \in overtaken \/ Cleared(r.n)
    <3> SUFFICES ASSUME r.do = "put", r.n \notin overtaken PROVE Cleared(r.n)
      OBVIOUS
    <3>1. Finds(r.n) /\ Gives(r.n)
      BY <2>2 DEF FilesInv, CallKept
    <3>2. call[r.n].op \in Writing
      BY <2>2, <3>1 DEF Gives
    <3> QED
      BY <2>2, <3>1, <3>2, EntryKinds DEF Finds, Cleared, Writing
  <2>4. FilesTyped
    BY DEF FilesInv
  <2> QED
    BY <2>1, <2>2, <2>3, <2>4, RequestSpares DEF R!SparesThem
<1>3. CASE R!Outside
  <2>1. outside' = outside + 1 /\ outside \in Nat
    BY <1>3, FilesAssumption DEF R!Outside, FilesInv, FilesTyped, R!FilesAssumption
  <2> QED
    BY <2>1 DEF R!SparesThem
<1>4. ASSUME NEW m \in Callers, NEW o \in {"write", "create", "read", "ranges"}, R!Begin(m, o)
      PROVE  fs' = fs
  BY <1>4 DEF R!Begin, R!world
<1>5. ASSUME NEW m \in Callers, R!Step(m)
      PROVE  R!SparesThem
  <2>1. CASE R!WinRMWrite(m)
    <3>1. PICK do \in {"create", "append", "commit", "unlink"}:
            /\ R!At(m, do)
            /\ LET e == R!Effect(R!Request(m, do, call[m].part)) IN fs' = e.fs \/ fs' = fs
      BY <2>1 DEF R!WinRMWrite, R!Asks, R!Sends
    <3> QED
      BY <3>1, AskSpares
  <2>2. CASE R!Stat(m) \/ R!Inherit(m) \/ R!GuestClose(m) \/ R!ReadAll(m) \/ R!ReadPiece(m)
    BY <1>1, <2>2 DEF R!Stat, R!Inherit, R!GuestClose, R!ReadAll, R!ReadPiece, R!world
  <2>3. CASE R!ArchivePut(m)
    <3>1. PICK do \in {"put", "extract"}:
            /\ R!At(m, do)
            /\ LET e == R!Effect(R!Request(m, do, call[m].part)) IN fs' = e.fs \/ fs' = fs
      BY <2>3 DEF R!ArchivePut, R!Asks, R!Sends
    <3> QED
      BY <3>1, AskSpares
  <2>4. CASE R!GuestOpen(m)
    <3>1. R!At(m, "open") /\ LET e == R!Effect(R!Request(m, "open", call[m].part))
                           IN  fs' = e.fs \/ fs' = fs
      BY <2>4 DEF R!GuestOpen, R!Asks, R!Sends
    <3> QED
      BY <3>1, AskSpares
  <2>5. CASE R!GuestWrite(m)
    <3>1. R!At(m, "write") /\ LET e == R!Effect(R!Request(m, "write", call[m].part))
                            IN  fs' = e.fs \/ fs' = fs
      BY <2>5 DEF R!GuestWrite, R!Asks, R!Sends
    <3> QED
      BY <3>1, AskSpares
  <2>6. CASE R!GuestMove(m)
    <3>1. PICK do \in {"move", "check", "unlink"}:
            /\ R!At(m, do)
            /\ LET e == R!Effect(R!Request(m, do, call[m].part)) IN fs' = e.fs \/ fs' = fs
      BY <2>6 DEF R!GuestMove, R!Asks, R!Sends
    <3> QED
      BY <3>1, AskSpares
  <2> QED
    BY <1>5, <2>1, <2>2, <2>3, <2>4, <2>5, <2>6 DEF R!Step
<1>6. CASE UNCHANGED R!vars
  BY <1>1, <1>6 DEF R!vars, R!world
<1> QED
  BY <1>1, <1>2, <1>3, <1>4, <1>5, <1>6 DEF R!Next

-----------------------------------------------------------------------------
(* Links: what a chain of links comes to.                                  *)

(* The place is on the chain, as far along it as the counter says.         *)
Along(k) == k \in 0 .. length /\ place = <<dirs[k], k>>
Spending(k) == hops = IF L!CountsEntries /\ k > 0 THEN Hops - k + 1 ELSE Hops - k

Chained ==
    /\ length \in 0 .. MaxChain /\ dirs \in [0 .. MaxChain -> L!Dirs]
    /\ last \in {"file", "dir", "missing"} /\ hops \in Nat
    /\ \E k \in 0 .. length: Along(k) /\ Spending(k)

LinkInv == Chained /\ L!SameEnd

LEMMA LinksStart ==
  ASSUME L!Init
  PROVE  LinkInv
<1>1. dirs \in [0 .. MaxChain -> L!Dirs] /\ length \in 0 .. MaxChain /\ Hops \in Nat
  BY FilesAssumption DEF L!Init, L!LinksAssumption
<1>2. dirs[0] = 1
  BY DEF L!Init
<1>3. 0 \in 0 .. length /\ Along(0) /\ Spending(0)
  BY <1>1, <1>2, FilesAssumption DEF L!Init, L!LinksAssumption, Along, Spending
<1> QED
  BY <1>1, <1>3 DEF L!Init, LinkInv, Chained, L!SameEnd

LEMMA LinksFollow ==
  ASSUME LinkInv, [L!Next]_(L!vars)
  PROVE  LinkInv'
<1>1. PICK k \in 0 .. length: Along(k) /\ Spending(k)
  BY DEF LinkInv, Chained
<1>2. /\ length \in 0 .. MaxChain /\ dirs \in [0 .. MaxChain -> L!Dirs] /\ MaxChain \in Nat
      /\ Hops \in Nat /\ k \in Nat /\ length \in Nat /\ hops \in Nat
      /\ last \in {"file", "dir", "missing"}
  BY <1>1, FilesAssumption DEF LinkInv, Chained, L!LinksAssumption
<1>3. /\ place[1] = dirs[k] /\ place[2] = k
  BY <1>1 DEF Along
<1>4. /\ L!Entry(place) = "link" <=> k < length
      /\ L!Entry(place) # "link" => k = length /\ L!Entry(place) = last
  BY <1>1, <1>2, <1>3 DEF L!Entry, L!IsLink
<1>6. CASE L!Follow
  <2>1. /\ length' = length /\ last' = last /\ dirs' = dirs /\ backend' = backend /\ op' = op
        /\ result = "none" /\ result' = "none" /\ ~L!Spent /\ k < length
        /\ place' = L!Destination(place)
        /\ hops' = IF L!CountsEntries /\ k = 0 THEN hops ELSE hops - 1
    BY <1>3, <1>4, <1>6 DEF L!Follow, L!fixed
  <2>2. place' = <<dirs[k + 1], k + 1>>
    BY <1>2, <1>3, <2>1 DEF L!Destination, L!Names
  <2>3. hops > 0 \/ (L!CountsEntries /\ k = 0)
    BY <1>2, <1>3, <1>4, <2>1 DEF L!Spent
  <2>4. k + 1 \in 0 .. length' /\ Along(k + 1)'
    BY <1>2, <2>1, <2>2 DEF Along
  <2>5. Spending(k + 1)' /\ hops' \in Nat
    BY <1>1, <1>2, <2>1, <2>3 DEF Spending, L!CountsEntries
  <2> QED
    BY <1>2, <2>1, <2>4, <2>5 DEF LinkInv, Chained, L!SameEnd
<1>7. CASE L!TooMany \/ L!Answer
  <2>1. /\ length' = length /\ last' = last /\ dirs' = dirs /\ backend' = backend /\ op' = op
        /\ place' = place /\ hops' = hops
    BY <1>7 DEF L!TooMany, L!Answer, L!fixed
  <2>2. Along(k)' /\ Spending(k)'
    BY <1>1, <2>1 DEF Along, Spending, L!CountsEntries
  <2>3. Chained'
    BY <1>2, <2>1, <2>2 DEF Chained
  <2>4. CASE L!TooMany
    <3>1. result' = "loop" /\ hops <= 0 /\ (IF L!CountsEntries THEN k > 0 ELSE k < length)
      BY <1>3, <1>4, <2>4 DEF L!TooMany, L!Spent
    <3>2. length > Hops
      BY <1>1, <1>2, <3>1 DEF Spending
    <3> QED
      BY <1>2, <2>1, <2>3, <3>1, <3>2 DEF LinkInv, L!SameEnd
  <2>5. CASE L!Answer
    <3>1. /\ k = length /\ (L!CountsEntries => k = 0 \/ ~(hops <= 0))
          /\ result' = CASE last = "missing" -> "missing"
                         [] op = "scandir" /\ last = "file" -> "notdir"
                         [] op = "open" /\ last = "dir" -> "isdir"
                         [] OTHER -> last
      <4>1. k = length /\ L!Entry(place) = last /\ ~L!Spent
        BY <1>4, <2>5 DEF L!Answer
      <4>2. L!CountsEntries => k = 0 \/ ~(hops <= 0)
        BY <1>2, <1>3, <4>1 DEF L!Spent
      <4> QED
        BY <2>5, <4>1, <4>2 DEF L!Answer
    <3>2. length <= Hops
      <4>1. k = length /\ (L!CountsEntries => k = 0 \/ ~(hops <= 0))
        BY <3>1
      <4>2. CASE L!CountsEntries /\ k > 0
        BY <1>1, <1>2, <4>1, <4>2 DEF Spending
      <4>3. CASE ~(L!CountsEntries /\ k > 0)
        BY <1>1, <1>2, <4>1, <4>3 DEF Spending
      <4> QED
        BY <4>2, <4>3
    <3>3. /\ result' = "missing" <=> last = "missing"
          /\ result' \in {"missing", "notdir", "isdir", "file", "dir"}
          /\ result' \in {"file", "dir"} => result' = last
      BY <1>2, <3>1
    <3>4. L!SameEnd'
      BY <1>2, <2>1, <3>2, <3>3 DEF L!SameEnd
    <3> QED
      BY <2>3, <3>4 DEF LinkInv
  <2> QED
    BY <1>7, <2>4, <2>5
<1>8. CASE UNCHANGED L!vars
  <2>1. /\ length' = length /\ last' = last /\ dirs' = dirs /\ backend' = backend /\ op' = op
        /\ place' = place /\ hops' = hops /\ result' = result
    BY <1>8 DEF L!vars, L!fixed
  <2>2. Along(k)' /\ Spending(k)'
    BY <1>1, <2>1 DEF Along, Spending, L!CountsEntries
  <2> QED
    BY <1>2, <2>1, <2>2 DEF LinkInv, Chained, L!SameEnd
<1> QED
  BY <1>6, <1>7, <1>8 DEF L!Next

-----------------------------------------------------------------------------
(* Whatever is sent is done, refused, lost or done late, and whatever else *)
(* changes the path: what is staged is at the path as a whole or not at    *)
(* all, success is reported of what was there, and no temporary or handle  *)
(* is left but by a failure that the caller was told of.                   *)
THEOREM WrittenIsWhole == Run => []WrittenWhole
<1>1. RunInit => FilesInv
  BY FilesStart DEF RunInit
<1>2. FilesInv /\ [RunNext]_all => FilesInv'
  <2> SUFFICES ASSUME FilesInv, [RunNext]_all PROVE FilesInv'
    OBVIOUS
  <2>1. [R!Next]_(R!vars)
    BY DEF RunNext, all, files, R!vars, R!world, R!history
  <2> QED
    BY <2>1, FilesStep
<1>3. FilesInv => WrittenWhole
  BY FilesTell DEF WrittenWhole
<1> QED
  BY <1>1, <1>2, <1>3, PTL DEF Run

(* A write that nobody overtook takes no directory's place, an exclusive   *)
(* one takes nobody's, and what it replaces keeps its owner.               *)
THEOREM OthersSpared == Run => Spares
<1>1. RunInit => FilesInv
  BY FilesStart DEF RunInit
<1>2. FilesInv /\ [RunNext]_all => FilesInv' /\ [R!SparesThem]_(R!vars)
  <2> SUFFICES ASSUME FilesInv, [RunNext]_all PROVE FilesInv' /\ R!SparesThem
    OBVIOUS
  <2>1. [R!Next]_(R!vars)
    BY DEF RunNext, all, files, R!vars, R!world, R!history
  <2> QED
    BY <2>1, FilesStep, FilesSpare
<1> QED
  BY <1>1, <1>2, PTL DEF Run, Spares, R!Spares

(* However long a chain and whatever its links say, every operation comes  *)
(* to its end, or to too many links, alike.                                *)
THEOREM EndIsSame == Run => []SameEnd
<1>1. RunInit => LinkInv
  BY LinksStart DEF RunInit
<1>2. LinkInv /\ [RunNext]_all => LinkInv'
  <2> SUFFICES ASSUME LinkInv, [RunNext]_all PROVE LinkInv'
    OBVIOUS
  <2>1. [L!Next]_(L!vars)
    BY DEF RunNext, all, links, L!vars, L!fixed
  <2> QED
    BY <2>1, LinksFollow
<1>3. LinkInv => SameEnd
  BY DEF LinkInv, SameEnd
<1> QED
  BY <1>1, <1>2, <1>3, PTL DEF Run
=============================================================================
