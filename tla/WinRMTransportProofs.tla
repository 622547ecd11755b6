------------------------ MODULE WinRMTransportProofs ------------------------
(***************************************************************************)
(* What WinRMTransport promises for any legs and scripts and any number of *)
(* calls: the status of a run is its own, what may go on at the server was *)
(* reported so, and every open pool is one that some `close` reaches.      *)
(***************************************************************************)
EXTENDS WinRMTransport, FiniteSetTheorems, TLAPS

(* What a thread's record may say.                                         *)
Operations == {"none", "connect", "runspace", "close", "run", "invoke"}
Places == {"idle", "session", "connect", "connect again", "opening", "opening again", "pipeline",
           "relay", "shell", "command", "send", "poll", "cleanup", "close", "close pool"}
Sources == {"ok", "native", "pure", "forges"}
Thread == [op: Operations, at: Places, call: 0 .. MaxCalls, sess: 0 .. MaxCalls,
           held: 0 .. MaxCalls, script: Sources, capture: BOOLEAN, limit: BOOLEAN, cmd: BOOLEAN,
           sends: Nat, so: {"none", "done", "failed", "orphaned"}]
States == {"none", "queued", "running", "over", "killed"}
Job == [st: States, pool: 0 .. MaxCalls, marks: SUBSET (Nat \X Int), script: Sources,
        capture: BOOLEAN]
Outcome == [how: {"none", "done", "failed", "orphaned"}, status: Int]

Typed ==
    /\ leg \in Legs /\ session \in 0 .. made /\ made \in 0 .. MaxCalls /\ calls \in 0 .. MaxCalls
    /\ pools \in 0 .. MaxCalls /\ pool \in [Calls -> 0 .. pools] /\ open \in [Calls -> BOOLEAN]
    /\ lifecycle \in [Calls -> Threads \cup {Nobody}]
    /\ poolsUp \subseteq 1 .. pools /\ shells \subseteq Calls
    /\ th \in [Threads -> Thread] /\ job \in [Calls -> Job] /\ outcome \in [Calls -> Outcome]
    /\ lastExit \in [Calls -> Nat]

(* A call builds at most one session, so there are as many calls to come   *)
(* as sessions that may still be built.                                    *)
Building(t) == IF At(t, "session") THEN 1 ELSE 0
Counted == made + Building(1) + Building(2) <= calls

(* A thread is busy with a call of its own, which has not ended.           *)
New(n) == job[n].st = "none" /\ outcome[n].how = "none" /\ n \notin shells
Calling ==
    /\ \A t \in Threads: Busy(t) => My(t) \in 1 .. calls /\ outcome[My(t)].how = "none"
    /\ \A t, u \in Threads: Busy(t) /\ Busy(u) /\ My(t) = My(u) => t = u
    /\ \A n \in Calls: n > calls => New(n)

(* Where a call is says which leg it runs over.                            *)
OverPSRP == {"connect", "connect again", "opening", "opening again", "pipeline", "close pool"}
OverPywinrm == {"shell", "command", "send", "cleanup"}
Placed ==
    \A t \in Threads:
        /\ th[t].at \in OverPSRP => leg = "psrp" /\ th[t].sess # 0
        /\ th[t].at \in OverPywinrm => leg = "pywinrm"
        /\ th[t].at = "relay" => leg = "native"

(* The line that a command which ended has printed: its own marker when    *)
(* its status is captured, or that of no call.                             *)
Said(n) == IF job[n].script = "forges" THEN {<<0, 0>>}
           ELSE IF job[n].capture THEN {<<n, OwnStatusOf(job[n].script)>>} ELSE {}
Ran ==
    \A n \in Calls:
        /\ job[n].st = "queued" => job[n].pool # 0
        /\ job[n].marks = IF job[n].st = "over" THEN Said(n) ELSE {}

(* The runspace of a pool runs one pipeline, which, when its status is     *)
(* captured, began by clearing the status that the one before left there.  *)
OneRuns ==
    \A n \in Calls: job[n].st = "running" /\ job[n].pool # 0 =>
        /\ job[n].capture => lastExit[job[n].pool] = 0
        /\ \A m \in Calls: job[m].st = "running" /\ job[m].pool = job[n].pool => m = n

(* A call has no command before it submits one, and cleans up after what   *)
(* it knows of it.                                                         *)
Submitted == {"poll", "cleanup"}
Sent ==
    \A t \in Threads:
        /\ Busy(t) /\ th[t].at \notin Submitted => job[My(t)].st = "none"
        /\ At(t, "cleanup") /\ th[t].so = "done" => Over(My(t))

(* A call that has its answer has no command at work.                      *)
Answers ==
    \A n \in Calls: outcome[n].how = "done" =>
        /\ job[n].st \notin {"queued", "running"}
        /\ job[n].st # "none" =>
               outcome[n].status = Due(job[n])

(* A shell is that of a call that has opened it and not ended.             *)
Excused(n, r) == <<"shell", n>> \in r \/ <<"opening", n>> \in r
InShell == {"command", "send", "poll", "cleanup"}
Shelled ==
    /\ shells # {} => leg = "pywinrm"
    /\ \A n \in shells: outcome[n].how = "none" \/ Excused(n, refused)
    /\ \A t \in Threads: Busy(t) /\ th[t].at \notin InShell => My(t) \notin shells

(* A thread that opens a session holds its lock, and a pool of it.         *)
Opening ==
    \A t \in Threads: th[t].at \in {"opening", "opening again"} =>
        lifecycle[th[t].sess] = t /\ pool[th[t].sess] # 0

(* The sessions that a thread knows are the leg's, or were closed under it.*)
Known == {session, 0} \cup strays
Owned ==
    /\ poolsUp # {} => leg = "psrp"
    /\ \A t \in Threads: th[t].held \in Known /\ (~At(t, "close pool") => th[t].sess \in Known)
    /\ PoolsOwned

WinRMInv == /\ Typed /\ Counted /\ Calling /\ Placed /\ Ran /\ OneRuns /\ Sent /\ Answers
            /\ Shelled /\ Opening /\ Owned

(* What a step does to its thread: it goes on with its call, or ends it.   *)
Others(t) == th' \in [Threads -> Thread] /\ \A u \in Threads: u # t => th'[u] = th[u]

Moves(t) ==
    /\ Others(t)
    /\ Busy(t) /\ th'[t].at \notin {"idle", "session"}
    /\ th'[t].call = My(t) /\ th'[t].held = th[t].held
    /\ outcome' = outcome

Stops(t, s, how, status) ==
    /\ Others(t)
    /\ Busy(t) /\ th'[t].at = "idle" /\ th'[t].sess = 0 /\ th'[t].held = s
    /\ outcome' \in [Calls -> Outcome] /\ \A n \in Calls: n # My(t) => outcome'[n] = outcome[n]
    /\ outcome'[My(t)].how = how /\ outcome'[My(t)].status = status

(* What it does to the commands at the server: it ends some that have not  *)
(* ended, or none.                                                         *)
Kills ==
    /\ job' \in [Calls -> Job]
    /\ \A n \in Calls:
        \/ job'[n] = job[n]
        \/ /\ job[n].st \in {"queued", "running"} /\ job'[n].st = "killed"
           /\ job'[n].pool = job[n].pool /\ job'[n].marks = job[n].marks
           /\ job'[n].script = job[n].script /\ job'[n].capture = job[n].capture

-----------------------------------------------------------------------------
LEMMA CallsAre == MaxCalls \in Nat /\ MaxSends \in Nat /\ Calls = 1 .. MaxCalls /\ Threads = {1, 2}
  BY WinRMAssumption DEF WinRMAssumption, Calls, Threads

LEMMA NoneIsNoCall == 0 \notin Calls
  BY CallsAre

LEMMA NoStatus == -1 \in Int
  OBVIOUS

LEMMA OwnStatusIs ==
  /\ OwnStatusOf("ok") = 0 /\ OwnStatusOf("native") = 2 /\ OwnStatusOf("pure") = 1
  /\ OwnStatusOf("forges") = 1
  BY DEF OwnStatusOf

LEMMA OwnStatusInt ==
  ASSUME NEW script \in Sources
  PROVE  OwnStatusOf(script) \in Int
  BY OwnStatusIs DEF Sources

LEMMA DueInt ==
  ASSUME NEW j \in Job
  PROVE  Due(j) \in Int
  BY OwnStatusInt DEF Due, Job

(* A busy thread's call is one of the calls. *)
LEMMA MyCall ==
  ASSUME Typed, Calling, NEW t \in Threads, Busy(t)
  PROVE  My(t) \in Calls /\ My(t) <= calls /\ outcome[My(t)].how = "none"
<1>1. My(t) \in 1 .. calls /\ outcome[My(t)].how = "none"
  BY DEF Calling
<1> QED
  BY <1>1, CallsAre DEF Typed

LEMMA PoolIs ==
  ASSUME Typed, NEW p \in poolsUp
  PROVE  p \in 0 .. MaxCalls /\ p # 0
<1>1. p \in 1 .. pools /\ pools \in 0 .. MaxCalls /\ MaxCalls \in Nat
  BY CallsAre DEF Typed
<1> QED
  BY <1>1

LEMMA GoesMoves ==
  ASSUME Typed, NEW t \in Threads, NEW pc \in Places \ {"idle", "session"}, Goes(t, pc), Busy(t),
         UNCHANGED outcome
  PROVE  /\ Moves(t) /\ th'[t].at = pc
         /\ th'[t].sess = th[t].sess /\ th'[t].so = th[t].so
<1>1. th \in [Threads -> Thread] /\ th' = [th EXCEPT ![t].at = pc]
  BY DEF Typed, Goes
<1>2. th' \in [Threads -> Thread]
  BY <1>1 DEF Thread
<1>3. /\ th'[t].at = pc /\ th'[t].call = th[t].call /\ th'[t].held = th[t].held
      /\ th'[t].sess = th[t].sess /\ th'[t].so = th[t].so
  BY <1>1 DEF Thread
<1>4. \A u \in Threads: u # t => th'[u] = th[u]
  BY <1>1
<1> QED
  BY <1>2, <1>3, <1>4 DEF Moves, Others, My

LEMMA CleansMoves ==
  ASSUME Typed, NEW t \in Threads, NEW so \in {"done", "failed", "orphaned"}, ToCleanup(t, so),
         Busy(t), UNCHANGED outcome
  PROVE  Moves(t) /\ th'[t].at = "cleanup" /\ th'[t].so = so
<1>1. th \in [Threads -> Thread] /\ th' = [th EXCEPT ![t].at = "cleanup", ![t].so = so]
  BY DEF Typed, ToCleanup
<1>2. th' \in [Threads -> Thread]
  <2>1. [th[t] EXCEPT !.at = "cleanup", !.so = so] \in Thread
    <3>1. th[t] \in Thread /\ "cleanup" \in Places
      BY <1>1 DEF Places
    <3> QED
      BY <3>1 DEF Thread
  <2>2. th' = [th EXCEPT ![t] = [th[t] EXCEPT !.at = "cleanup", !.so = so]]
    BY <1>1
  <2> QED
    BY <1>1, <2>1, <2>2
<1>3. /\ th'[t].at = "cleanup" /\ th'[t].call = th[t].call /\ th'[t].held = th[t].held
      /\ th'[t].so = so
  BY <1>1 DEF Thread
<1>4. \A u \in Threads: u # t => th'[u] = th[u]
  BY <1>1
<1> QED
  BY <1>2, <1>3, <1>4 DEF Moves, Others, My

LEMMA EndsStops ==
  ASSUME Typed, Calling, NEW t \in Threads, Busy(t), NEW s \in 0 .. MaxCalls,
         NEW how \in {"done", "failed", "orphaned"}, NEW status \in Int,
         EndsHolding(t, s, how, status)
  PROVE  Stops(t, s, how, status)
<1>1. /\ th \in [Threads -> Thread] /\ outcome \in [Calls -> Outcome]
      /\ th' = [th EXCEPT ![t] = [Idle EXCEPT !.held = s]]
      /\ outcome' = [outcome EXCEPT ![My(t)] = [how |-> how, status |-> status]]
  BY DEF Typed, EndsHolding
<1>2. My(t) \in Calls
  BY MyCall
<1>3. th'[t] = [Idle EXCEPT !.held = s] /\ \A u \in Threads: u # t => th'[u] = th[u]
  BY <1>1
<1>4. [Idle EXCEPT !.held = s] \in Thread
  <2>1. 0 \in 0 .. MaxCalls /\ 0 \in Nat
    BY CallsAre
  <2>2. "none" \in Operations /\ "idle" \in Places /\ "ok" \in Sources
    BY DEF Operations, Places, Sources
  <2>3. Idle \in Thread
    BY <2>1, <2>2 DEF Idle, Thread
  <2> QED
    BY <2>3 DEF Thread
<1>5. th' \in [Threads -> Thread]
  BY <1>1, <1>4
<1>6. th'[t].at = "idle" /\ th'[t].sess = 0 /\ th'[t].held = s
  BY <1>3 DEF Idle
<1>7. /\ outcome' \in [Calls -> Outcome] /\ \A n \in Calls: n # My(t) => outcome'[n] = outcome[n]
      /\ outcome'[My(t)].how = how /\ outcome'[My(t)].status = status
  BY <1>1, <1>2 DEF Outcome
<1> QED
  BY <1>3, <1>5, <1>6, <1>7 DEF Stops, Others

(* A call that ends keeps the session it held. *)
LEMMA EndStops ==
  ASSUME Typed, Calling, NEW t \in Threads, Busy(t), NEW how \in {"done", "failed", "orphaned"},
         NEW status \in Int, Ends(t, how, status)
  PROVE  Stops(t, th[t].held, how, status)
<1>1. th[t].held \in 0 .. MaxCalls
  BY DEF Typed, Thread
<1> QED
  BY <1>1, EndsStops DEF Ends

LEMMA FailStops ==
  ASSUME Typed, Calling, NEW t \in Threads, Busy(t), Fails(t)
  PROVE  Stops(t, th[t].held, "failed", -1)
  BY EndStops DEF Fails

LEMMA NoneKilled ==
  ASSUME Typed, UNCHANGED job
  PROVE  Kills
  BY DEF Typed, Kills

(* The status a call finds in what its command printed is that command's. *)
LEMMA StatusIs ==
  ASSUME Typed, Ran, NEW n \in Calls, Over(n)
  PROVE  Status(n) = Due(job[n])
<1>1. n # 0 /\ job[n].script \in Sources
  BY CallsAre DEF Typed, Job
<1>2. CASE job[n].st = "killed"
  <2>1. job[n].marks = {}
    BY <1>2 DEF Ran
  <2> QED
    BY <1>2, <2>1 DEF Status, Due
<1>3. CASE job[n].st = "over" /\ job[n].script = "forges"
  <2>1. job[n].marks = {<<0, 0>>}
    BY <1>3 DEF Ran, Said
  <2>2. ~\E m \in job[n].marks: m[1] = n
    BY <2>1, <1>1
  <2> QED
    BY <1>3, <2>2, OwnStatusIs DEF Status, Marker, Due, Completes
<1>5. CASE job[n].st = "over" /\ ~job[n].capture
  BY <1>5 DEF Status, Due
<1>4. CASE job[n].st = "over" /\ job[n].script # "forges" /\ job[n].capture
  <2> DEFINE x == OwnStatusOf(job[n].script)
  <2>1. job[n].marks = {<<n, x>>}
    BY <1>4 DEF Ran, Said
  <2> HIDE DEF x
  <2> DEFINE c == CHOOSE m \in job[n].marks: m[1] = n
  <2>2. c = <<n, x>>
    BY <2>1
  <2>3. \E m \in job[n].marks: m[1] = n
    BY <2>1
  <2>4. Status(n) = c[2]
    BY <1>4, <2>3 DEF Status, Marker
  <2> HIDE DEF c
  <2>5. Status(n) = x
    BY <2>2, <2>4
  <2> QED
    BY <1>4, <2>5 DEF x, Due
<1> QED
  BY <1>2, <1>3, <1>4, <1>5 DEF Over

(* A step of a thread that begins no call keeps the calls apart. *)
LEMMA CallingKept ==
  ASSUME Typed, Calling, NEW t \in Threads,
         NEW how \in {"done", "failed", "orphaned"}, NEW status, NEW s,
         Moves(t) \/ Stops(t, s, how, status), UNCHANGED calls,
         \A n \in Calls: n # My(t) => (job[n].st = "none" => job'[n].st = "none")
                                      /\ (n \in shells' => n \in shells)
  PROVE  Calling'
<1>1. /\ Busy(t) /\ Others(t)
      /\ th'[t].at # "idle" => th'[t].call = My(t) /\ outcome' = outcome
      /\ \A n \in Calls: n # My(t) => outcome'[n] = outcome[n]
  BY DEF Moves, Stops
<1>2. \A u \in Threads: Busy(u)' => Busy(u) /\ My(u)' = My(u)
  BY <1>1 DEF Others, Busy, At, My
<1>3. My(t) \in 1 .. calls
  BY <1>1 DEF Calling
<1>4. ASSUME NEW u \in Threads, Busy(u)'
      PROVE  My(u)' \in 1 .. calls' /\ outcome'[My(u)'].how = "none"
  <2>1. My(u) \in Calls /\ My(u) \in 1 .. calls /\ outcome[My(u)].how = "none"
    BY <1>2, <1>4, MyCall DEF Calling
  <2>2. CASE u = t
    BY <1>1, <1>2, <1>4, <2>1, <2>2 DEF Busy, At
  <2>3. CASE u # t
    <3>1. My(u) # My(t)
      BY <1>1, <1>2, <1>4, <2>3 DEF Calling
    <3> QED
      BY <1>1, <1>2, <1>4, <2>1, <3>1
  <2> QED
    BY <2>2, <2>3
<1>5. ASSUME NEW u \in Threads, NEW v \in Threads, Busy(u)', Busy(v)', My(u)' = My(v)' PROVE u = v
  BY <1>2, <1>5 DEF Calling
<1>6. ASSUME NEW n \in Calls, n > calls' PROVE New(n)'
  <2>1. n > calls /\ n \in Int /\ calls \in Int
    BY <1>6, CallsAre DEF Typed
  <2>2. n # My(t)
    BY <1>3, <2>1
  <2>3. New(n)
    BY <2>1 DEF Calling
  <2> QED
    BY <1>1, <2>2, <2>3 DEF New
<1> QED
  BY <1>4, <1>5, <1>6 DEF Calling

LEMMA CountedKept ==
  ASSUME Typed, Counted, NEW t \in Threads, Others(t), th'[t].at # "session", UNCHANGED calls,
         made' = made \/ (At(t, "session") /\ made' = made + 1)
  PROVE  Counted'
<1>1. \A u \in Threads: u # t => Building(u)' = Building(u)
  BY DEF Others, Building, At
<1>2. Building(t)' = 0 /\ \A u \in Threads: Building(u) \in {0, 1}
  BY DEF Building, At
<1>3. At(t, "session") => Building(t) = 1
  BY DEF Building
<1>4. made \in Int /\ calls \in Int
  BY CallsAre DEF Typed
<1>5. CASE t = 1
  BY <1>1, <1>2, <1>3, <1>4, <1>5, CallsAre DEF Counted
<1>6. CASE t = 2
  BY <1>1, <1>2, <1>3, <1>4, <1>6, CallsAre DEF Counted
<1> QED
  BY <1>5, <1>6, CallsAre

LEMMA PlacedKept ==
  ASSUME Typed, Placed, NEW t \in Threads, Others(t), UNCHANGED leg,
         th'[t].at \in OverPSRP => leg = "psrp" /\ th'[t].sess # 0,
         th'[t].at \in OverPywinrm => leg = "pywinrm",
         th'[t].at = "relay" => leg = "native"
  PROVE  Placed'
  BY DEF Placed, Others

(* Ending commands leaves what the others print. *)
LEMMA KillsKeep ==
  ASSUME Typed, Ran, OneRuns, Kills, UNCHANGED lastExit
  PROVE  Ran' /\ OneRuns'
<1>1. \A n \in Calls: /\ job'[n].pool = job[n].pool /\ job'[n].marks = job[n].marks
                      /\ job'[n].script = job[n].script /\ job'[n].capture = job[n].capture
                      /\ job'[n].st = job[n].st \/ (job'[n].st = "killed" /\ job[n].st # "over")
  BY DEF Kills
<1>2. Ran'
  <2> SUFFICES ASSUME NEW n \in Calls
               PROVE  /\ job'[n].st = "queued" => job'[n].pool # 0
                      /\ job'[n].marks = IF job'[n].st = "over" THEN Said(n)' ELSE {}
    BY DEF Ran
  <2>1. Said(n)' = Said(n)
    BY <1>1 DEF Said
  <2> QED
    BY <1>1, <2>1 DEF Ran
<1>3. OneRuns'
  BY <1>1 DEF OneRuns
<1> QED
  BY <1>2, <1>3

LEMMA SubmitKeeps ==
  ASSUME Typed, Ran, OneRuns, NEW t \in Threads, My(t) \in Calls, NEW p \in 0 .. MaxCalls,
         Submit(t, p), UNCHANGED lastExit
  PROVE  /\ job' \in [Calls -> Job] /\ Ran' /\ OneRuns'
         /\ job'[My(t)].st \in {"queued", "running"}
         /\ \A n \in Calls: n # My(t) => job'[n] = job[n]
<1> DEFINE k == My(t)
           j == [NoJob EXCEPT !.st = IF p = 0 THEN "running" ELSE "queued", !.pool = p,
                              !.script = th[t].script, !.capture = th[t].capture]
<1>1. k \in Calls /\ job' = [job EXCEPT ![k] = j] /\ job \in [Calls -> Job]
  BY DEF Submit, Typed
<1>2. th[t].script \in Sources /\ th[t].capture \in BOOLEAN
  BY DEF Typed, Thread
<1>3. j \in Job /\ j.st = (IF p = 0 THEN "running" ELSE "queued") /\ j.pool = p /\ j.marks = {}
  BY <1>2 DEF NoJob, Job, States
<1> HIDE DEF k, j
<1>4. /\ job' \in [Calls -> Job] /\ job'[k] = j /\ \A n \in Calls: n # k => job'[n] = job[n]
  BY <1>1, <1>3
<1>5. Ran'
  <2> SUFFICES ASSUME NEW n \in Calls
               PROVE  /\ job'[n].st = "queued" => job'[n].pool # 0
                      /\ job'[n].marks = IF job'[n].st = "over" THEN Said(n)' ELSE {}
    BY DEF Ran
  <2>1. CASE n = k
    BY <1>3, <1>4, <2>1
  <2>2. CASE n # k
    BY <1>4, <2>2 DEF Ran, Said
  <2> QED
    BY <2>1, <2>2
<1>6. OneRuns'
  <2>1. \A n \in Calls: job'[n].st = "running" /\ job'[n].pool # 0 => n # k /\ job'[n] = job[n]
    BY <1>3, <1>4
  <2> QED
    BY <2>1 DEF OneRuns
<1> QED
  BY <1>3, <1>4, <1>5, <1>6 DEF k

(* What a call knows of its command stays so while others go on. *)
LEMMA SentKept ==
  ASSUME Typed, Calling, Sent, NEW t \in Threads,
         NEW how, NEW status, NEW s, Moves(t) \/ Stops(t, s, how, status),
         Kills \/ \A n \in Calls: n # My(t) => job'[n] = job[n],
         th'[t].at \notin Submitted \cup {"idle"} => job'[My(t)].st = "none",
         th'[t].at = "cleanup" /\ th'[t].so = "done" => job'[My(t)].st \in {"over", "killed"}
  PROVE  Sent'
<1>1. /\ Busy(t) /\ Others(t)
      /\ th'[t].at # "idle" => th'[t].call = My(t)
  BY DEF Moves, Stops
<1>2. ASSUME NEW u \in Threads, Busy(u)'
      PROVE  /\ th'[u].at \notin Submitted => job'[My(u)'].st = "none"
             /\ At(u, "cleanup")' /\ th'[u].so = "done" => Over(My(u))'
  <2>1. CASE u = t
    BY <1>1, <1>2, <2>1 DEF Busy, At, My, Over
  <2>2. CASE u # t
    <3>1. th'[u] = th[u] /\ Busy(u) /\ My(u) # My(t) /\ My(u) \in Calls
      BY <1>1, <1>2, <2>2, MyCall DEF Others, Busy, At, Calling
    <3>2. /\ job[My(u)].st = "none" => job'[My(u)].st = "none"
          /\ job[My(u)].st \in {"over", "killed"} => job'[My(u)].st \in {"over", "killed"}
      BY <3>1 DEF Kills
    <3>3. My(u)' = My(u) /\ (At(u, "cleanup")' => At(u, "cleanup"))
      BY <3>1 DEF My, At
    <3> QED
      BY <3>1, <3>2, <3>3 DEF Sent, Over
  <2> QED
    BY <2>1, <2>2
<1> QED
  BY <1>2 DEF Sent, Busy, At

LEMMA AnswersKept ==
  ASSUME Typed, Calling, Answers, NEW t \in Threads,
         NEW how, NEW status, NEW s, Moves(t) \/ Stops(t, s, how, status),
         Kills \/ \A n \in Calls: n # My(t) => job'[n] = job[n],
         th'[t].at = "idle" /\ how = "done" =>
             /\ job'[My(t)].st \notin {"queued", "running"}
             /\ job'[My(t)].st # "none" => status = Due(job'[My(t)])
  PROVE  Answers'
<1>1. Busy(t) /\ My(t) \in Calls /\ outcome[My(t)].how = "none"
  BY MyCall DEF Moves, Stops
<1>2. ASSUME NEW n \in Calls, outcome'[n].how = "done"
      PROVE  /\ job'[n].st \notin {"queued", "running"}
             /\ job'[n].st # "none" =>
                    outcome'[n].status = Due(job'[n])
  <2>1. CASE n = My(t)
    <3>1. ~Moves(t)
      BY <1>1, <1>2, <2>1 DEF Moves
    <3>2. /\ th'[t].at = "idle" /\ outcome'[n].how = how /\ outcome'[n].status = status
      BY <2>1, <3>1 DEF Stops
    <3> QED
      BY <1>2, <2>1, <3>2
  <2>2. CASE n # My(t)
    <3>1. outcome'[n] = outcome[n]
      BY <2>2 DEF Moves, Stops
    <3>2. job[n].st \notin {"queued", "running"}
      BY <1>2, <3>1 DEF Answers
    <3>3. job'[n] = job[n]
      BY <2>2, <3>2 DEF Kills
    <3> QED
      BY <1>2, <3>1, <3>3 DEF Answers
  <2> QED
    BY <2>1, <2>2
<1> QED
  BY <1>2 DEF Answers

(* A shell goes on being that of a call at work on it. *)
LEMMA ShelledKept ==
  ASSUME Typed, Calling, Shelled, NEW t \in Threads,
         NEW how, NEW status, NEW s, Moves(t) \/ Stops(t, s, how, status), UNCHANGED leg,
         refused \subseteq refused',
         \A n \in Calls: n # My(t) => (n \in shells' <=> n \in shells),
         My(t) \in shells' => \/ th'[t].at \in InShell /\ leg = "pywinrm"
                              \/ Excused(My(t), refused') /\ th'[t].at = "idle" /\ leg = "pywinrm",
         shells' \subseteq Calls
  PROVE  Shelled'
<1>1. /\ Busy(t) /\ My(t) \in Calls /\ Others(t) /\ outcome[My(t)].how = "none"
      /\ th'[t].at # "idle" => th'[t].call = My(t) /\ outcome' = outcome
      /\ \A n \in Calls: n # My(t) => outcome'[n] = outcome[n]
  BY MyCall DEF Moves, Stops
<1>2. shells' # {} => leg' = "pywinrm"
  BY DEF Shelled
<1>3. ASSUME NEW n \in shells' PROVE outcome'[n].how = "none" \/ Excused(n, refused')
  <2>1. CASE n = My(t)
    BY <1>1, <1>3, <2>1 DEF InShell
  <2>2. CASE n # My(t)
    BY <1>1, <1>3, <2>2 DEF Shelled, Excused
  <2> QED
    BY <2>1, <2>2
<1>4. ASSUME NEW u \in Threads, Busy(u)', th'[u].at \notin InShell PROVE My(u)' \notin shells'
  <2>1. CASE u = t
    BY <1>1, <1>4, <2>1 DEF Busy, At, My, InShell
  <2>2. CASE u # t
    <3>1. th'[u] = th[u] /\ Busy(u) /\ My(u) # My(t) /\ My(u) \in Calls
      BY <1>1, <1>4, <2>2, MyCall DEF Others, Busy, At, Calling
    <3>2. My(u)' = My(u) /\ My(u) \notin shells
      BY <1>4, <3>1 DEF My, Shelled
    <3> QED
      BY <3>1, <3>2
  <2> QED
    BY <2>1, <2>2
<1> QED
  BY <1>2, <1>3, <1>4 DEF Shelled

LEMMA OpeningKept ==
  ASSUME Typed, Opening, NEW t \in Threads, Others(t),
         \A u \in Threads: u # t /\ th[u].at \in {"opening", "opening again"}
             => /\ lifecycle'[th[u].sess] = lifecycle[th[u].sess]
                /\ pool'[th[u].sess] = pool[th[u].sess],
         th'[t].at \in {"opening", "opening again"} =>
             lifecycle'[th'[t].sess] = t /\ pool'[th'[t].sess] # 0
  PROVE  Opening'
<1> SUFFICES ASSUME NEW u \in Threads, th'[u].at \in {"opening", "opening again"}
             PROVE  lifecycle'[th'[u].sess] = u /\ pool'[th'[u].sess] # 0
  BY DEF Opening
<1>1. CASE u = t
  BY <1>1
<1>2. CASE u # t
  <2>1. th'[u] = th[u]
    BY <1>2 DEF Others
  <2>2. lifecycle[th[u].sess] = u /\ pool[th[u].sess] # 0
    BY <2>1 DEF Opening
  <2> QED
    BY <1>2, <2>1, <2>2
<1> QED
  BY <1>1, <1>2

(* The open pools keep their owners when the sessions and the strays do. *)
LEMMA OwnedKept ==
  ASSUME Typed, Owned, NEW t \in Threads, Others(t), UNCHANGED leg,
         \A s \in Known: s \in Known',
         th'[t].held \in Known', th'[t].at # "close pool" => th'[t].sess \in Known',
         refused \subseteq refused',
         poolsUp' # {} => leg = "psrp",
         \A p \in poolsUp': \/ p \in poolsUp \/ <<"pool", p>> \in refused'
                            \/ \E s \in Calls: pool'[s] = p /\ s \in Known',
         \A p \in poolsUp: \A s \in Calls: pool[s] = p /\ p \in poolsUp' =>
             \/ pool'[s] = p /\ (At(t, "close pool") => th[t].sess # s)
             \/ <<"pool", p>> \in refused'
  PROVE  Owned'
<1>1. ASSUME NEW p \in poolsUp'
      PROVE  \/ <<"pool", p>> \in refused'
             \/ \E s \in Calls: /\ pool'[s] = p
                                /\ \/ s = session' \/ s \in strays'
                                   \/ \E u \in Threads: At(u, "close pool")' /\ th'[u].sess = s
  <2>1. CASE p \in poolsUp /\ <<"pool", p>> \notin refused'
    <3>1. PICK s \in Calls: /\ pool[s] = p
                            /\ \/ s = session \/ s \in strays
                               \/ \E u \in Threads: At(u, "close pool") /\ th[u].sess = s
      BY <2>1 DEF Owned, PoolsOwned
    <3>2. pool'[s] = p /\ (At(t, "close pool") => th[t].sess # s)
      BY <1>1, <2>1, <3>1
    <3>3. CASE s = session \/ s \in strays
      <4>1. s \in Known
        BY <3>3 DEF Known
      <4>2. s \in Known' /\ s # 0
        BY <4>1, NoneIsNoCall
      <4> QED
        BY <3>2, <4>2 DEF Known
    <3>4. ASSUME NEW u \in Threads, At(u, "close pool"), th[u].sess = s
          PROVE  At(u, "close pool")' /\ th'[u].sess = s
      BY <3>2, <3>4 DEF Others, At
    <3> QED
      BY <3>1, <3>2, <3>3, <3>4
  <2>2. CASE \E s \in Calls: pool'[s] = p /\ s \in Known'
    <3>1. PICK s \in Calls: pool'[s] = p /\ s \in Known'
      BY <2>2
    <3>2. s # 0
      BY NoneIsNoCall
    <3> QED
      BY <3>1, <3>2 DEF Known
  <2> QED
    BY <1>1, <2>1, <2>2
<1>2. \A u \in Threads: th'[u].held \in Known' /\ (~At(u, "close pool")' => th'[u].sess \in Known')
  BY DEF Owned, Others, At
<1> QED
  BY <1>1, <1>2 DEF Owned, PoolsOwned

(* A step of a run at the server leaves the sessions and pools alone. *)
LEMMA CommandStep ==
  ASSUME WinRMInv, NEW t \in Threads,
         NEW how \in {"done", "failed", "orphaned"}, NEW status, NEW s,
         Moves(t) \/ Stops(t, s, how, status),
         UNCHANGED <<client, pools, poolsUp, lastExit, strays>>, refused \subseteq refused',
         ~At(t, "close pool"), ~At(t, "close"),
         th'[t].at \in {"idle", "poll", "cleanup", "command", "send"},
         th'[t].held = th[t].held, th'[t].sess \in {th[t].sess, 0},
         th'[t].at \in OverPywinrm => leg = "pywinrm",
         Kills \/ \E p \in 0 .. MaxCalls: Submit(t, p),
         th'[t].at \notin Submitted \cup {"idle"} => job'[My(t)].st = "none",
         th'[t].at = "cleanup" /\ th'[t].so = "done" => job'[My(t)].st \in {"over", "killed"},
         th'[t].at = "idle" /\ how = "done" =>
             /\ job'[My(t)].st \notin {"queued", "running"}
             /\ job'[My(t)].st # "none" => status = Due(job'[My(t)]),
         \A n \in Calls: n # My(t) => (n \in shells' <=> n \in shells),
         My(t) \in shells' => \/ th'[t].at \in InShell /\ leg = "pywinrm"
                              \/ Excused(My(t), refused') /\ th'[t].at = "idle" /\ leg = "pywinrm",
         shells' \subseteq Calls
  PROVE  WinRMInv'
<1>1. /\ Typed /\ Counted /\ Calling /\ Placed /\ Ran /\ OneRuns /\ Sent /\ Answers
      /\ Shelled /\ Opening /\ Owned
  BY DEF WinRMInv
<1>2. /\ UNCHANGED <<leg, session, made, pool, open, lifecycle, calls>>
      /\ UNCHANGED <<pools, poolsUp, strays>> /\ UNCHANGED lastExit
  BY DEF client
<1>3. Others(t) /\ Busy(t) /\ My(t) \in Calls
  BY <1>1, MyCall DEF Moves, Stops
<1>4. job' \in [Calls -> Job] /\ Ran' /\ OneRuns'
  <2>1. CASE Kills
    BY <1>1, <1>2, <2>1, KillsKeep DEF Kills
  <2>2. CASE \E p \in 0 .. MaxCalls: Submit(t, p)
    BY <1>1, <1>2, <1>3, <2>2, SubmitKeeps
  <2> QED
    BY <2>1, <2>2
<1>5. Kills \/ \A n \in Calls: n # My(t) => job'[n] = job[n]
  BY <1>1, <1>2, <1>3, SubmitKeeps
<1>6. \A n \in Calls: n # My(t) => (job[n].st = "none" => job'[n].st = "none")
  BY <1>5 DEF Kills
<1>7. Typed'
  <2>1. outcome' \in [Calls -> Outcome] /\ th' \in [Threads -> Thread]
    BY <1>1, <1>3 DEF Moves, Stops, Others, Typed
  <2> QED
    BY <1>1, <1>2, <1>4, <2>1 DEF Typed
<1>8. Counted'
  BY <1>1, <1>2, <1>3, CountedKept
<1>9. Calling'
  BY <1>1, <1>2, <1>6, CallingKept
<1>10. Placed'
  BY <1>1, <1>2, <1>3, PlacedKept DEF OverPSRP
<1>11. Sent'
  BY <1>1, <1>5, SentKept
<1>12. Answers'
  BY <1>1, <1>5, AnswersKept
<1>13. Shelled'
  BY <1>1, <1>2, ShelledKept
<1>14. Opening'
  BY <1>1, <1>2, <1>3, OpeningKept
<1>15. Owned'
  <2>1. Known' = Known
    BY <1>2 DEF Known
  <2>2. th[t].held \in Known /\ th[t].sess \in Known /\ 0 \in Known
    BY <1>1 DEF Owned, Known
  <2>3. th'[t].held \in Known' /\ th'[t].sess \in Known'
    BY <2>1, <2>2
  <2>4. poolsUp' # {} => leg = "psrp"
    BY <1>1, <1>2 DEF Owned
  <2> QED
    BY <1>1, <1>2, <1>3, <2>1, <2>3, <2>4, OwnedKept
<1> QED
  BY <1>4, <1>7, <1>8, <1>9, <1>10, <1>11, <1>12, <1>13, <1>14, <1>15 DEF WinRMInv

(* A step before a run has anything at the server, or of a close, which    *)
(* ends the commands of others.                                            *)
LEMMA SessionStep ==
  ASSUME WinRMInv, NEW t \in Threads,
         NEW how \in {"done", "failed", "orphaned"}, NEW status, NEW s,
         Moves(t) \/ Stops(t, s, how, status),
         Kills, UNCHANGED <<leg, calls, shells, lastExit>>, refused \subseteq refused',
         th[t].at \notin Submitted \cup InShell,
         th'[t].at \notin Submitted
  PROVE  /\ job' \in [Calls -> Job] /\ outcome' \in [Calls -> Outcome] /\ Others(t)
         /\ Calling' /\ Ran' /\ OneRuns' /\ Sent' /\ Answers' /\ Shelled'
<1>1. /\ Typed /\ Counted /\ Calling /\ Placed /\ Ran /\ OneRuns /\ Sent /\ Answers
      /\ Shelled /\ Opening /\ Owned
  BY DEF WinRMInv
<1>2. Others(t) /\ Busy(t) /\ My(t) \in Calls
  BY <1>1, MyCall DEF Moves, Stops
<1>3. job[My(t)].st = "none" /\ My(t) \notin shells
  BY <1>1, <1>2 DEF Sent, Shelled
<1>4. job'[My(t)].st = "none"
  BY <1>2, <1>3 DEF Kills
<1>5. \A n \in Calls: job[n].st = "none" => job'[n].st = "none"
  BY DEF Kills
<1>6. Ran' /\ OneRuns'
  BY <1>1, KillsKeep
<1>7. Calling'
  BY <1>1, <1>5, CallingKept
<1>8. Sent'
  BY <1>1, <1>4, SentKept DEF Submitted
<1>9. Answers'
  BY <1>1, <1>4, AnswersKept
<1>10. Shelled'
  <2>1. shells \subseteq Calls
    BY <1>1 DEF Typed
  <2> QED
    BY <1>1, <1>3, <2>1, ShelledKept
<1>11. job' \in [Calls -> Job] /\ outcome' \in [Calls -> Outcome]
  BY <1>1 DEF Kills, Moves, Stops, Typed
<1> QED
  BY <1>2, <1>6, <1>7, <1>8, <1>9, <1>10, <1>11

-----------------------------------------------------------------------------
(* The steps of a run, each of which goes on or ends it. *)
LEMMA BuildFailsStep ==
  ASSUME WinRMInv, NEW t \in Threads, BuildFails(t)
  PROVE  WinRMInv'
<1>1. Typed /\ Calling /\ Shelled /\ Busy(t) /\ My(t) \in Calls /\ My(t) \notin shells
  BY MyCall DEF WinRMInv, BuildFails, At, Busy, Shelled, InShell
<1>2. Stops(t, th[t].held, "failed", -1) /\ Kills
  BY <1>1, FailStops, NoneKilled DEF BuildFails, server
<1>3. /\ UNCHANGED <<client, pools, poolsUp, lastExit, strays, shells, refused>>
      /\ At(t, "session")
      /\ th'[t].at = "idle" /\ th'[t].held = th[t].held /\ th'[t].sess = 0
      /\ shells \subseteq Calls
  BY <1>1, <1>2 DEF BuildFails, Stops, server, Typed
<1>4. ~At(t, "close pool") /\ ~At(t, "close")
  BY <1>3 DEF At
<1> QED
  BY <1>1, <1>2, <1>3, <1>4, CommandStep DEF OverPywinrm

LEMMA PipelineStep ==
  ASSUME WinRMInv, NEW t \in Threads, Pipeline(t)
  PROVE  WinRMInv'
<1>1. /\ Typed /\ Calling /\ Shelled /\ Busy(t) /\ My(t) \in Calls /\ My(t) \notin shells
      /\ shells \subseteq Calls
  BY MyCall DEF WinRMInv, Pipeline, At, Busy, Shelled, InShell, Typed
<1>2. /\ UNCHANGED <<client, pools, poolsUp, lastExit, strays, shells, refused>>
      /\ ~At(t, "close pool") /\ ~At(t, "close") /\ Ran /\ OneRuns
  BY DEF Pipeline, At, WinRMInv
<1>3. CASE Now(t) \in poolsUp /\ Submit(t, Now(t)) /\ Goes(t, "poll") /\ UNCHANGED outcome
  <2>1. Moves(t) /\ th'[t].at = "poll" /\ th'[t].sess = th[t].sess /\ th'[t].held = th[t].held
    BY <1>1, <1>3, GoesMoves DEF Places, Moves
  <2>2. Now(t) \in 0 .. MaxCalls
    BY <1>1, <1>3, PoolIs
  <2> QED
    BY <1>1, <1>2, <1>3, <2>1, <2>2, CommandStep DEF OverPywinrm, Submitted
<1>4. CASE Now(t) \in poolsUp /\ Submit(t, Now(t)) /\ Fails(t)
  <2>1. Stops(t, th[t].held, "failed", -1)
    BY <1>1, <1>4, FailStops
  <2>2. Now(t) \in 0 .. MaxCalls
    BY <1>1, <1>4, PoolIs
  <2>3. th'[t].at = "idle" /\ th'[t].held = th[t].held /\ th'[t].sess = 0
    BY <2>1 DEF Stops
  <2> QED
    BY <1>1, <1>2, <1>4, <2>1, <2>2, <2>3, CommandStep DEF OverPywinrm
<1>5. CASE Fails(t) /\ UNCHANGED job
  <2>1. Stops(t, th[t].held, "failed", -1) /\ Kills
    BY <1>1, <1>5, FailStops, NoneKilled
  <2>2. th'[t].at = "idle" /\ th'[t].held = th[t].held /\ th'[t].sess = 0
    BY <2>1 DEF Stops
  <2> QED
    BY <1>1, <1>2, <2>1, <2>2, CommandStep DEF OverPywinrm
<1> QED
  BY <1>3, <1>4, <1>5 DEF Pipeline

LEMMA RelayStep ==
  ASSUME WinRMInv, NEW t \in Threads, Relay(t)
  PROVE  WinRMInv'
<1>1. /\ Typed /\ Calling /\ Shelled /\ Busy(t) /\ My(t) \in Calls /\ My(t) \notin shells
      /\ shells \subseteq Calls
  BY MyCall DEF WinRMInv, Relay, At, Busy, Shelled, InShell, Typed
<1>2. /\ UNCHANGED <<client, pools, poolsUp, lastExit, strays, shells, refused>>
      /\ ~At(t, "close pool") /\ ~At(t, "close") /\ UNCHANGED outcome
      /\ Submit(t, 0) /\ Goes(t, "poll") /\ 0 \in 0 .. MaxCalls
  BY CallsAre DEF Relay, At, history
<1>3. Moves(t) /\ th'[t].at = "poll" /\ th'[t].sess = th[t].sess /\ th'[t].held = th[t].held
  BY <1>1, <1>2, GoesMoves DEF Places, Moves
<1> QED
  BY <1>1, <1>2, <1>3, CommandStep DEF OverPywinrm, Submitted

(* The shell of a run is at work once the server has given it. *)
LEMMA ShellStep ==
  ASSUME WinRMInv, NEW t \in Threads, Shell(t)
  PROVE  WinRMInv'
<1>1. /\ Typed /\ Calling /\ Shelled /\ Busy(t) /\ My(t) \in Calls /\ My(t) \notin shells
      /\ shells \subseteq Calls
  BY MyCall DEF WinRMInv, Shell, At, Busy, Shelled, InShell, Typed
<1>2. /\ UNCHANGED <<client, pools, poolsUp, lastExit, strays>>
      /\ At(t, "shell") /\ ~At(t, "close pool") /\ ~At(t, "close") /\ UNCHANGED job
  BY DEF Shell, At
<1>3. leg = "pywinrm" /\ job[My(t)].st = "none" /\ Kills
  BY <1>1, <1>2, NoneKilled DEF WinRMInv, Placed, OverPywinrm, Sent, Submitted, At
<1>4. CASE /\ shells' = shells \cup {My(t)} /\ Goes(t, "command")
           /\ UNCHANGED <<outcome, refused>>
  <2>1. Moves(t) /\ th'[t].at = "command" /\ th'[t].sess = th[t].sess /\ th'[t].held = th[t].held
    BY <1>1, <1>4, GoesMoves DEF Places, Moves
  <2> QED
    BY <1>1, <1>2, <1>3, <1>4, <2>1, CommandStep DEF InShell
<1>5. CASE \/ /\ shells' = shells \cup {My(t)} /\ Fails(t)
              /\ refused' = refused \cup {<<"opening", My(t)>>}
           \/ Fails(t) /\ UNCHANGED <<shells, refused>>
  <2>1. Stops(t, th[t].held, "failed", -1)
    BY <1>1, <1>5, FailStops
  <2>2. th'[t].at = "idle" /\ th'[t].held = th[t].held /\ th'[t].sess = 0
    BY <2>1 DEF Stops
  <2>3. /\ shells' \subseteq Calls /\ refused \subseteq refused'
        /\ \A n \in Calls: n # My(t) => (n \in shells' <=> n \in shells)
        /\ My(t) \in shells' => Excused(My(t), refused')
    BY <1>1, <1>5 DEF Excused
  <2> QED
    BY <1>1, <1>2, <1>3, <2>1, <2>2, <2>3, CommandStep DEF OverPywinrm
<1> QED
  BY <1>4, <1>5 DEF Shell

(* A run that turns to cleaning up keeps its shell until it has. *)
LEMMA CleaningUp ==
  ASSUME WinRMInv, NEW t \in Threads, NEW so \in {"done", "failed", "orphaned"},
         th[t].at \in InShell, leg = "pywinrm", ToCleanup(t, so),
         UNCHANGED <<client, pools, poolsUp, lastExit, strays, shells, refused, outcome>>,
         UNCHANGED job \/ Submit(t, 0),
         so = "done" => UNCHANGED job /\ Over(My(t))
  PROVE  WinRMInv'
<1>1. /\ Typed /\ Calling /\ Shelled /\ Busy(t) /\ My(t) \in Calls
      /\ shells \subseteq Calls
  BY MyCall DEF WinRMInv, At, Busy, Shelled, InShell, Typed
<1>2. ~At(t, "close pool") /\ ~At(t, "close") /\ 0 \in 0 .. MaxCalls
  <2>1. 0 \in 0 .. MaxCalls
    BY CallsAre
  <2> QED
    BY <2>1 DEF InShell, At
<1>3. Moves(t) /\ th'[t].at = "cleanup" /\ th'[t].so = so
  BY <1>1, CleansMoves
<1>4. th'[t].held = th[t].held /\ th'[t].sess = th[t].sess
  BY <1>1 DEF ToCleanup, Typed, Thread
<1>5. Kills \/ \E p \in 0 .. MaxCalls: Submit(t, p)
  BY <1>1, <1>2, NoneKilled
<1>6. so = "done" => job'[My(t)].st \in {"over", "killed"}
  BY DEF Over
<1> QED
  BY <1>1, <1>2, <1>3, <1>4, <1>5, <1>6, CommandStep DEF InShell, Submitted

LEMMA CommandIssued ==
  ASSUME WinRMInv, NEW t \in Threads, Command(t)
  PROVE  WinRMInv'
<1>1. /\ Typed /\ Calling /\ Shelled /\ Busy(t) /\ My(t) \in Calls
      /\ shells \subseteq Calls
  BY MyCall DEF WinRMInv, Command, At, Busy, Shelled, InShell, Typed
<1>2. /\ UNCHANGED <<client, pools, poolsUp, lastExit, strays, refused, shells, job>>
      /\ At(t, "command") /\ ~At(t, "close pool") /\ ~At(t, "close")
      /\ th[t].at \in InShell
  BY DEF Command, At, InShell, server
<1>3. leg = "pywinrm" /\ job[My(t)].st = "none" /\ Kills
  BY <1>1, <1>2, NoneKilled DEF WinRMInv, Placed, OverPywinrm, Sent, Submitted, At
<1>4. CASE th' = [th EXCEPT ![t].at = "send", ![t].cmd = TRUE] /\ UNCHANGED outcome
  <2>1. th' = [th EXCEPT ![t] = [th[t] EXCEPT !.at = "send", !.cmd = TRUE]]
    BY <1>1, <1>4 DEF Typed
  <2>2. [th[t] EXCEPT !.at = "send", !.cmd = TRUE] \in Thread
    <3>1. th[t] \in Thread /\ "send" \in Places
      BY <1>1 DEF Typed, Places
    <3> QED
      BY <3>1 DEF Thread
  <2>3. Others(t)
    BY <1>1, <2>1, <2>2 DEF Typed, Others
  <2>4. /\ th'[t].at = "send" /\ th'[t].held = th[t].held /\ th'[t].sess = th[t].sess
        /\ th'[t].call = th[t].call
    BY <1>1, <2>1 DEF Typed, Thread
  <2>5. Moves(t)
    BY <1>1, <1>4, <2>3, <2>4 DEF Moves, My
  <2> QED
    BY <1>1, <1>2, <1>3, <1>4, <2>4, <2>5, CommandStep DEF InShell
<1>5. CASE CommandFails(t)
  BY <1>2, <1>3, <1>5, CleaningUp DEF CommandFails
<1> QED
  BY <1>4, <1>5 DEF Command

LEMMA SendStep ==
  ASSUME WinRMInv, NEW t \in Threads, Send(t)
  PROVE  WinRMInv'
<1>1. /\ Typed /\ Calling /\ Shelled /\ Busy(t) /\ My(t) \in Calls
      /\ shells \subseteq Calls
  BY MyCall DEF WinRMInv, Send, At, Busy, Shelled, InShell, Typed
<1>2. /\ UNCHANGED <<client, pools, poolsUp, lastExit, strays, refused, shells, outcome>>
      /\ At(t, "send") /\ ~At(t, "close pool") /\ ~At(t, "close")
      /\ th[t].at \in InShell /\ 0 \in 0 .. MaxCalls
  BY CallsAre DEF Send, At, InShell, history
<1>3. leg = "pywinrm" /\ job[My(t)].st = "none"
  BY <1>1, <1>2 DEF WinRMInv, Placed, OverPywinrm, Sent, Submitted, At
<1>4. CASE th' = [th EXCEPT ![t].sends = @ + 1] /\ UNCHANGED job
  <2>1. th' = [th EXCEPT ![t] = [th[t] EXCEPT !.sends = th[t].sends + 1]]
    BY <1>1, <1>4 DEF Typed
  <2>2. [th[t] EXCEPT !.sends = th[t].sends + 1] \in Thread
    BY <1>1 DEF Typed, Thread
  <2>3. Others(t)
    BY <1>1, <2>1, <2>2 DEF Typed, Others
  <2>4. /\ th'[t].at = "send" /\ th'[t].held = th[t].held /\ th'[t].sess = th[t].sess
        /\ th'[t].call = th[t].call
    BY <1>1, <1>2, <2>1 DEF Typed, Thread, At
  <2>5. Moves(t) /\ Kills
    BY <1>1, <1>2, <1>4, <2>3, <2>4, NoneKilled DEF Moves, My
  <2> QED
    BY <1>1, <1>2, <1>3, <1>4, <2>4, <2>5, CommandStep DEF InShell
<1>5. CASE Submit(t, 0) /\ Goes(t, "poll")
  <2>1. Moves(t) /\ th'[t].at = "poll" /\ th'[t].sess = th[t].sess /\ th'[t].held = th[t].held
    BY <1>1, <1>2, <1>5, GoesMoves DEF Places, Moves
  <2> QED
    BY <1>1, <1>2, <1>3, <1>5, <2>1, CommandStep DEF InShell, Submitted
<1>6. CASE ToCleanup(t, "failed") /\ (Submit(t, 0) \/ UNCHANGED job)
  BY <1>2, <1>3, <1>6, CleaningUp
<1> QED
  BY <1>4, <1>5, <1>6 DEF Send

LEMMA AnsweredStep ==
  ASSUME WinRMInv, NEW t \in Threads, Answered(t)
  PROVE  WinRMInv'
<1>1. /\ Typed /\ Calling /\ Shelled /\ Ran /\ Busy(t) /\ My(t) \in Calls
      /\ shells \subseteq Calls
  BY MyCall DEF WinRMInv, Answered, At, Busy, Shelled, Typed
<1>2. /\ UNCHANGED <<client, pools, poolsUp, lastExit, strays, refused, shells, job>>
      /\ At(t, "poll") /\ ~At(t, "close pool") /\ ~At(t, "close") /\ Over(My(t))
      /\ th[t].at \in InShell
  BY DEF Answered, At, InShell, server
<1>3. CASE leg = "pywinrm"
  BY <1>2, <1>3, CleaningUp DEF Answered
<1>4. CASE leg # "pywinrm"
  <2>1. Status(My(t)) = Due(job[My(t)])
    BY <1>1, <1>2, StatusIs
  <2>2. Status(My(t)) \in Int
    BY <1>1, <2>1, DueInt DEF Typed
  <2>3. Stops(t, th[t].held, "done", Status(My(t))) /\ Kills
    BY <1>1, <1>2, <1>4, <2>2, EndStops, NoneKilled DEF Answered
  <2>4. th'[t].at = "idle" /\ th'[t].held = th[t].held /\ th'[t].sess = 0
    BY <2>3 DEF Stops
  <2>5. My(t) \notin shells /\ job'[My(t)].st \notin {"queued", "running"}
    BY <1>1, <1>2, <1>4 DEF Shelled, Over
  <2> QED
    BY <1>1, <1>2, <2>1, <2>3, <2>4, <2>5, CommandStep DEF OverPywinrm
<1> QED
  BY <1>3, <1>4

(* A run gives up: on its connection, or at its deadline. *)
LEMMA GivesUp ==
  ASSUME WinRMInv, NEW t \in Threads, At(t, "poll"),
         NEW how \in {"failed", "orphaned"},
         IF leg = "pywinrm" THEN ToCleanup(t, how) /\ UNCHANGED outcome ELSE Ends(t, how, -1),
         UNCHANGED <<client, server, refused, strays>>
  PROVE  WinRMInv'
<1>1. /\ Typed /\ Calling /\ Shelled /\ Busy(t) /\ My(t) \in Calls
      /\ shells \subseteq Calls
  BY MyCall DEF WinRMInv, At, Busy, Shelled, Typed
<1>2. /\ UNCHANGED <<client, pools, poolsUp, lastExit, strays, refused, shells, job>>
      /\ ~At(t, "close pool") /\ ~At(t, "close") /\ th[t].at \in InShell
  BY DEF At, InShell, server
<1>3. CASE leg = "pywinrm"
  BY <1>2, <1>3, CleaningUp
<1>4. CASE leg # "pywinrm"
  <2>0. Ends(t, how, -1) /\ how \in {"done", "failed", "orphaned"}
    BY <1>4
  <2>1. Stops(t, th[t].held, how, -1) /\ Kills
    <3>1. -1 \in Int
      OBVIOUS
    <3>2. Stops(t, th[t].held, how, -1)
      BY <1>1, <2>0, <3>1, EndStops
    <3>3. Kills
      BY <1>1, <1>2, NoneKilled
    <3> QED
      BY <3>2, <3>3
  <2>2. th'[t].at = "idle" /\ th'[t].held = th[t].held /\ th'[t].sess = 0
    BY <2>1 DEF Stops
  <2>3. My(t) \notin shells
    BY <1>4 DEF WinRMInv, Shelled
  <2> QED
    BY <1>1, <1>2, <2>1, <2>2, <2>3, CommandStep DEF OverPywinrm
<1> QED
  BY <1>3, <1>4

(* The `finally` of a run: nothing of it is left that is not reported. *)
LEMMA CleanupStep ==
  ASSUME WinRMInv, NEW t \in Threads, Cleanup(t)
  PROVE  WinRMInv'
<1>1. /\ Typed /\ Calling /\ Shelled /\ Ran /\ Sent /\ Busy(t) /\ My(t) \in Calls
      /\ shells \subseteq Calls
  BY MyCall DEF WinRMInv, Cleanup, At, Busy, Shelled, Typed
<1>2. /\ UNCHANGED <<client, pools, poolsUp, lastExit, strays>>
      /\ At(t, "cleanup") /\ ~At(t, "close pool") /\ ~At(t, "close")
  BY DEF Cleanup, At
<1>3. leg = "pywinrm"
  BY <1>2 DEF WinRMInv, Placed, OverPywinrm, At
<1>4. PICK signalled \in BOOLEAN, deleted \in BOOLEAN:
      /\ shells' = (IF deleted THEN shells \ {My(t)} ELSE shells)
      /\ refused' = (IF deleted THEN refused ELSE refused \cup {<<"shell", My(t)>>})
      /\ job' = [job EXCEPT ![My(t)].st =
                     IF @ \in {"queued", "running"} /\ (deleted \/ (signalled /\ th[t].cmd))
                     THEN "killed" ELSE @]
      /\ IF th[t].so = "done" /\ signalled /\ deleted THEN Ends(t, "done", Status(My(t)))
         ELSE Ends(t, IF th[t].so = "orphaned" THEN "orphaned" ELSE "failed", -1)
  BY DEF Cleanup
<1>5. /\ refused \subseteq refused' /\ shells' \subseteq Calls
      /\ \A n \in Calls: n # My(t) => (n \in shells' <=> n \in shells)
      /\ My(t) \in shells' => Excused(My(t), refused')
  BY <1>1, <1>4 DEF Excused
<1>6. Kills /\ (job[My(t)].st \in {"over", "killed"} => job' = job)
  <2> DEFINE k == My(t)
             state == IF job[k].st \in {"queued", "running"}
                         /\ (deleted \/ (signalled /\ th[t].cmd))
                      THEN "killed" ELSE job[k].st
  <2>1. job' = [job EXCEPT ![k] = [job[k] EXCEPT !.st = state]] /\ k \in Calls
    BY <1>1, <1>4 DEF Typed
  <2>2. \/ state = job[k].st
        \/ job[k].st \in {"queued", "running"} /\ state = "killed"
    OBVIOUS
  <2>3. job[k].st \in {"over", "killed"} => state = job[k].st
    OBVIOUS
  <2> HIDE DEF k, state
  <2>4. job \in [Calls -> Job]
    BY <1>1 DEF Typed
  <2>5. CASE state = job[k].st
    <3>1. [job[k] EXCEPT !.st = state] = job[k]
      BY <2>1, <2>4, <2>5 DEF Job
    <3>2. job' = job
      BY <2>1, <2>4, <3>1
    <3> QED
      BY <1>1, <3>2, NoneKilled
  <2>6. CASE state # job[k].st
    <3>1. job[k].st \in {"queued", "running"} /\ state = "killed"
      BY <2>2, <2>6
    <3>2. [job[k] EXCEPT !.st = state] \in Job
      BY <2>1, <2>4, <3>1 DEF Job, States
    <3>3. /\ job' \in [Calls -> Job] /\ \A n \in Calls: n # k => job'[n] = job[n]
          /\ job'[k] = [job[k] EXCEPT !.st = state]
      BY <2>1, <2>4, <3>2
    <3>4. /\ job'[k].st = "killed" /\ job'[k].pool = job[k].pool
          /\ job'[k].marks = job[k].marks /\ job'[k].script = job[k].script
          /\ job'[k].capture = job[k].capture
      BY <2>1, <2>4, <3>1, <3>3 DEF Job
    <3> QED
      BY <2>3, <2>6, <3>1, <3>3, <3>4 DEF Kills, k
  <2> QED
    BY <2>5, <2>6
<1>7. CASE th[t].so = "done" /\ signalled /\ deleted
  <2>1. job[My(t)].st \in {"over", "killed"} /\ Over(My(t)) /\ job' = job
    BY <1>1, <1>2, <1>6, <1>7 DEF Sent, Over
  <2>2. Status(My(t)) = Due(job[My(t)])
    BY <1>1, <2>1, StatusIs
  <2>3. Status(My(t)) \in Int
    BY <1>1, <2>2, DueInt DEF Typed
  <2>4. Stops(t, th[t].held, "done", Status(My(t)))
    BY <1>1, <1>4, <1>7, <2>3, EndStops
  <2>5. th'[t].at = "idle" /\ th'[t].held = th[t].held /\ th'[t].sess = 0
    BY <2>4 DEF Stops
  <2> QED
    BY <1>2, <1>3, <1>5, <1>6, <2>1, <2>2, <2>4, <2>5, CommandStep DEF OverPywinrm
<1>8. CASE ~(th[t].so = "done" /\ signalled /\ deleted)
  <2> DEFINE how == IF th[t].so = "orphaned" THEN "orphaned" ELSE "failed"
  <2>1. how \in {"failed", "orphaned"} /\ Ends(t, how, -1)
    BY <1>4, <1>8
  <2> HIDE DEF how
  <2>2. Stops(t, th[t].held, how, -1)
    BY <1>1, <2>1, EndStops
  <2>3. th'[t].at = "idle" /\ th'[t].held = th[t].held /\ th'[t].sess = 0
    BY <2>2 DEF Stops
  <2> QED
    BY <1>2, <1>3, <1>5, <1>6, <2>1, <2>2, <2>3, CommandStep DEF OverPywinrm
<1> QED
  BY <1>7, <1>8

-----------------------------------------------------------------------------
(* The steps of the server. *)
LEMMA ServerKeeps ==
  ASSUME WinRMInv, UNCHANGED <<client, th, pools, poolsUp, shells, history>>,
         job' \in [Calls -> Job], lastExit' \in [Calls -> Nat], Ran', OneRuns',
         NEW n \in Calls, job[n].st \in {"queued", "running"}, job'[n].st # "none",
         \A m \in Calls: m # n => job'[m] = job[m]
  PROVE  WinRMInv'
<1>1. /\ UNCHANGED <<leg, session, made, pool, open, lifecycle, calls, th, pools, poolsUp, shells>>
      /\ UNCHANGED <<outcome, refused, strays>>
  BY DEF client, history
<1>2. /\ Typed /\ Counted /\ Calling /\ Placed /\ Sent /\ Answers
      /\ Shelled /\ Opening /\ Owned
  BY DEF WinRMInv
<1>3. Typed'
  BY <1>1, <1>2 DEF Typed
<1>4. Counted' /\ Placed' /\ Shelled' /\ Opening'
  BY <1>1, <1>2 DEF Counted, Building, At, Placed, Shelled, Busy, My, Opening
<1>5. Owned'
  <2>1. Known' = Known /\ UNCHANGED <<poolsUp, leg, th>>
    BY <1>1 DEF Known
  <2>2. PoolsOwned'
    <3>1. PoolsOwned
      BY <1>2 DEF Owned
    <3>2. /\ poolsUp' = poolsUp /\ refused' = refused /\ pool' = pool
          /\ session' = session /\ strays' = strays /\ th' = th
      BY <1>1
    <3> SUFFICES ASSUME NEW p \in poolsUp'
                 PROVE  \/ <<"pool", p>> \in refused'
                        \/ \E s \in Calls:
                              /\ pool'[s] = p
                              /\ \/ s = session' \/ s \in strays'
                                 \/ \E t \in Threads: At(t, "close pool")' /\ th'[t].sess = s
      BY DEF PoolsOwned
    <3>3. CASE <<"pool", p>> \in refused
      BY <3>2, <3>3
    <3>4. CASE <<"pool", p>> \notin refused
      <4>1. PICK s \in Calls: /\ pool[s] = p
                              /\ \/ s = session \/ s \in strays
                                 \/ \E t \in Threads: At(t, "close pool") /\ th[t].sess = s
        BY <3>1, <3>2, <3>4 DEF PoolsOwned
      <4>2. \A t \in Threads: At(t, "close pool")' = At(t, "close pool") /\ th'[t].sess = th[t].sess
        BY <3>2 DEF At
      <4> QED
        BY <3>2, <4>1, <4>2
    <3> QED
      BY <3>3, <3>4
  <2> QED
    BY <1>2, <2>1, <2>2 DEF Owned, At
<1>6. Calling'
  <2>1. \A m \in Calls: job[m].st = "none" => job'[m].st = "none"
    OBVIOUS
  <2>2. \A m \in Calls: New(m) => New(m)'
    BY <1>1, <2>1 DEF New
  <2>3. \A u \in Threads: Busy(u)' = Busy(u) /\ My(u)' = My(u)
    BY <1>1 DEF Busy, At, My
  <2> QED
    BY <1>1, <1>2, <2>2, <2>3 DEF Calling
<1>7. Sent'
  <2>1. \A u \in Threads: Busy(u)' = Busy(u) /\ My(u)' = My(u) /\ (Busy(u) => My(u) \in Calls)
    BY <1>1, <1>2, MyCall DEF Busy, At, My
  <2>2. \A m \in Calls: /\ job[m].st = "none" => job'[m].st = "none"
                        /\ job[m].st \in {"over", "killed"} => job'[m].st \in {"over", "killed"}
    OBVIOUS
  <2>3. \A u \in Threads: At(u, "cleanup")' = At(u, "cleanup") /\ (At(u, "cleanup") => Busy(u))
    BY <1>1 DEF At, Busy
  <2> QED
    BY <1>1, <1>2, <2>1, <2>2, <2>3 DEF Sent, Over
<1>8. Answers'
  BY <1>1, <1>2 DEF Answers
<1> QED
  BY <1>3, <1>4, <1>5, <1>6, <1>7, <1>8 DEF WinRMInv

(* A pipeline begins with no status of an earlier one. *)
LEMMA StartStep ==
  ASSUME WinRMInv, NEW n \in Calls, Start(n)
  PROVE  WinRMInv'
<1>1. /\ Typed /\ Ran /\ OneRuns /\ job \in [Calls -> Job] /\ lastExit \in [Calls -> Nat]
  BY DEF WinRMInv, Typed
<1>2. /\ job[n].st = "queued" /\ job' = [job EXCEPT ![n] = [job[n] EXCEPT !.st = "running"]]
      /\ \A m \in Calls: ~(job[m].pool = job[n].pool /\ job[m].st = "running")
      /\ lastExit' = IF job[n].capture THEN [lastExit EXCEPT ![job[n].pool] = 0] ELSE lastExit
      /\ UNCHANGED <<client, th, pools, poolsUp, shells, history>>
  BY <1>1 DEF Start, Reset
<1>3. job[n].pool \in Calls
  <2>1. job[n].pool # 0 /\ job[n].pool \in 0 .. MaxCalls
    BY <1>1, <1>2 DEF Ran, Job
  <2> QED
    BY <2>1, CallsAre
<1>4. /\ job' \in [Calls -> Job] /\ job'[n].st = "running" /\ job'[n].pool = job[n].pool
      /\ job'[n].marks = job[n].marks /\ job'[n].script = job[n].script
      /\ job'[n].capture = job[n].capture
      /\ \A m \in Calls: m # n => job'[m] = job[m]
  <2>1. [job[n] EXCEPT !.st = "running"] \in Job
    BY <1>1 DEF Job, States
  <2>2. /\ job' \in [Calls -> Job] /\ job'[n] = [job[n] EXCEPT !.st = "running"]
        /\ \A m \in Calls: m # n => job'[m] = job[m]
    BY <1>1, <1>2, <2>1
  <2> QED
    BY <1>1, <2>2 DEF Job
<1>5. /\ lastExit' \in [Calls -> Nat] /\ (job[n].capture => lastExit'[job[n].pool] = 0)
      /\ \A p \in Calls: p # job[n].pool => lastExit'[p] = lastExit[p]
  BY <1>1, <1>2, <1>3
<1>6. Ran'
  <2> SUFFICES ASSUME NEW m \in Calls
               PROVE  /\ job'[m].st = "queued" => job'[m].pool # 0
                      /\ job'[m].marks = IF job'[m].st = "over" THEN Said(m)' ELSE {}
    BY DEF Ran
  <2>1. CASE m = n
    BY <1>1, <1>2, <1>4, <2>1 DEF Ran
  <2>2. CASE m # n
    BY <1>1, <1>4, <2>2 DEF Ran, Said
  <2> QED
    BY <2>1, <2>2
<1>7. OneRuns'
  <2> SUFFICES ASSUME NEW m \in Calls, job'[m].st = "running", job'[m].pool # 0
               PROVE  /\ job'[m].capture => lastExit'[job'[m].pool] = 0
                      /\ \A k \in Calls: job'[k].st = "running" /\ job'[k].pool = job'[m].pool
                                             => k = m
    BY DEF OneRuns
  <2>1. CASE m = n
    BY <1>2, <1>4, <1>5, <2>1
  <2>2. CASE m # n
    <3>1. job'[m] = job[m] /\ job[m].pool # job[n].pool
      BY <1>2, <1>4, <2>2
    <3>2. job[m].pool \in Calls
      BY <1>1, <3>1, CallsAre DEF Job
    <3> QED
      BY <1>1, <1>4, <1>5, <3>1, <3>2 DEF OneRuns
  <2> QED
    BY <2>1, <2>2
<1> QED
  BY <1>2, <1>4, <1>5, <1>6, <1>7, ServerKeeps

(* What a script prints at its end is its own status. *)
LEMMA ReportsSaid ==
  ASSUME Typed, Ran, OneRuns, NEW n \in Calls, job[n].st = "running"
  PROVE  Reports(n) = Said(n)
<1>1. /\ job[n].script \in Sources
      /\ job[n].capture /\ job[n].pool # 0 => lastExit[job[n].pool] = 0
  BY DEF Typed, Job, OneRuns
<1>6. CASE ~job[n].capture
  BY <1>6 DEF Reports, Said
<1>2. CASE job[n].script = "forges"
  BY <1>2 DEF Reports, Said
<1>3. CASE job[n].script = "ok"
  BY <1>3, <1>6, OwnStatusIs DEF Reports, Said, Marker
<1>4. CASE job[n].script = "native"
  BY <1>4, <1>6, OwnStatusIs DEF Reports, Said, Marker
<1>5. CASE job[n].script = "pure"
  BY <1>1, <1>5, <1>6, OwnStatusIs DEF Reports, Said, Marker
<1> QED
  BY <1>1, <1>2, <1>3, <1>4, <1>5 DEF Sources

LEMMA FinishStep ==
  ASSUME WinRMInv, NEW n \in Calls, Finish(n)
  PROVE  WinRMInv'
<1>1. /\ Typed /\ Ran /\ OneRuns /\ job \in [Calls -> Job] /\ lastExit \in [Calls -> Nat]
  BY DEF WinRMInv, Typed
<1> DEFINE said == Said(n)
<1>2. /\ job[n].st = "running"
      /\ job' = [job EXCEPT ![n] = [job[n] EXCEPT !.st = "over", !.marks = said]]
      /\ lastExit' = (IF job[n].pool # 0 /\ job[n].script = "native"
                      THEN [lastExit EXCEPT ![job[n].pool] = 2] ELSE lastExit)
      /\ UNCHANGED <<client, th, pools, poolsUp, shells, history>>
  BY <1>1, ReportsSaid DEF Finish
<1>3. said \in SUBSET (Nat \X Int)
  <2>1. OwnStatusOf(job[n].script) \in Int
    BY <1>1, OwnStatusInt DEF Job
  <2>2. n \in Nat
    BY CallsAre
  <2> QED
    BY <2>1, <2>2 DEF Said
<1> HIDE DEF said
<1>4. /\ job' \in [Calls -> Job] /\ job'[n].st = "over" /\ job'[n].marks = said
      /\ job'[n].script = job[n].script /\ job'[n].capture = job[n].capture
      /\ \A m \in Calls: m # n => job'[m] = job[m]
  <2>1. [job[n] EXCEPT !.st = "over", !.marks = said] \in Job
    <3>1. job[n] \in Job /\ "over" \in States
      BY <1>1 DEF States
    <3> QED
      BY <1>3, <3>1 DEF Job
  <2>2. /\ job' \in [Calls -> Job] /\ job'[n] = [job[n] EXCEPT !.st = "over", !.marks = said]
        /\ \A m \in Calls: m # n => job'[m] = job[m]
    BY <1>1, <1>2, <2>1
  <2> QED
    BY <1>1, <2>2 DEF Job
<1>5. /\ lastExit' \in [Calls -> Nat]
      /\ \A p \in Calls: lastExit'[p] = lastExit[p] \/ (job[n].pool # 0 /\ p = job[n].pool)
  BY <1>1, <1>2
<1>6. Ran'
  <2> SUFFICES ASSUME NEW m \in Calls
               PROVE  /\ job'[m].st = "queued" => job'[m].pool # 0
                      /\ job'[m].marks = IF job'[m].st = "over" THEN Said(m)' ELSE {}
    BY DEF Ran
  <2>1. CASE m = n
    BY <1>4, <2>1 DEF Said, said
  <2>2. CASE m # n
    BY <1>1, <1>4, <2>2 DEF Ran, Said
  <2> QED
    BY <2>1, <2>2
<1>7. OneRuns'
  <2> SUFFICES ASSUME NEW m \in Calls, job'[m].st = "running", job'[m].pool # 0
               PROVE  /\ job'[m].capture => lastExit'[job'[m].pool] = 0
                      /\ \A k \in Calls: job'[k].st = "running" /\ job'[k].pool = job'[m].pool
                                             => k = m
    BY DEF OneRuns
  <2>1. m # n /\ job'[m] = job[m]
    BY <1>4
  <2>2. job[m].pool \in Calls
    BY <1>1, <2>1, CallsAre DEF Job
  <2>3. job[m].pool # job[n].pool
    BY <1>1, <1>2, <2>1 DEF OneRuns
  <2>4. job[m].capture => lastExit'[job[m].pool] = 0
    BY <1>1, <1>5, <2>1, <2>2, <2>3 DEF OneRuns
  <2> QED
    BY <1>1, <1>4, <2>1, <2>4 DEF OneRuns
<1> QED
  BY <1>1, <1>2, <1>4, <1>5, <1>6, <1>7, ServerKeeps

-----------------------------------------------------------------------------
(* The session, its lock and its pool. *)

(* A call that begins is new. *)
LEMMA BeginStep ==
  ASSUME WinRMInv, NEW t \in Threads, NEW op \in Operations \ {"none"}, NEW script \in Sources,
         NEW limit \in BOOLEAN, NEW capture \in BOOLEAN, Begin(t, op, script, limit, capture)
  PROVE  WinRMInv'
<1>1. /\ Typed /\ Counted /\ Calling /\ Placed /\ Ran /\ OneRuns /\ Sent /\ Answers
      /\ Shelled /\ Opening /\ Owned
  BY DEF WinRMInv
<1>2. /\ UNCHANGED <<leg, session, made, pool, open, lifecycle>>
      /\ UNCHANGED <<pools, poolsUp, shells, job, lastExit, outcome, refused, strays>>
      /\ ~Busy(t) /\ calls' = calls + 1
  BY DEF Begin, server, history
<1>3. /\ calls \in Nat /\ calls + 1 \in Calls /\ calls + 1 \in 0 .. MaxCalls
      /\ calls \in 0 .. MaxCalls /\ MaxCalls \in Nat
  <2>1. calls \in 0 .. MaxCalls /\ calls < MaxCalls /\ MaxCalls \in Nat
    BY <1>1, CallsAre DEF Begin, Typed
  <2> QED
    BY <2>1, CallsAre
<1> DEFINE at == CASE op = "close" -> "close" [] op = "invoke" -> "connect again"
                   [] OTHER -> "session"
           r == [Idle EXCEPT !.op = op, !.call = calls + 1, !.held = th[t].held,
                             !.sess = th[t].held, !.script = script, !.limit = limit,
                             !.capture = capture, !.at = at]
<1>4. at \in {"close", "connect again", "session"} /\ (at = "connect again" => op = "invoke")
  OBVIOUS
<1>5. th' = [th EXCEPT ![t] = r]
  BY DEF Begin
<1> HIDE DEF at
<1>6. r \in Thread
  <2>1. Idle \in Thread
    <3>1. 0 \in 0 .. MaxCalls /\ 0 \in Nat
      BY <1>3
    <3>2. "none" \in Operations /\ "idle" \in Places /\ "ok" \in Sources
      BY DEF Operations, Places, Sources
    <3> QED
      BY <3>1, <3>2 DEF Idle, Thread
  <2>2. th[t].held \in 0 .. MaxCalls /\ at \in Places
    BY <1>1, <1>4 DEF Typed, Thread, Places
  <2> QED
    BY <1>3, <2>1, <2>2 DEF Thread
<1>7. r.at = at /\ r.call = calls + 1 /\ r.held = th[t].held /\ r.sess = th[t].held
  BY DEF Idle
<1> HIDE DEF r
<1>8. /\ th' \in [Threads -> Thread] /\ Others(t) /\ th'[t].at = at /\ th'[t].call = calls + 1
      /\ th'[t].held = th[t].held /\ th'[t].sess = th[t].held
  BY <1>1, <1>5, <1>6, <1>7 DEF Typed, Others
<1>9. New(calls + 1)
  BY <1>1, <1>3 DEF Calling
<1>10. \A u \in Threads: u # t => (Busy(u)' = Busy(u)) /\ My(u)' = My(u) /\ th'[u] = th[u]
  BY <1>8 DEF Others, Busy, At, My
<1>11. My(t)' = calls + 1 /\ Busy(t)'
  BY <1>4, <1>8 DEF My, Busy, At
<1>12. Typed'
  BY <1>1, <1>2, <1>3, <1>8 DEF Typed
<1>13. Counted'
  <2>1. \A u \in Threads: u # t => Building(u)' = Building(u)
    BY <1>8 DEF Others, Building, At
  <2>2. /\ \A u \in Threads: Building(u) \in {0, 1} /\ Building(u)' \in {0, 1}
        /\ Building(t) = 0
    BY <1>2 DEF Building, At, Busy
  <2>3. made \in Int /\ made' = made
    BY <1>1, <1>2 DEF Typed
  <2>4. t = 1 \/ t = 2
    BY CallsAre
  <2> QED
    BY <1>1, <1>2, <1>3, <2>1, <2>2, <2>3, <2>4, CallsAre DEF Counted
<1>14. Calling'
  <2>1. ASSUME NEW u \in Threads, Busy(u)'
        PROVE  My(u)' \in 1 .. calls' /\ outcome'[My(u)'].how = "none"
    <3>1. CASE u = t
      BY <1>2, <1>3, <1>9, <1>11, <3>1 DEF New
    <3>2. CASE u # t
      <4>1. My(u) \in 1 .. calls /\ outcome[My(u)].how = "none"
        BY <1>1, <1>10, <2>1, <3>2 DEF Calling
      <4> QED
        BY <1>2, <1>3, <1>10, <3>2, <4>1
    <3> QED
      BY <3>1, <3>2
  <2>2. \A u \in Threads: u # t /\ Busy(u)' => My(u)' # calls + 1
    <3>1. \A u \in Threads: u # t /\ Busy(u)' => My(u)' \in 1 .. calls
      BY <1>1, <1>10 DEF Calling
    <3> QED
      BY <1>3, <3>1
  <2>3. \A u, v \in Threads: Busy(u)' /\ Busy(v)' /\ My(u)' = My(v)' => u = v
    <3> SUFFICES ASSUME NEW u \in Threads, NEW v \in Threads, Busy(u)', Busy(v)', My(u)' = My(v)'
                 PROVE  u = v
      OBVIOUS
    <3>1. CASE u = t \/ v = t
      BY <1>11, <2>2, <3>1
    <3>2. CASE u # t /\ v # t
      BY <1>1, <1>10, <3>2 DEF Calling
    <3> QED
      BY <3>1, <3>2
  <2>4. ASSUME NEW n \in Calls, n > calls' PROVE New(n)'
    <3>1. n > calls
      BY <1>2, <1>3, <2>4, CallsAre
    <3> QED
      BY <1>1, <1>2, <3>1 DEF Calling, New
  <2> QED
    BY <2>1, <2>3, <2>4 DEF Calling
<1>15. Placed'
  <2>1. at = "connect again" => leg = "psrp" /\ th[t].held # 0
    BY <1>4 DEF Begin
  <2> QED
    BY <1>1, <1>2, <1>4, <1>8, <2>1, PlacedKept DEF OverPSRP, OverPywinrm
<1>16. Ran' /\ OneRuns' /\ Answers'
  BY <1>1, <1>2 DEF Ran, Said, OneRuns, Answers
<1>17. Sent'
  <2> SUFFICES ASSUME NEW u \in Threads
               PROVE  /\ Busy(u)' /\ th'[u].at \notin Submitted => job'[My(u)'].st = "none"
                      /\ At(u, "cleanup")' /\ th'[u].so = "done" => Over(My(u))'
    BY DEF Sent
  <2>1. CASE u = t
    BY <1>2, <1>4, <1>8, <1>9, <1>11, <2>1 DEF New, At
  <2>2. CASE u # t
    BY <1>1, <1>2, <1>10, <2>2 DEF Sent, Over, At
  <2> QED
    BY <2>1, <2>2
<1>18. Shelled'
  <2>1. ASSUME NEW u \in Threads, Busy(u)', th'[u].at \notin InShell PROVE My(u)' \notin shells'
    <3>1. CASE u = t
      BY <1>2, <1>9, <1>11, <3>1 DEF New
    <3>2. CASE u # t
      BY <1>1, <1>2, <1>10, <2>1, <3>2 DEF Shelled
    <3> QED
      BY <3>1, <3>2
  <2> QED
    BY <1>1, <1>2, <2>1 DEF Shelled
<1>19. Opening'
  BY <1>1, <1>2, <1>4, <1>8, OpeningKept
<1>20. Owned'
  <2>1. Known' = Known /\ th[t].held \in Known
    BY <1>1, <1>2 DEF Known, Owned
  <2>2. poolsUp' # {} => leg = "psrp"
    BY <1>1, <1>2 DEF Owned
  <2>3. ~At(t, "close pool")
    BY <1>2 DEF Busy, At
  <2> QED
    BY <1>1, <1>2, <1>8, <2>1, <2>2, <2>3, OwnedKept
<1> QED
  BY <1>12, <1>13, <1>14, <1>15, <1>16, <1>17, <1>18, <1>19, <1>20 DEF WinRMInv

(* The lazy session is built at most once by each call. *)
LEMMA SessionBuilt ==
  ASSUME WinRMInv, NEW t \in Threads, Session(t)
  PROVE  WinRMInv'
<1>1. /\ Typed /\ Counted /\ Calling /\ Placed /\ Ran /\ OneRuns /\ Sent /\ Answers
      /\ Shelled /\ Opening /\ Owned /\ Busy(t)
  BY DEF WinRMInv, Session, Busy, At
<1> DEFINE s == Current
<1>2. /\ UNCHANGED <<leg, pool, open, lifecycle, calls>>
      /\ UNCHANGED <<pools, poolsUp, shells, job, lastExit, refused, strays>>
      /\ At(t, "session") /\ session' = s /\ made' = (IF s > made THEN s ELSE made)
  BY DEF Session, server
<1>3. made + 1 \in 1 .. MaxCalls
  <2>1. /\ made \in Int /\ calls \in Int /\ calls <= MaxCalls /\ made >= 0
        /\ MaxCalls \in Int
    BY <1>1, CallsAre DEF Typed
  <2>2. Building(t) = 1 /\ \A u \in Threads: Building(u) \in {0, 1}
    BY <1>2 DEF Building
  <2>3. t = 1 \/ t = 2
    BY CallsAre
  <2>4. made + 1 <= calls
    BY <1>1, <2>1, <2>2, <2>3, CallsAre DEF Counted
  <2> QED
    BY <2>1, <2>4
<1>4. /\ s \in 1 .. MaxCalls /\ s # 0 /\ s \in 0 .. made'
      /\ made' \in 0 .. MaxCalls /\ made' \in {made, made + 1}
  <2>1. session \in 0 .. made /\ made \in 0 .. MaxCalls /\ MaxCalls \in Nat
    BY <1>1, CallsAre DEF Typed
  <2>2. CASE session = 0
    BY <1>2, <1>3, <2>1, <2>2 DEF Current
  <2>3. CASE session # 0
    BY <1>2, <1>3, <2>1, <2>3 DEF Current
  <2> QED
    BY <2>2, <2>3
<1>5. \A k \in Known: k \in Known'
  BY <1>2 DEF Known, Current
<1> HIDE DEF s
<1>6. s \in Known' /\ th[t].held \in Known' /\ 0 \in Known'
  BY <1>1, <1>2, <1>5 DEF Known, Owned
<1>7. /\ Moves(t) \/ Stops(t, th[t].held, "done", -1)
      /\ th'[t].held = th[t].held /\ th'[t].sess \in {0, s}
      /\ th'[t].at \in {"idle", "connect", "shell", "relay"}
      /\ th'[t].at = "connect" => leg = "psrp" /\ th'[t].sess # 0
      /\ th'[t].at = "shell" => leg = "pywinrm"
      /\ th'[t].at = "relay" => leg = "native"
  <2>1. CASE leg # "psrp" /\ th[t].op = "connect"
    <3>1. Ends(t, "done", -1)
      BY <2>1 DEF Session
    <3>2. -1 \in Int
      OBVIOUS
    <3>3. Stops(t, th[t].held, "done", -1)
      BY <1>1, <3>1, <3>2, EndStops
    <3> QED
      BY <3>3 DEF Stops
  <2>2. CASE ~(leg # "psrp" /\ th[t].op = "connect")
    <3> DEFINE at == CASE leg = "psrp" -> "connect" [] leg = "pywinrm" -> "shell"
                       [] OTHER -> "relay"
    <3>1. th' = [th EXCEPT ![t] = [th[t] EXCEPT !.sess = s, !.at = at]] /\ UNCHANGED outcome
      BY <1>1, <2>2 DEF Session, Typed, s
    <3>2. /\ at \in {"connect", "shell", "relay"} /\ (at = "connect" => leg = "psrp")
          /\ (at = "shell" => leg = "pywinrm") /\ (at = "relay" => leg = "native")
      <4>1. leg \in {"native", "pywinrm", "psrp"}
        BY <1>1, WinRMAssumption DEF WinRMAssumption, Typed
      <4> QED
        BY <4>1
    <3> HIDE DEF at
    <3>3. s \in 0 .. MaxCalls /\ at \in Places /\ th \in [Threads -> Thread]
      <4>1. s \in 0 .. MaxCalls
        BY <1>4, CallsAre
      <4> QED
        BY <1>1, <3>2, <4>1 DEF Places, Typed
    <3>4. [th[t] EXCEPT !.sess = s, !.at = at] \in Thread
      BY <3>3 DEF Thread
    <3>5. Others(t) /\ th'[t] = [th[t] EXCEPT !.sess = s, !.at = at]
      BY <3>1, <3>3, <3>4 DEF Others
    <3>6. /\ th'[t].sess = s /\ th'[t].at = at /\ th'[t].held = th[t].held
          /\ th'[t].call = th[t].call
      BY <3>3, <3>5 DEF Thread
    <3> QED
      BY <1>1, <1>4, <3>1, <3>2, <3>5, <3>6 DEF Moves, My
  <2> QED
    BY <2>1, <2>2
<1>8. Kills /\ th[t].at \notin Submitted \cup InShell /\ th'[t].at \notin Submitted
  BY <1>1, <1>2, <1>7, NoneKilled DEF Submitted, InShell, At
<1>9. /\ job' \in [Calls -> Job] /\ outcome' \in [Calls -> Outcome] /\ Others(t)
      /\ Calling' /\ Ran' /\ OneRuns' /\ Sent' /\ Answers' /\ Shelled'
  BY <1>2, <1>7, <1>8, SessionStep
<1>10. Typed'
  BY <1>1, <1>2, <1>4, <1>9 DEF Typed, Others
<1>11. Counted'
  BY <1>1, <1>2, <1>4, <1>7, <1>9, CountedKept
<1>12. Placed'
  BY <1>1, <1>2, <1>7, <1>9, PlacedKept DEF OverPSRP, OverPywinrm
<1>13. Opening'
  BY <1>1, <1>2, <1>7, <1>9, OpeningKept
<1>14. Owned'
  <2>1. ~At(t, "close pool") /\ (poolsUp' # {} => leg = "psrp")
    BY <1>1, <1>2 DEF Owned, At
  <2>2. th'[t].sess \in Known' /\ th'[t].held \in Known'
    BY <1>6, <1>7
  <2> QED
    BY <1>1, <1>2, <1>5, <1>9, <2>1, <2>2, OwnedKept
<1> QED
  BY <1>9, <1>10, <1>11, <1>12, <1>13, <1>14 DEF WinRMInv

(* The session of a thread that works on one. *)
LEMMA SessionIs ==
  ASSUME WinRMInv, NEW t \in Threads, th[t].at \in OverPSRP
  PROVE  /\ th[t].sess \in Calls /\ leg = "psrp" /\ th[t].held \in Known /\ 0 \in Known
         /\ ~At(t, "close pool") => th[t].sess \in Known
<1>1. th[t].sess # 0 /\ leg = "psrp"
  BY DEF WinRMInv, Placed
<1>2. th[t].sess \in 0 .. MaxCalls
  BY DEF WinRMInv, Typed, Thread
<1>3. th[t].sess \in Calls
  BY <1>1, <1>2, CallsAre
<1>4. 0 \in Known
  BY DEF Known
<1> QED
  BY <1>1, <1>3, <1>4 DEF WinRMInv, Owned

(* A thread that found its session connected goes on, or ends its call. *)
LEMMA ConnectedDoes ==
  ASSUME WinRMInv, NEW t \in Threads, Connected(t),
         th[t].at \in {"connect", "connect again", "opening", "opening again"}
  PROVE  /\ \E s: Moves(t) \/ Stops(t, s, "done", -1)
         /\ Others(t) /\ th'[t].at \in {"idle", "connect again", "pipeline"}
         /\ th'[t].sess \in {th[t].sess, 0} /\ th'[t].held \in {th[t].held, th[t].sess}
         /\ th'[t].at # "idle" => th'[t].sess = th[t].sess
<1>1. /\ Typed /\ Calling /\ Busy(t) /\ th[t].sess \in 0 .. MaxCalls /\ -1 \in Int
  <2>1. Typed /\ Calling /\ Busy(t)
    BY DEF WinRMInv, Busy, At
  <2>2. th[t].sess \in 0 .. MaxCalls
    BY <2>1 DEF Typed, Thread
  <2>3. -1 \in Int
    BY NoStatus
  <2> QED
    BY <2>1, <2>2, <2>3
<1>2. CASE th[t].op = "connect"
  <2>1. Stops(t, th[t].held, "done", -1)
    BY <1>1, <1>2, EndStops DEF Connected
  <2> QED
    BY <2>1 DEF Stops
<1>3. CASE th[t].op = "runspace"
  <2>1. Stops(t, th[t].sess, "done", -1)
    BY <1>1, <1>3, EndsStops DEF Connected
  <2> QED
    BY <2>1 DEF Stops
<1>4. CASE th[t].op \notin {"connect", "runspace"}
  <2> DEFINE pc == IF At(t, "connect") \/ At(t, "opening") THEN "connect again" ELSE "pipeline"
  <2>1. Goes(t, pc) /\ UNCHANGED outcome
    BY <1>4 DEF Connected
  <2>2. pc \in {"connect again", "pipeline"} /\ pc \in Places \ {"idle", "session"}
    BY DEF Places
  <2> HIDE DEF pc
  <2>3. Moves(t) /\ th'[t].at = pc /\ th'[t].sess = th[t].sess /\ th'[t].held = th[t].held
    BY <1>1, <2>1, <2>2, GoesMoves DEF Moves
  <2>4. Others(t) /\ th'[t].at \in {"idle", "connect again", "pipeline"} /\ th'[t].at # "idle"
    BY <2>2, <2>3 DEF Moves
  <2>5. \E s: Moves(t) \/ Stops(t, s, "done", -1)
    BY <2>3
  <2> QED
    BY <2>3, <2>4, <2>5
<1> QED
  BY <1>2, <1>3, <1>4

(* Every step on a session leaves the parts about commands to SessionStep. *)
LEMMA ConnectStep ==
  ASSUME WinRMInv, NEW t \in Threads, Connect(t)
  PROVE  WinRMInv'
<1>1. /\ Typed /\ Counted /\ Calling /\ Placed /\ Ran /\ OneRuns /\ Sent /\ Answers
      /\ Shelled /\ Opening /\ Owned /\ Busy(t)
  BY DEF WinRMInv, Connect, Busy, At
<1> DEFINE s == th[t].sess
<1>2. /\ UNCHANGED <<leg, session, made, open, calls>>
      /\ UNCHANGED <<poolsUp, shells, job, lastExit, refused, strays>>
      /\ th[t].at \in {"connect", "connect again"} /\ lifecycle[s] = Nobody
      /\ ~At(t, "close pool")
  BY DEF Connect, Free, At
<1>3. s \in Calls /\ leg = "psrp" /\ s \in Known /\ th[t].held \in Known /\ 0 \in Known
  BY <1>2, SessionIs DEF OverPSRP, At
<1>4. Known' = Known /\ Kills /\ th[t].at \notin Submitted \cup InShell
  BY <1>1, <1>2, NoneKilled DEF Known, Submitted, InShell
(* The session and its pool, in each outcome. *)
<1>5. /\ pools' \in 0 .. MaxCalls /\ pool' \in [Calls -> 0 .. pools']
      /\ poolsUp' \subseteq 1 .. pools' /\ lifecycle' \in [Calls -> Threads \cup {Nobody}]
      /\ \A k \in Calls: pool[k] # 0 => pool'[k] = pool[k]
      /\ \A k \in Calls: lifecycle[k] # Nobody => lifecycle'[k] = lifecycle[k]
  <2>1. /\ pools \in 0 .. MaxCalls /\ pool \in [Calls -> 0 .. pools]
        /\ poolsUp \subseteq 1 .. pools /\ lifecycle \in [Calls -> Threads \cup {Nobody}]
        /\ MaxCalls \in Nat
    BY <1>1, CallsAre DEF Typed
  <2>2. CASE UNCHANGED <<lifecycle, pool, pools>>
    BY <1>2, <2>1, <2>2
  <2>3. CASE /\ lifecycle' = [lifecycle EXCEPT ![s] = t]
             /\ pools' = (IF pool[s] = 0 THEN pools + 1 ELSE pools)
             /\ pools' \in Calls
             /\ pool' = [pool EXCEPT ![s] = IF @ = 0 THEN pools' ELSE @]
    <3>1. pools' \in 0 .. MaxCalls /\ pools <= pools' /\ pools' \in Nat /\ pools \in Nat
      BY <2>1, <2>3, CallsAre
    <3>2. /\ 0 .. pools \subseteq 0 .. pools' /\ 1 .. pools \subseteq 1 .. pools'
          /\ pools' \in 0 .. pools'
      BY <3>1
    <3>3. pool' \in [Calls -> 0 .. pools']
      BY <2>1, <2>3, <3>2
    <3>4. /\ \A k \in Calls: pool[k] # 0 => pool'[k] = pool[k]
          /\ \A k \in Calls: lifecycle[k] # Nobody => lifecycle'[k] = lifecycle[k]
      BY <1>2, <2>1, <2>3
    <3>5. lifecycle' \in [Calls -> Threads \cup {Nobody}]
      BY <2>1, <2>3
    <3> QED
      BY <1>2, <2>1, <3>1, <3>2, <3>3, <3>4, <3>5
  <2> QED
    BY <2>2, <2>3 DEF Connect
(* The thread. *)
<1>6. /\ \E k: \E how \in {"done", "failed"}: Moves(t) \/ Stops(t, k, how, -1)
      /\ Others(t) /\ th'[t].at \notin Submitted /\ th'[t].at # "session"
      /\ th'[t].at \in OverPSRP => th'[t].sess = s
      /\ th'[t].at \notin OverPywinrm \cup {"relay"}
      /\ th'[t].at \in {"opening", "opening again"} =>
             lifecycle'[s] = t /\ pool'[s] # 0
      /\ th'[t].sess \in {s, 0} /\ th'[t].held \in {s, th[t].held}
  <2>1. CASE open[s] /\ Connected(t)
    BY <1>2, <2>1, ConnectedDoes DEF OverPSRP, OverPywinrm, Submitted
  <2>2. CASE /\ lifecycle' = [lifecycle EXCEPT ![s] = t]
             /\ pools' = (IF pool[s] = 0 THEN pools + 1 ELSE pools)
             /\ pools' \in Calls
             /\ pool' = [pool EXCEPT ![s] = IF @ = 0 THEN pools' ELSE @]
             /\ Goes(t, IF At(t, "connect") THEN "opening" ELSE "opening again")
             /\ UNCHANGED outcome
    <3> DEFINE pc == IF At(t, "connect") THEN "opening" ELSE "opening again"
    <3>1. pc \in {"opening", "opening again"} /\ pc \in Places \ {"idle", "session"} /\ Goes(t, pc)
      BY <2>2 DEF Places
    <3> HIDE DEF pc
    <3>2. Moves(t) /\ th'[t].at = pc /\ th'[t].sess = s /\ th'[t].held = th[t].held
      BY <1>1, <2>2, <3>1, GoesMoves DEF Moves
    <3>3. lifecycle'[s] = t /\ pool'[s] # 0
      <4>1. lifecycle \in [Calls -> Threads \cup {Nobody}] /\ pool \in [Calls -> 0 .. pools]
        BY <1>1 DEF Typed
      <4>2. pools' # 0
        BY <2>2, NoneIsNoCall
      <4> QED
        BY <1>3, <2>2, <4>1, <4>2
    <3> QED
      BY <3>1, <3>2, <3>3 DEF Moves, OverPSRP, OverPywinrm, Submitted
  <2>3. CASE Fails(t)
    <3>1. Stops(t, th[t].held, "failed", -1)
      BY <1>1, <2>3, FailStops
    <3> QED
      BY <3>1 DEF Stops, OverPSRP, OverPywinrm, Submitted
  <2> QED
    BY <2>1, <2>2, <2>3 DEF Connect
<1>7. /\ job' \in [Calls -> Job] /\ outcome' \in [Calls -> Outcome] /\ Others(t)
      /\ Calling' /\ Ran' /\ OneRuns' /\ Sent' /\ Answers' /\ Shelled'
  BY <1>2, <1>4, <1>6, SessionStep
<1>8. Typed'
  BY <1>1, <1>2, <1>5, <1>7 DEF Typed, Others
<1>9. Counted'
  BY <1>1, <1>2, <1>6, CountedKept
<1>10. Placed'
  <2>1. s # 0
    BY <1>3, NoneIsNoCall
  <2> QED
    BY <1>1, <1>2, <1>3, <1>6, <2>1, PlacedKept
<1>11. Opening'
  <2>1. ASSUME NEW u \in Threads, u # t, th[u].at \in {"opening", "opening again"}
        PROVE  /\ lifecycle'[th[u].sess] = lifecycle[th[u].sess]
               /\ pool'[th[u].sess] = pool[th[u].sess]
    <3>1. lifecycle[th[u].sess] = u /\ pool[th[u].sess] # 0 /\ u # Nobody
      <4>1. u # Nobody
        BY CallsAre DEF Nobody
      <4> QED
        BY <1>1, <2>1, <4>1 DEF Opening
    <3>2. th[u].sess \in Calls
      BY <2>1, SessionIs DEF OverPSRP
    <3> QED
      BY <1>5, <3>1, <3>2
  <2>2. th'[t].at \in {"opening", "opening again"} =>
            lifecycle'[th'[t].sess] = t /\ pool'[th'[t].sess] # 0
    BY <1>6 DEF OverPSRP
  <2> QED
    BY <1>1, <1>6, <2>1, <2>2, OpeningKept
<1>12. Owned'
  <2>1. \A p \in poolsUp': \A k \in Calls: pool[k] = p => pool'[k] = p
    <3>1. \A p \in poolsUp: p # 0
      BY <1>1, PoolIs
    <3> QED
      BY <1>2, <1>5, <3>1
  <2>2. th'[t].sess \in Known' /\ th'[t].held \in Known'
    BY <1>3, <1>4, <1>6
  <2> QED
    BY <1>1, <1>2, <1>3, <1>4, <1>6, <2>1, <2>2, OwnedKept
<1> QED
  BY <1>7, <1>8, <1>9, <1>10, <1>11, <1>12 DEF WinRMInv

LEMMA OpenStep ==
  ASSUME WinRMInv, NEW t \in Threads, Open(t)
  PROVE  WinRMInv'
<1>1. /\ Typed /\ Counted /\ Calling /\ Placed /\ Ran /\ OneRuns /\ Sent /\ Answers
      /\ Shelled /\ Opening /\ Owned /\ Busy(t)
  BY DEF WinRMInv, Open, Busy, At
<1> DEFINE s == th[t].sess
<1>2. /\ UNCHANGED <<leg, session, made, pool, calls>>
      /\ UNCHANGED <<pools, shells, job, lastExit, refused, strays>>
      /\ th[t].at \in {"opening", "opening again"}
      /\ lifecycle' = [lifecycle EXCEPT ![s] = Nobody] /\ ~At(t, "close pool")
  BY DEF Open, At
<1>3. s \in Calls /\ leg = "psrp" /\ s \in Known /\ th[t].held \in Known /\ 0 \in Known
  BY <1>2, SessionIs DEF OverPSRP, At
<1>4. Known' = Known /\ Kills /\ th[t].at \notin Submitted \cup InShell
  BY <1>1, <1>2, NoneKilled DEF Known, Submitted, InShell
<1>5. lifecycle[s] = t /\ pool[s] # 0 /\ pool[s] \in 1 .. pools
  <2>1. lifecycle[s] = t /\ pool[s] # 0
    BY <1>1, <1>2 DEF Opening
  <2>2. pool[s] \in 0 .. pools /\ pools \in Int
    BY <1>1, <1>3, CallsAre DEF Typed
  <2> QED
    BY <2>1, <2>2
<1>6. /\ lifecycle' \in [Calls -> Threads \cup {Nobody}]
      /\ open' \in [Calls -> BOOLEAN] /\ poolsUp' \subseteq 1 .. pools
      /\ \A p \in poolsUp': p \in poolsUp \/ p = pool[s]
  <2>1. /\ lifecycle \in [Calls -> Threads \cup {Nobody}] /\ open \in [Calls -> BOOLEAN]
        /\ poolsUp \subseteq 1 .. pools
    BY <1>1 DEF Typed
  <2>2. lifecycle' \in [Calls -> Threads \cup {Nobody}]
    BY <1>2, <2>1
  <2>3. CASE open' = [open EXCEPT ![s] = TRUE] /\ poolsUp' = poolsUp \cup {pool[s]}
    BY <1>5, <2>1, <2>2, <2>3
  <2>4. CASE poolsUp' \in {poolsUp, poolsUp \cup {pool[s]}} /\ UNCHANGED open
    BY <1>5, <2>1, <2>2, <2>4
  <2> QED
    BY <2>3, <2>4 DEF Open
<1>7. /\ \E k: \E how \in {"done", "failed"}: Moves(t) \/ Stops(t, k, how, -1)
      /\ Others(t) /\ th'[t].at \in {"idle", "connect again", "pipeline"}
      /\ th'[t].at # "idle" => th'[t].sess = s
      /\ th'[t].sess \in {s, 0} /\ th'[t].held \in {s, th[t].held}
  <2>1. CASE Connected(t)
    BY <1>2, <2>1, ConnectedDoes
  <2>2. CASE Fails(t)
    <3>1. Stops(t, th[t].held, "failed", -1)
      BY <1>1, <2>2, FailStops
    <3> QED
      BY <3>1 DEF Stops
  <2> QED
    BY <2>1, <2>2 DEF Open
<1>8. /\ job' \in [Calls -> Job] /\ outcome' \in [Calls -> Outcome] /\ Others(t)
      /\ Calling' /\ Ran' /\ OneRuns' /\ Sent' /\ Answers' /\ Shelled'
  <2>1. th'[t].at \notin Submitted
    BY <1>7 DEF Submitted
  <2> QED
    BY <1>2, <1>4, <1>7, <2>1, SessionStep
<1>9. Typed'
  BY <1>1, <1>2, <1>6, <1>8 DEF Typed, Others
<1>10. Counted'
  BY <1>1, <1>2, <1>7, CountedKept
<1>11. Placed'
  <2>1. s # 0
    BY <1>3, NoneIsNoCall
  <2> QED
    BY <1>1, <1>2, <1>3, <1>7, <2>1, PlacedKept DEF OverPSRP, OverPywinrm
<1>12. Opening'
  <2>1. ASSUME NEW u \in Threads, u # t, th[u].at \in {"opening", "opening again"}
        PROVE  /\ lifecycle'[th[u].sess] = lifecycle[th[u].sess]
               /\ pool'[th[u].sess] = pool[th[u].sess]
    <3>1. lifecycle[th[u].sess] = u
      BY <1>1, <2>1 DEF Opening
    <3>2. th[u].sess # s
      BY <1>5, <2>1, <3>1
    <3>3. lifecycle \in [Calls -> Threads \cup {Nobody}] /\ th[u].sess \in Calls
      BY <1>1, <2>1, SessionIs DEF OverPSRP, Typed
    <3> QED
      BY <1>2, <3>2, <3>3
  <2> QED
    BY <1>1, <1>7, <2>1, OpeningKept
<1>13. Owned'
  <2>1. th'[t].sess \in Known' /\ th'[t].held \in Known' /\ s \in Known'
    BY <1>3, <1>4, <1>7
  <2>2. \A p \in poolsUp': \/ p \in poolsUp
                           \/ \E k \in Calls: pool'[k] = p /\ k \in Known'
    BY <1>2, <1>3, <1>6, <2>1
  <2> QED
    BY <1>1, <1>2, <1>3, <1>4, <1>7, <2>1, <2>2, OwnedKept
<1> QED
  BY <1>8, <1>9, <1>10, <1>11, <1>12, <1>13 DEF WinRMInv

(* A close takes the session from the leg, and makes a stray of one in use. *)
LEMMA CloseStep ==
  ASSUME WinRMInv, NEW t \in Threads, Close(t)
  PROVE  WinRMInv'
<1>1. /\ Typed /\ Counted /\ Calling /\ Placed /\ Ran /\ OneRuns /\ Sent /\ Answers
      /\ Shelled /\ Opening /\ Owned /\ Busy(t)
  BY DEF WinRMInv, Close, Busy, At
<1>2. /\ UNCHANGED <<leg, made, pool, open, lifecycle, calls>>
      /\ UNCHANGED <<pools, poolsUp, shells, job, lastExit, refused>>
      /\ At(t, "close") /\ session' = 0
      /\ strays' = strays \cup
             {s \in {session} \ {0}: \E u \in Threads: th[u].sess = s \/ th[u].held = s}
  BY DEF Close, server
<1>3. /\ Kills /\ th[t].at \notin Submitted \cup InShell /\ ~At(t, "close pool")
      /\ session \in 0 .. MaxCalls /\ -1 \in Int
  <2>1. Kills
    BY <1>1, <1>2, NoneKilled
  <2>2. session \in 0 .. MaxCalls
    <3>1. session \in 0 .. made /\ made \in 0 .. MaxCalls /\ MaxCalls \in Nat
      BY <1>1, CallsAre DEF Typed
    <3> QED
      BY <3>1
  <2> QED
    BY <1>2, <2>1, <2>2 DEF Submitted, InShell, At
<1>4. /\ Moves(t) \/ Stops(t, th[t].held, "done", -1)
      /\ Others(t) /\ th'[t].at \in {"idle", "close pool"}
      /\ th'[t].at = "close pool" => leg = "psrp" /\ session # 0 /\ th'[t].sess = session
      /\ th'[t].at = "idle" => th'[t].sess = 0 /\ (leg # "psrp" \/ session = 0)
      /\ th'[t].held = th[t].held
  <2>1. CASE leg = "psrp" /\ session # 0
    <3>1. /\ th' = [th EXCEPT ![t] = [th[t] EXCEPT !.at = "close pool", !.sess = session]]
          /\ UNCHANGED outcome
      BY <1>1, <2>1 DEF Close, Typed
    <3>2. th[t] \in Thread /\ "close pool" \in Places /\ th \in [Threads -> Thread]
      BY <1>1 DEF Typed, Places
    <3>3. [th[t] EXCEPT !.at = "close pool", !.sess = session] \in Thread
      BY <1>3, <3>2 DEF Thread
    <3>4. Others(t) /\ th'[t] = [th[t] EXCEPT !.at = "close pool", !.sess = session]
      BY <3>1, <3>2, <3>3 DEF Others
    <3>5. /\ th'[t].at = "close pool" /\ th'[t].sess = session /\ th'[t].held = th[t].held
          /\ th'[t].call = th[t].call
      BY <3>2, <3>4 DEF Thread
    <3> QED
      BY <1>1, <2>1, <3>1, <3>4, <3>5 DEF Moves, My
  <2>2. CASE ~(leg = "psrp" /\ session # 0)
    <3>1. Ends(t, "done", -1)
      BY <2>2 DEF Close
    <3>2. Stops(t, th[t].held, "done", -1)
      BY <1>1, <1>3, <3>1, EndStops
    <3> QED
      BY <2>2, <3>2 DEF Stops
  <2> QED
    BY <2>1, <2>2
<1>5. /\ job' \in [Calls -> Job] /\ outcome' \in [Calls -> Outcome] /\ Others(t)
      /\ Calling' /\ Ran' /\ OneRuns' /\ Sent' /\ Answers' /\ Shelled'
  <2>1. th'[t].at \notin Submitted
    BY <1>4 DEF Submitted
  <2> QED
    BY <1>2, <1>3, <1>4, <2>1, SessionStep
<1>6. Typed'
  <2>1. session' \in 0 .. made'
    BY <1>1, <1>2 DEF Typed
  <2> QED
    BY <1>1, <1>2, <1>5, <2>1 DEF Typed, Others
<1>7. Counted'
  BY <1>1, <1>2, <1>4, CountedKept
<1>8. Placed'
  BY <1>1, <1>2, <1>4, PlacedKept DEF OverPSRP, OverPywinrm
<1>9. Opening'
  BY <1>1, <1>2, <1>4, OpeningKept
(* The threads that knew the session know a stray. *)
<1>10. \A u \in Threads: /\ th[u].held \in Known'
                         /\ ~At(u, "close pool") => th[u].sess \in Known'
  <2> SUFFICES ASSUME NEW u \in Threads, NEW k \in Known, th[u].sess = k \/ th[u].held = k
               PROVE  k \in Known'
    BY <1>1 DEF Owned
  <2>1. CASE k = 0 \/ k \in strays
    BY <1>2, <2>1 DEF Known
  <2>2. CASE k # 0 /\ k = session
    BY <1>2, <2>2 DEF Known
  <2> QED
    BY <2>1, <2>2 DEF Known
<1>11. Owned'
  <2>1. poolsUp' # {} => leg' = "psrp"
    BY <1>1, <1>2 DEF Owned
  <2>2. \A u \in Threads: /\ th'[u].held \in Known'
                          /\ ~At(u, "close pool")' => th'[u].sess \in Known'
    <3>1. 0 \in Known'
      BY <1>2 DEF Known
    <3>2. ASSUME NEW u \in Threads
          PROVE  /\ th'[u].held \in Known'
                 /\ ~At(u, "close pool")' => th'[u].sess \in Known'
      <4>1. CASE u = t
        BY <1>4, <1>10, <3>1, <4>1 DEF At
      <4>2. CASE u # t
        BY <1>4, <1>10, <4>2 DEF Others, At
      <4> QED
        BY <4>1, <4>2
    <3> QED
      BY <3>2
  <2>3. ASSUME NEW p \in poolsUp'
        PROVE  \/ <<"pool", p>> \in refused'
               \/ \E s \in Calls: /\ pool'[s] = p
                                  /\ \/ s = session' \/ s \in strays'
                                     \/ \E u \in Threads: At(u, "close pool")' /\ th'[u].sess = s
    <3>1. p \in poolsUp /\ leg = "psrp"
      BY <1>1, <1>2, <2>3 DEF Owned
    <3>2. CASE <<"pool", p>> \in refused
      BY <1>2, <3>2
    <3>3. CASE <<"pool", p>> \notin refused
      <4>1. PICK s \in Calls: /\ pool[s] = p
                              /\ \/ s = session \/ s \in strays
                                 \/ \E u \in Threads: At(u, "close pool") /\ th[u].sess = s
        BY <1>1, <3>1, <3>3 DEF Owned, PoolsOwned
      <4>2. pool'[s] = p /\ s # 0
        BY <1>2, <4>1, NoneIsNoCall
      <4>3. CASE s = session
        <5>1. At(t, "close pool")' /\ th'[t].sess = s
          BY <1>4, <3>1, <4>2, <4>3 DEF At
        <5> QED
          BY <4>2, <5>1
      <4>4. CASE s \in strays
        BY <1>2, <4>2, <4>4
      <4>5. ASSUME NEW u \in Threads, At(u, "close pool"), th[u].sess = s
            PROVE  At(u, "close pool")' /\ th'[u].sess = s
        BY <1>3, <1>4, <4>5 DEF Others, At
      <4> QED
        BY <4>1, <4>2, <4>3, <4>4, <4>5
    <3> QED
      BY <3>2, <3>3
  <2> QED
    BY <2>1, <2>2, <2>3 DEF Owned, PoolsOwned
<1> QED
  BY <1>5, <1>6, <1>7, <1>8, <1>9, <1>11 DEF WinRMInv

(* Closing a pool ends the pipelines in it. *)
LEMMA PoolGone ==
  ASSUME Typed, NEW p \in Nat, job' = Gone(p)
  PROVE  Kills
<1>1. ASSUME NEW n \in Calls
      PROVE  /\ job'[n] \in Job
             /\ \/ job'[n] = job[n]
                \/ /\ job[n].st \in {"queued", "running"} /\ job'[n].st = "killed"
                   /\ job'[n].pool = job[n].pool /\ job'[n].marks = job[n].marks
                   /\ job'[n].script = job[n].script /\ job'[n].capture = job[n].capture
  <2>1. job[n] \in Job /\ "killed" \in States
    BY DEF Typed, States
  <2>2. CASE job[n].pool = p /\ job[n].st \in {"queued", "running"}
    <3>1. job'[n] = [job[n] EXCEPT !.st = "killed"]
      BY <2>2 DEF Gone
    <3> QED
      BY <2>1, <2>2, <3>1 DEF Job
  <2>3. CASE ~(job[n].pool = p /\ job[n].st \in {"queued", "running"})
    BY <2>1, <2>3 DEF Gone
  <2> QED
    BY <2>2, <2>3
<1>2. job' \in [Calls -> Job]
  <2>1. job' = [n \in Calls |-> job'[n]]
    BY DEF Gone
  <2> QED
    BY <1>1, <2>1
<1> QED
  BY <1>1, <1>2 DEF Kills

LEMMA ClosePoolStep ==
  ASSUME WinRMInv, NEW t \in Threads, ClosePool(t)
  PROVE  WinRMInv'
<1>1. /\ Typed /\ Counted /\ Calling /\ Placed /\ Ran /\ OneRuns /\ Sent /\ Answers
      /\ Shelled /\ Opening /\ Owned /\ Busy(t)
  BY DEF WinRMInv, ClosePool, Busy, At
<1> DEFINE s == th[t].sess
           p == pool[s]
<1>2. /\ UNCHANGED <<leg, session, made, lifecycle, calls>>
      /\ UNCHANGED <<pools, shells, lastExit, strays>>
      /\ At(t, "close pool") /\ lifecycle[s] = Nobody
      /\ open' = [open EXCEPT ![s] = FALSE] /\ pool' = [pool EXCEPT ![s] = 0]
  BY DEF ClosePool, Free
<1>3. s \in Calls /\ leg = "psrp" /\ th[t].held \in Known /\ 0 \in Known
  BY <1>2, SessionIs DEF OverPSRP, At
<1>4. p \in Nat /\ -1 \in Int /\ Known' = Known
  <2>1. pools \in 0 .. MaxCalls /\ MaxCalls \in Nat /\ p \in 0 .. pools
    BY <1>1, <1>3, CallsAre DEF Typed
  <2>2. p \in Nat /\ -1 \in Int
    BY <2>1
  <2> QED
    BY <1>2, <2>2 DEF Known
<1>5. /\ open' \in [Calls -> BOOLEAN] /\ pool' \in [Calls -> 0 .. pools'] /\ pool'[s] = 0
      /\ \A k \in Calls: k # s => pool'[k] = pool[k]
  <2>1. /\ open \in [Calls -> BOOLEAN] /\ pool \in [Calls -> 0 .. pools] /\ 0 \in 0 .. pools
    BY <1>1, CallsAre DEF Typed
  <2> QED
    BY <1>2, <1>3, <2>1
<1>6. /\ Kills /\ refused \subseteq refused' /\ poolsUp' \subseteq poolsUp
      /\ p \in poolsUp' => <<"pool", p>> \in refused'
      /\ \E how \in {"done", "failed"}: Stops(t, th[t].held, how, -1)
  <2>1. CASE /\ poolsUp' = poolsUp \ {p} /\ job' = (IF p = 0 THEN job ELSE Gone(p))
             /\ Ends(t, "done", -1) /\ UNCHANGED refused
    <3>1. Stops(t, th[t].held, "done", -1)
      BY <1>1, <1>4, <2>1, EndStops
    <3>2. CASE p = 0
      BY <1>1, <2>1, <3>1, <3>2, NoneKilled
    <3>3. CASE p # 0
      BY <1>1, <1>4, <2>1, <3>1, <3>3, PoolGone
    <3> QED
      BY <3>2, <3>3
  <2>2. CASE /\ Fails(t) /\ refused' = refused \cup {<<"pool", p>>}
             /\ UNCHANGED <<poolsUp, job>>
    <3>1. Stops(t, th[t].held, "failed", -1) /\ Kills
      BY <1>1, <2>2, FailStops, NoneKilled
    <3> QED
      BY <2>2, <3>1
  <2>3. \/ /\ poolsUp' = poolsUp \ {p} /\ job' = (IF p = 0 THEN job ELSE Gone(p))
           /\ Ends(t, "done", -1) /\ UNCHANGED refused
        \/ /\ Fails(t) /\ refused' = refused \cup {<<"pool", p>>}
           /\ UNCHANGED <<poolsUp, job>>
    BY DEF ClosePool
  <2> QED
    BY <2>1, <2>2, <2>3
<1>7. th'[t].at = "idle" /\ th'[t].sess = 0 /\ th'[t].held = th[t].held /\ Others(t)
  BY <1>6 DEF Stops
<1>8. /\ job' \in [Calls -> Job] /\ outcome' \in [Calls -> Outcome] /\ Others(t)
      /\ Calling' /\ Ran' /\ OneRuns' /\ Sent' /\ Answers' /\ Shelled'
  <2>1. th'[t].at \notin Submitted /\ th[t].at \notin Submitted \cup InShell
    BY <1>2, <1>7 DEF Submitted, InShell, At
  <2> QED
    BY <1>2, <1>6, <2>1, SessionStep
<1>9. Typed'
  <2>1. poolsUp' \subseteq 1 .. pools'
    BY <1>1, <1>2, <1>6 DEF Typed
  <2> QED
    BY <1>1, <1>2, <1>5, <1>8, <2>1 DEF Typed, Others
<1>10. Counted'
  BY <1>1, <1>2, <1>7, CountedKept
<1>11. Placed'
  BY <1>1, <1>2, <1>7, PlacedKept DEF OverPSRP, OverPywinrm
<1>12. Opening'
  <2>1. ASSUME NEW u \in Threads, u # t, th[u].at \in {"opening", "opening again"}
        PROVE  pool'[th[u].sess] = pool[th[u].sess]
    <3>1. lifecycle[th[u].sess] = u /\ u # Nobody
      <4>1. u # Nobody
        BY CallsAre DEF Nobody
      <4> QED
        BY <1>1, <2>1, <4>1 DEF Opening
    <3>2. th[u].sess \in Calls /\ th[u].sess # s
      BY <1>2, <2>1, <3>1, SessionIs DEF OverPSRP
    <3> QED
      BY <1>5, <3>2
  <2> QED
    BY <1>1, <1>2, <1>7, <2>1, OpeningKept
<1>13. Owned'
  <2>1. poolsUp' # {} => leg = "psrp"
    BY <1>3
  <2>2. \A q \in poolsUp: \A k \in Calls: pool[k] = q /\ q \in poolsUp' =>
            \/ pool'[k] = q /\ (At(t, "close pool") => th[t].sess # k)
            \/ <<"pool", q>> \in refused'
    BY <1>5, <1>6
  <2> QED
    BY <1>1, <1>2, <1>3, <1>4, <1>6, <1>7, <2>1, <2>2, OwnedKept
<1> QED
  BY <1>8, <1>9, <1>10, <1>11, <1>12, <1>13 DEF WinRMInv

-----------------------------------------------------------------------------
LEMMA InvInit ==
  ASSUME Init
  PROVE  WinRMInv
<1>1. MaxCalls \in Nat /\ Threads = {1, 2} /\ 0 \in 0 .. MaxCalls /\ 0 \in Nat /\ -1 \in Int
  BY CallsAre
<1>2. Idle \in Thread
  <2>1. "none" \in Operations /\ "idle" \in Places /\ "ok" \in Sources
    BY DEF Operations, Places, Sources
  <2> QED
    BY <1>1, <2>1 DEF Idle, Thread
<1>3. NoJob \in Job /\ NoJob.st = "none" /\ NoJob.pool = 0 /\ NoJob.marks = {}
  BY <1>1 DEF NoJob, Job, States, Sources
<1>4. [how |-> "none", status |-> -1] \in Outcome
  BY <1>1 DEF Outcome
<1>5. /\ \A t \in Threads: th[t] = Idle
      /\ \A n \in Calls: job[n] = NoJob /\ outcome[n].how = "none"
      /\ th \in [Threads -> Thread] /\ job \in [Calls -> Job] /\ outcome \in [Calls -> Outcome]
  BY <1>2, <1>3, <1>4 DEF Init
<1>6. \A t \in Threads: /\ th[t].at = "idle" /\ th[t].sess = 0 /\ th[t].held = 0
                        /\ ~Busy(t)
  BY <1>5 DEF Idle, Busy, At
<1>7. Typed
  <2>1. 0 \in 0 .. 0
    OBVIOUS
  <2> QED
    BY <1>1, <1>5, <2>1 DEF Init, Typed
<1>8. Counted
  <2>1. Building(1) = 0 /\ Building(2) = 0
    BY <1>1, <1>6 DEF Building, At
  <2> QED
    BY <2>1 DEF Counted, Init
<1>9. Calling
  BY <1>3, <1>5, <1>6 DEF Calling, New, Init
<1>10. Placed /\ Opening
  BY <1>6 DEF Placed, Opening, OverPSRP, OverPywinrm
<1>11. Ran /\ OneRuns /\ Answers
  BY <1>3, <1>5 DEF Ran, OneRuns, Answers
<1>12. Sent /\ Shelled
  BY <1>6 DEF Sent, Shelled, Busy, At, Init
<1>13. Owned
  BY <1>6 DEF Owned, PoolsOwned, Known, Init
<1> QED
  BY <1>7, <1>8, <1>9, <1>10, <1>11, <1>12, <1>13 DEF WinRMInv

LEMMA InvNext ==
  ASSUME WinRMInv, [Next]_vars
  PROVE  WinRMInv'
<1>0. ASSUME UNCHANGED vars PROVE WinRMInv'
  <2>1. /\ UNCHANGED <<leg, session, made, pool, open, lifecycle, calls, th>>
        /\ UNCHANGED <<pools, poolsUp, shells, job, lastExit, outcome, refused, strays>>
    BY <1>0 DEF vars, client, server, history
  <2>2. /\ Typed' /\ Counted' /\ Calling' /\ Placed'
    BY <2>1 DEF WinRMInv, Typed, Counted, Building, Calling, New, Placed, At, Busy, My
  <2>3. Ran' /\ OneRuns' /\ Sent' /\ Answers'
    BY <2>1 DEF WinRMInv, Ran, Said, OneRuns, Sent, Answers, Over, At, Busy, My
  <2>4. Shelled' /\ Opening'
    BY <2>1 DEF WinRMInv, Shelled, Opening, At, Busy, My
  <2>5. Owned'
    <3>1. Owned
      BY DEF WinRMInv
    <3>2. Known' = Known /\ \A u \in Threads: At(u, "close pool")' = At(u, "close pool")
      BY <2>1 DEF Known, At
    <3>3. PoolsOwned'
      <4> SUFFICES ASSUME NEW p \in poolsUp'
                   PROVE  \/ <<"pool", p>> \in refused'
                          \/ \E s \in Calls:
                                /\ pool'[s] = p
                                /\ \/ s = session' \/ s \in strays'
                                   \/ \E u \in Threads: At(u, "close pool")' /\ th'[u].sess = s
        BY DEF PoolsOwned
      <4>1. \/ <<"pool", p>> \in refused
            \/ \E s \in Calls: /\ pool[s] = p
                               /\ \/ s = session \/ s \in strays
                                  \/ \E u \in Threads: At(u, "close pool") /\ th[u].sess = s
        BY <2>1, <3>1 DEF Owned, PoolsOwned
      <4> QED
        BY <2>1, <3>2, <4>1
    <3> QED
      BY <2>1, <3>1, <3>2, <3>3 DEF Owned
  <2> QED
    BY <2>2, <2>3, <2>4, <2>5 DEF WinRMInv
<1>1. ASSUME NEW t \in Threads, Step(t) PROVE WinRMInv'
  <2>1. CASE Expired(t)
    <3>1. At(t, "poll") /\ UNCHANGED <<client, server, refused, strays>>
      BY <2>1 DEF Expired
    <3>2. IF leg = "pywinrm" THEN ToCleanup(t, "orphaned") /\ UNCHANGED outcome
          ELSE Ends(t, "orphaned", -1)
      BY <2>1 DEF Expired, StopAsked
    <3> QED
      BY <3>1, <3>2, GivesUp
  <2> QED
    BY <1>1, <2>1, SessionBuilt, BuildFailsStep, ConnectStep, OpenStep, CloseStep,
       ClosePoolStep, PipelineStep, RelayStep, ShellStep, CommandIssued, SendStep,
       AnsweredStep, CleanupStep DEF Step
<1>2. ASSUME NEW t \in Threads, PollFails(t) PROVE WinRMInv'
  <2>1. At(t, "poll") /\ UNCHANGED <<client, server, refused, strays>>
    BY <1>2 DEF PollFails
  <2>2. IF leg = "pywinrm" THEN ToCleanup(t, "failed") /\ UNCHANGED outcome
        ELSE Ends(t, "failed", -1)
    BY <1>2 DEF PollFails, Fails
  <2> QED
    BY <2>1, <2>2, GivesUp
<1>3. ASSUME NEW t \in Threads, NEW op \in {"connect", "runspace", "close"},
             Begin(t, op, "ok", FALSE, FALSE)
      PROVE  WinRMInv'
  <2>1. op \in Operations \ {"none"} /\ "ok" \in Sources
    BY DEF Operations, Sources
  <2> QED
    BY <1>3, <2>1, BeginStep
<1>4. ASSUME NEW t \in Threads, NEW script \in Scripts[leg], NEW limit \in BOOLEAN,
             \/ \E capture \in BOOLEAN: Begin(t, "invoke", script, limit, capture)
             \/ Begin(t, "run", script, limit, TRUE)
      PROVE  WinRMInv'
  <2>1. script \in Sources
    <3>1. leg \in Legs
      BY DEF WinRMInv, Typed
    <3> QED
      BY <3>1, WinRMAssumption DEF WinRMAssumption, Scripts, Sources
  <2>2. "invoke" \in Operations \ {"none"} /\ "run" \in Operations \ {"none"}
    BY DEF Operations
  <2> QED
    BY <1>4, <2>1, <2>2, BeginStep
<1> QED
  BY <1>0, <1>1, <1>2, <1>3, <1>4, StartStep, FinishStep DEF Next

LEMMA OneOpens ==
  ASSUME WinRMInv, NEW s \in Calls
  PROVE  Cardinality({t \in Threads: th[t].sess = s
                                     /\ th[t].at \in {"opening", "opening again"}}) <= 1
<1> DEFINE opening == {t \in Threads: th[t].sess = s /\ th[t].at \in {"opening", "opening again"}}
<1>1. \A t, u \in opening: t = u
  BY DEF WinRMInv, Opening
<1> HIDE DEF opening
<1>2. Cardinality(opening) <= 1
  <2>1. CASE opening = {}
    <3>1. Cardinality(opening) = 0
      BY <2>1, FS_EmptySet
    <3> QED
      BY <3>1
  <2>2. CASE opening # {}
    <3>1. PICK t \in opening: opening = {t}
      BY <1>1, <2>2
    <3>2. Cardinality(opening) = 1
      BY <3>1, FS_Singleton
    <3> QED
      BY <3>2
  <2> QED
    BY <2>1, <2>2
<1> QED
  BY <1>2 DEF opening

-----------------------------------------------------------------------------
LEMMA InvHolds == Spec => []WinRMInv
<1>1. Init => WinRMInv
  BY InvInit
<1>2. WinRMInv /\ [Next]_vars => WinRMInv'
  BY InvNext
<1> QED
  BY <1>1, <1>2, PTL DEF Spec

(* A run answers what its own command did: the status is that command's,   *)
(* whatever an earlier one left in the runspace or it printed itself; what *)
(* may go on was reported so; a shell is left only when its deletion       *)
(* failed or nobody was told of its opening; and one thread at a time      *)
(* opens a session.                                                        *)
THEOREM RunsAreHonest == Spec => []HonestRuns
<1>1. ASSUME WinRMInv PROVE HonestRuns
  <2>1. Typed /\ Answers /\ Shelled
    BY <1>1 DEF WinRMInv
  <2>2. TypeOK
    <3>1. \A s \in Calls: Cardinality({t \in Threads: th[t].sess = s
                                           /\ th[t].at \in {"opening", "opening again"}}) <= 1
      BY <1>1, OneOpens
    <3>2. pool \in [Calls -> 0 .. MaxCalls]
      <4>1. pool \in [Calls -> 0 .. pools] /\ pools \in 0 .. MaxCalls /\ MaxCalls \in Nat
        BY <2>1, CallsAre DEF Typed
      <4>2. 0 .. pools \subseteq 0 .. MaxCalls
        BY <4>1
      <4> QED
        BY <4>1, <4>2
    <3> QED
      BY <2>1, <3>1, <3>2 DEF Typed, TypeOK
  <2>3. OwnStatus
    BY <2>1 DEF Answers, OwnStatus
  <2>4. Honest
    <3> SUFFICES ASSUME NEW n \in Calls, outcome[n].how # "none"
                 PROVE  /\ job[n].st \in {"queued", "running"} =>
                               outcome[n].how \in {"orphaned", "failed"}
                        /\ n \in shells => Excused(n, refused)
      BY DEF Honest, Excused
    <3>1. outcome[n].how \in {"done", "failed", "orphaned"}
      BY <2>1 DEF Typed, Outcome
    <3> QED
      BY <2>1, <3>1 DEF Answers, Shelled
  <2> QED
    BY <2>2, <2>3, <2>4 DEF HonestRuns
<1> QED
  BY <1>1, InvHolds, PTL

(* Whatever the interleaving of connects, runs and closes, an open pool is *)
(* one that a `close` reaches, unless closing it failed or its session was *)
(* closed under a thread that was using it.                                *)
THEOREM PoolsAreOwned == Spec => []PoolsOwned
<1>1. WinRMInv => PoolsOwned
  BY DEF WinRMInv, Owned
<1> QED
  BY <1>1, InvHolds, PTL

=============================================================================
