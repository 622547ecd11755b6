----------------------- MODULE ConsoleExecutorProofs -----------------------
(***************************************************************************)
(* What ConsoleExecutor promises for any threads making any number of      *)
(* calls, over a stream whose writes fail but do not decline: no stream of *)
(* the code refuses a write once it is open.                               *)
(***************************************************************************)
EXTENDS ConsoleExecutor, TLAPS

(* Where a call may be.                                                    *)
Places == {"idle", "waiting", "opening", "preparing", "typing", "receiving", "collecting",
           "stopping", "interrupting", "releasing"}

(* The places of a call that holds the terminal, and of one that may.      *)
Holding == {"opening", "preparing", "typing", "receiving", "interrupting", "releasing"}
Ending == {"stopping", "interrupting", "releasing"}

(* One call at a time holds the terminal, and says that it has started     *)
(* once it has begun to type.                                              *)
Held ==
    /\ \A t \in Threads: pc[t] \in Holding => running = t
    /\ running # Nobody => pc[running] \in Holding \cup {"stopping"}
    /\ started => running # Nobody
    /\ \A t \in Threads: pc[t] \in {"opening", "preparing", "typing"} => ~started

(* What a call is about to raise; one that declines has not started.       *)
Judged == \A t \in Threads:
    /\ pc[t] \in Ending => verdict[t] # "done"
    /\ pc[t] \in Ending /\ running = t /\ verdict[t] = "declined" => ~started
    /\ pc[t] = "stopping" /\ running # t => verdict[t] = "failed" \/ Command(t) \notin alive

(* Commands are of calls that were made.                                   *)
Numbered == \A c \in alive \cup settled: c[2] <= calls[c[1]]

(* A call in progress has not said that its command is over.               *)
Unsaid == \A t \in Threads: pc[t] # "idle" => calls[t] >= 1 /\ Command(t) \notin settled

(* Until a call has typed its command, or when it has its status, the      *)
(* command is not running.                                                 *)
Untyped == \A t \in Threads:
    \/ pc[t] \in {"waiting", "opening", "preparing", "typing", "collecting"}
    \/ running = t /\ ~started
    => Command(t) \notin alive

(* A session that was dropped runs nothing until the terminal is let go.   *)
Dropped == \A t \in Threads: pc[t] = "releasing" /\ drops => alive = {}

ExecutorInv == TypeOK /\ Held /\ Judged /\ Numbered /\ Unsaid /\ Untyped /\ Dropped /\ SettledIsOver

-----------------------------------------------------------------------------
(* The command of a call is one of the commands.                           *)
LEMMA CommandIs ==
  ASSUME TypeOK, Unsaid, NEW t \in Threads, pc[t] # "idle"
  PROVE  Command(t) \in Commands
<1>1. t \in Threads /\ calls[t] \in 0 .. MaxCalls /\ calls[t] >= 1
  BY DEF TypeOK, Unsaid
<1>2. calls[t] \in 1 .. MaxCalls
  <2>1. MaxCalls \in Nat
    BY ExecutorAssumption DEF ExecutorAssumption
  <2> QED
    BY <1>1, <2>1
<1> QED
  BY <1>2 DEF Command, Commands

LEMMA NumberedGrows ==
  ASSUME TypeOK, Numbered, NEW t \in Threads, UNCHANGED calls,
         alive' \cup settled' \subseteq alive \cup settled \cup {Command(t)}
  PROVE  Numbered'
<1>1. Command(t)[1] = t /\ Command(t)[2] = calls[t] /\ calls[t] \in Int
  BY DEF Command, TypeOK
<1>2. Command(t)[2] <= calls[Command(t)[1]]
  BY <1>1
<1> QED
  BY <1>2 DEF Numbered

(* The command of the next call is none that ran. *)
LEMMA NextIsNew ==
  ASSUME TypeOK, Numbered, NEW t \in Threads
  PROVE  <<t, calls[t] + 1>> \notin alive \cup settled
<1>1. calls[t] \in Int
  BY DEF TypeOK
<1> QED
  BY <1>1 DEF Numbered

(* One more call. *)
LEMMA CallCounts ==
  ASSUME TypeOK, NEW t \in Threads, NEW deadline \in BOOLEAN, Call(t, deadline)
  PROVE  /\ calls' \in [Threads -> 0 .. MaxCalls] /\ calls'[t] = calls[t] + 1
         /\ \A u \in Threads: calls'[u] >= calls[u]
         /\ \A u \in Threads \ {t}: calls'[u] = calls[u]
<1>1. MaxCalls \in Nat
  BY ExecutorAssumption DEF ExecutorAssumption
<1>2. /\ calls \in [Threads -> 0 .. MaxCalls] /\ calls[t] < MaxCalls
      /\ calls' = [calls EXCEPT ![t] = @ + 1]
  BY DEF TypeOK, Call
<1> QED
  BY <1>1, <1>2

LEMMA LeaveOK ==
  ASSUME TypeOK, NEW t \in Threads, NEW outcome, Leave(t, outcome), Command(t) \in Commands
  PROVE  /\ pc' \in [Threads -> Places] /\ timed' \subseteq Threads
         /\ verdict' \in [Threads -> {"done", "declined", "failed", "expired"}]
         /\ settled' \subseteq Commands
<1>1. pc' \in [Threads -> Places]
  BY DEF TypeOK, Leave, Goto, Places
<1>2. verdict' \in [Threads -> {"done", "declined", "failed", "expired"}]
  BY DEF TypeOK, Leave
<1>3. timed' \subseteq Threads /\ settled' \subseteq Commands
  BY DEF TypeOK, Leave
<1> QED
  BY <1>1, <1>2, <1>3

(* Every step keeps the types. *)
LEMMA TypeStep ==
  ASSUME TypeOK, Unsaid, WriteErrors \subseteq {"failed"}, [Next]_vars
  PROVE  TypeOK'
<1>0. ASSUME UNCHANGED vars PROVE TypeOK'
  BY <1>0 DEF vars, TypeOK, Places
<1> SUFFICES ASSUME NEW t \in Threads,
                    \/ \E deadline \in BOOLEAN: Call(t, deadline)
                    \/ Step(t) \/ Fail(t)
                    \/ \E n \in 1 .. MaxCalls: CommandEnds(<<t, n>>)
             PROVE  TypeOK'
  BY <1>0 DEF Next
<1>1. ASSUME NEW deadline \in BOOLEAN, Call(t, deadline) PROVE TypeOK'
  <2>1. pc' \in [Threads -> Places] /\ timed' \subseteq Threads
    BY <1>1 DEF Call, Goto, TypeOK, Places
  <2> QED
    BY <1>1, <2>1, CallCounts DEF Call, TypeOK, Places
<1>2. ASSUME Hold(t) PROVE TypeOK'
  BY <1>2, ExecutorAssumption DEF Hold, Goto, TypeOK, Places
<1>3. ASSUME WaitExpires(t) PROVE TypeOK'
  BY <1>3, ExecutorAssumption DEF WaitExpires, Goto, TypeOK, Places
<1>4. ASSUME Open(t) PROVE TypeOK'
  BY <1>4, ExecutorAssumption DEF Open, Goto, TypeOK, Places
<1>5. ASSUME NEW outcome \in {"declined", "failed"}, OpenFails(t, outcome)
      PROVE  TypeOK'
  BY <1>5, CommandIs, LeaveOK, ExecutorAssumption DEF OpenFails, Free, TypeOK,
     Places
<1>6. ASSUME Prepare(t) PROVE TypeOK'
  BY <1>6, ExecutorAssumption DEF Prepare, Goto, TypeOK, Places
<1>7. ASSUME NEW outcome \in {"declined", "failed", "expired"}, PrepareFails(t, outcome)
      PROVE  TypeOK'
  BY <1>7, ExecutorAssumption DEF PrepareFails, Goto, TypeOK, Places
<1>8. ASSUME Type(t) PROVE TypeOK'
  BY <1>8, ExecutorAssumption, CommandIs DEF Type, Goto, TypeOK, Places
<1>9. ASSUME NEW error \in WriteErrors, NEW partly \in BOOLEAN, TypeFails(t, error, partly)
      PROVE  TypeOK'
  BY <1>9, ExecutorAssumption, CommandIs DEF TypeFails, Goto, TypeOK, Places
<1>10. ASSUME NEW n \in 1 .. MaxCalls, CommandEnds(<<t, n>>) PROVE TypeOK'
  BY <1>10, ExecutorAssumption DEF CommandEnds, TypeOK, Places
<1>11. ASSUME Receive(t) PROVE TypeOK'
  BY <1>11, ExecutorAssumption DEF Receive, Free, Goto, TypeOK, Places
<1>12. ASSUME Collect(t) PROVE TypeOK'
  BY <1>12, CommandIs, LeaveOK, ExecutorAssumption DEF Collect, TypeOK, Places
<1>13. ASSUME CollectFails(t) PROVE TypeOK'
  BY <1>13, ExecutorAssumption DEF CollectFails, Goto, TypeOK, Places
<1>14. ASSUME NEW error \in ReadErrors, ReceiveFails(t, error) PROVE TypeOK'
  BY <1>14, ExecutorAssumption DEF ReceiveFails, Goto, TypeOK, Places
<1>15. ASSUME Expire(t) PROVE TypeOK'
  BY <1>15, ExecutorAssumption DEF Expire, Goto, TypeOK, Places
<1>16. ASSUME Stop(t) PROVE TypeOK'
  <2>1. CASE running = t
    BY <1>16, <2>1 DEF Stop, Goto, TypeOK
  <2>2. CASE running # t
    BY <1>16, <2>2, CommandIs, LeaveOK DEF Stop, TypeOK, Places
  <2> QED
    BY <2>1, <2>2
<1>17. ASSUME NEW heeding \in SUBSET alive, Interrupt(t, heeding) PROVE TypeOK'
  BY <1>17, ExecutorAssumption DEF Interrupt, Goto, TypeOK, Places
<1>18. ASSUME Release(t) PROVE TypeOK'
  BY <1>18, CommandIs, LeaveOK, ExecutorAssumption DEF Release, Free, Orphaned,
     TypeOK, Places
<1> QED
  BY <1>1, <1>2, <1>3, <1>4, <1>5, <1>6, <1>7, <1>8, <1>9, <1>10, <1>11, <1>12,
     <1>13, <1>14, <1>15, <1>16, <1>17, <1>18 DEF Step, Fail

(* The terminal goes from one call to another. *)
LEMMA HeldStep ==
  ASSUME TypeOK, Held, WriteErrors \subseteq {"failed"}, [Next]_vars
  PROVE  Held'
<1>0. ASSUME UNCHANGED vars PROVE Held'
  BY <1>0 DEF vars, TypeOK, Held, Holding
<1> SUFFICES ASSUME NEW t \in Threads,
                    \/ \E deadline \in BOOLEAN: Call(t, deadline)
                    \/ Step(t) \/ Fail(t)
                    \/ \E n \in 1 .. MaxCalls: CommandEnds(<<t, n>>)
             PROVE  Held'
  BY <1>0 DEF Next
<1>1. ASSUME NEW deadline \in BOOLEAN, Call(t, deadline) PROVE Held'
  BY <1>1, ExecutorAssumption DEF Call, Goto, TypeOK, Held, Holding
<1>2. ASSUME Hold(t) PROVE Held'
  BY <1>2, ExecutorAssumption DEF Hold, Goto, TypeOK, Held, Holding
<1>3. ASSUME WaitExpires(t) PROVE Held'
  BY <1>3, ExecutorAssumption DEF WaitExpires, Goto, TypeOK, Held, Holding
<1>4. ASSUME Open(t) PROVE Held'
  BY <1>4, ExecutorAssumption DEF Open, Goto, TypeOK, Held, Holding
<1>5. ASSUME NEW outcome \in {"declined", "failed"}, OpenFails(t, outcome)
      PROVE  Held'
  BY <1>5, ExecutorAssumption DEF OpenFails, Free, Leave, Goto, TypeOK, Held,
     Holding
<1>6. ASSUME Prepare(t) PROVE Held'
  BY <1>6, ExecutorAssumption DEF Prepare, Goto, TypeOK, Held, Holding
<1>7. ASSUME NEW outcome \in {"declined", "failed", "expired"}, PrepareFails(t, outcome)
      PROVE  Held'
  BY <1>7, ExecutorAssumption DEF PrepareFails, Goto, TypeOK, Held, Holding
<1>8. ASSUME Type(t) PROVE Held'
  BY <1>8, ExecutorAssumption DEF Type, Goto, TypeOK, Held, Holding
<1>9. ASSUME NEW error \in WriteErrors, NEW partly \in BOOLEAN, TypeFails(t, error, partly)
      PROVE  Held'
  BY <1>9, ExecutorAssumption DEF TypeFails, Goto, TypeOK, Held, Holding
<1>10. ASSUME NEW n \in 1 .. MaxCalls, CommandEnds(<<t, n>>) PROVE Held'
  BY <1>10, ExecutorAssumption DEF CommandEnds, TypeOK, Held, Holding
<1>11. ASSUME Receive(t) PROVE Held'
  BY <1>11, ExecutorAssumption DEF Receive, Free, Goto, TypeOK, Held, Holding
<1>12. ASSUME Collect(t) PROVE Held'
  BY <1>12, ExecutorAssumption DEF Collect, Leave, Goto, TypeOK, Held, Holding
<1>13. ASSUME CollectFails(t) PROVE Held'
  BY <1>13, ExecutorAssumption DEF CollectFails, Goto, TypeOK, Held, Holding
<1>14. ASSUME NEW error \in ReadErrors, ReceiveFails(t, error) PROVE Held'
  BY <1>14, ExecutorAssumption DEF ReceiveFails, Goto, TypeOK, Held, Holding
<1>15. ASSUME Expire(t) PROVE Held'
  BY <1>15, ExecutorAssumption DEF Expire, Goto, TypeOK, Held, Holding
<1>16. ASSUME Stop(t) PROVE Held'
  BY <1>16, ExecutorAssumption DEF Stop, Leave, Goto, TypeOK, Held, Holding
<1>17. ASSUME NEW heeding \in SUBSET alive, Interrupt(t, heeding) PROVE Held'
  BY <1>17, ExecutorAssumption DEF Interrupt, Goto, TypeOK, Held, Holding
<1>18. ASSUME Release(t) PROVE Held'
  BY <1>18, ExecutorAssumption DEF Release, Free, Leave, Orphaned, Goto, TypeOK,
     Held, Holding
<1> QED
  BY <1>1, <1>2, <1>3, <1>4, <1>5, <1>6, <1>7, <1>8, <1>9, <1>10, <1>11, <1>12,
     <1>13, <1>14, <1>15, <1>16, <1>17, <1>18 DEF Step, Fail

(* What a call raises is what it knows. *)
LEMMA JudgedStep ==
  ASSUME TypeOK, Held, Judged, Numbered, Unsaid, Untyped, WriteErrors \subseteq {"failed"}, [Next]_vars
  PROVE  Judged'
<1>0. ASSUME UNCHANGED vars PROVE Judged'
  BY <1>0 DEF vars, TypeOK, Held, Holding, Judged, Ending, Untyped, Command
<1> SUFFICES ASSUME NEW t \in Threads,
                    \/ \E deadline \in BOOLEAN: Call(t, deadline)
                    \/ Step(t) \/ Fail(t)
                    \/ \E n \in 1 .. MaxCalls: CommandEnds(<<t, n>>)
             PROVE  Judged'
  BY <1>0 DEF Next
<1>1. ASSUME NEW deadline \in BOOLEAN, Call(t, deadline) PROVE Judged'
  BY <1>1, ExecutorAssumption DEF Call, Goto, TypeOK, Held, Holding, Judged,
     Ending, Untyped, Command
<1>2. ASSUME Hold(t) PROVE Judged'
  BY <1>2, ExecutorAssumption DEF Hold, Goto, TypeOK, Held, Holding, Judged,
     Ending, Untyped, Command
<1>3. ASSUME WaitExpires(t) PROVE Judged'
  BY <1>3, ExecutorAssumption DEF WaitExpires, Goto, TypeOK, Held, Holding,
     Judged, Ending, Untyped, Command
<1>4. ASSUME Open(t) PROVE Judged'
  BY <1>4, ExecutorAssumption DEF Open, Goto, TypeOK, Held, Holding, Judged,
     Ending, Untyped, Command
<1>5. ASSUME NEW outcome \in {"declined", "failed"}, OpenFails(t, outcome)
      PROVE  Judged'
  BY <1>5, ExecutorAssumption DEF OpenFails, Free, Leave, Goto, TypeOK, Held,
     Holding, Judged, Ending, Untyped, Command
<1>6. ASSUME Prepare(t) PROVE Judged'
  BY <1>6, ExecutorAssumption DEF Prepare, Goto, TypeOK, Held, Holding, Judged,
     Ending, Untyped, Command
<1>7. ASSUME NEW outcome \in {"declined", "failed", "expired"}, PrepareFails(t, outcome)
      PROVE  Judged'
  BY <1>7, ExecutorAssumption DEF PrepareFails, Goto, TypeOK, Held, Holding,
     Judged, Ending, Untyped, Command
<1>8. ASSUME Type(t) PROVE Judged'
  BY <1>8, ExecutorAssumption DEF Type, Goto, TypeOK, Held, Holding, Judged,
     Ending, Untyped, Command
<1>9. ASSUME NEW error \in WriteErrors, NEW partly \in BOOLEAN, TypeFails(t, error, partly)
      PROVE  Judged'
  BY <1>9, ExecutorAssumption DEF TypeFails, Goto, TypeOK, Held, Holding,
     Judged, Ending, Untyped, Command
<1>10. ASSUME NEW n \in 1 .. MaxCalls, CommandEnds(<<t, n>>) PROVE Judged'
  BY <1>10, ExecutorAssumption DEF CommandEnds, TypeOK, Held, Holding, Judged,
     Ending, Untyped, Command
<1>11. ASSUME Receive(t) PROVE Judged'
  BY <1>11, ExecutorAssumption DEF Receive, Free, Goto, TypeOK, Held, Holding,
     Judged, Ending, Untyped, Command
<1>12. ASSUME Collect(t) PROVE Judged'
  BY <1>12, ExecutorAssumption DEF Collect, Leave, Goto, TypeOK, Held, Holding,
     Judged, Ending, Untyped, Command
<1>13. ASSUME CollectFails(t) PROVE Judged'
  BY <1>13, ExecutorAssumption DEF CollectFails, Goto, TypeOK, Held, Holding,
     Judged, Ending, Untyped, Command
<1>14. ASSUME NEW error \in ReadErrors, ReceiveFails(t, error) PROVE Judged'
  BY <1>14, ExecutorAssumption DEF ReceiveFails, Goto, TypeOK, Held, Holding,
     Judged, Ending, Untyped, Command
<1>15. ASSUME Expire(t) PROVE Judged'
  BY <1>15, ExecutorAssumption DEF Expire, Goto, TypeOK, Held, Holding, Judged,
     Ending, Untyped, Command
<1>16. ASSUME Stop(t) PROVE Judged'
  BY <1>16, ExecutorAssumption DEF Stop, Leave, Goto, TypeOK, Held, Holding,
     Judged, Ending, Untyped, Command
<1>17. ASSUME NEW heeding \in SUBSET alive, Interrupt(t, heeding) PROVE Judged'
  BY <1>17, ExecutorAssumption DEF Interrupt, Goto, TypeOK, Held, Holding,
     Judged, Ending, Untyped, Command
<1>18. ASSUME Release(t) PROVE Judged'
  BY <1>18, ExecutorAssumption DEF Release, Free, Leave, Orphaned, Goto, TypeOK,
     Held, Holding, Judged, Ending, Untyped, Command
<1> QED
  BY <1>1, <1>2, <1>3, <1>4, <1>5, <1>6, <1>7, <1>8, <1>9, <1>10, <1>11, <1>12,
     <1>13, <1>14, <1>15, <1>16, <1>17, <1>18 DEF Step, Fail

(* Only a call that was made is typed, or said to be over. *)
LEMMA NumberedStep ==
  ASSUME TypeOK, Unsaid, Numbered, WriteErrors \subseteq {"failed"}, [Next]_vars
  PROVE  Numbered'
<1>0. ASSUME UNCHANGED vars PROVE Numbered'
  BY <1>0 DEF vars, Numbered
<1> SUFFICES ASSUME NEW t \in Threads,
                    \/ \E deadline \in BOOLEAN: Call(t, deadline)
                    \/ Step(t) \/ Fail(t)
                    \/ \E n \in 1 .. MaxCalls: CommandEnds(<<t, n>>)
             PROVE  Numbered'
  BY <1>0 DEF Next
<1>1. ASSUME NEW deadline \in BOOLEAN, Call(t, deadline) PROVE Numbered'
  <2>1. UNCHANGED <<alive, settled>>
    BY <1>1 DEF Call
  <2>2. \A c \in alive \cup settled: c[1] \in Threads
    BY DEF TypeOK, Commands
  <2>3. \A u \in Threads: calls[u] \in Int /\ calls'[u] \in Int
    BY <1>1, CallCounts DEF TypeOK
  <2>4. \A c \in alive \cup settled: c[2] \in Int
    BY DEF TypeOK, Commands
  <2> QED
    BY <1>1, <2>1, <2>2, <2>3, <2>4, CallCounts DEF Numbered
<1>2. ASSUME Hold(t) PROVE Numbered'
  BY <1>2, NumberedGrows DEF Hold
<1>3. ASSUME WaitExpires(t) PROVE Numbered'
  BY <1>3, NumberedGrows DEF WaitExpires
<1>4. ASSUME Open(t) PROVE Numbered'
  BY <1>4, NumberedGrows DEF Open
<1>5. ASSUME NEW outcome \in {"declined", "failed"}, OpenFails(t, outcome)
      PROVE  Numbered'
  BY <1>5, NumberedGrows DEF OpenFails, Leave
<1>6. ASSUME Prepare(t) PROVE Numbered'
  BY <1>6, NumberedGrows DEF Prepare
<1>7. ASSUME NEW outcome \in {"declined", "failed", "expired"}, PrepareFails(t, outcome)
      PROVE  Numbered'
  BY <1>7, NumberedGrows DEF PrepareFails
<1>8. ASSUME Type(t) PROVE Numbered'
  BY <1>8, NumberedGrows DEF Type
<1>9. ASSUME NEW error \in WriteErrors, NEW partly \in BOOLEAN, TypeFails(t, error, partly)
      PROVE  Numbered'
  BY <1>9, NumberedGrows DEF TypeFails
<1>10. ASSUME NEW n \in 1 .. MaxCalls, CommandEnds(<<t, n>>) PROVE Numbered'
  BY <1>10 DEF CommandEnds, Numbered
<1>11. ASSUME Receive(t) PROVE Numbered'
  BY <1>11, NumberedGrows DEF Receive
<1>12. ASSUME Collect(t) PROVE Numbered'
  BY <1>12, NumberedGrows DEF Collect, Leave
<1>13. ASSUME CollectFails(t) PROVE Numbered'
  BY <1>13, NumberedGrows DEF CollectFails
<1>14. ASSUME NEW error \in ReadErrors, ReceiveFails(t, error) PROVE Numbered'
  BY <1>14, NumberedGrows DEF ReceiveFails
<1>15. ASSUME Expire(t) PROVE Numbered'
  BY <1>15, NumberedGrows DEF Expire
<1>16. ASSUME Stop(t) PROVE Numbered'
  BY <1>16, NumberedGrows DEF Stop, Leave
<1>17. ASSUME NEW heeding \in SUBSET alive, Interrupt(t, heeding)
      PROVE  Numbered'
  BY <1>17, NumberedGrows DEF Interrupt
<1>18. ASSUME Release(t) PROVE Numbered'
  BY <1>18, NumberedGrows DEF Release, Leave
<1> QED
  BY <1>1, <1>2, <1>3, <1>4, <1>5, <1>6, <1>7, <1>8, <1>9, <1>10, <1>11, <1>12,
     <1>13, <1>14, <1>15, <1>16, <1>17, <1>18 DEF Step, Fail

(* Only the end of a call says that its command is over. *)
LEMMA UnsaidStep ==
  ASSUME TypeOK, Unsaid, Numbered, WriteErrors \subseteq {"failed"}, [Next]_vars
  PROVE  Unsaid'
<1>0. ASSUME UNCHANGED vars PROVE Unsaid'
  BY <1>0 DEF vars, TypeOK, Unsaid, Numbered, Command
<1> SUFFICES ASSUME NEW t \in Threads,
                    \/ \E deadline \in BOOLEAN: Call(t, deadline)
                    \/ Step(t) \/ Fail(t)
                    \/ \E n \in 1 .. MaxCalls: CommandEnds(<<t, n>>)
             PROVE  Unsaid'
  BY <1>0 DEF Next
<1>1. ASSUME NEW deadline \in BOOLEAN, Call(t, deadline) PROVE Unsaid'
  <2>1. UNCHANGED settled /\ \A u \in Threads \ {t}: pc'[u] = pc[u]
    BY <1>1 DEF Call, Goto, TypeOK
  <2>2. calls'[t] >= 1 /\ Command(t)' \notin settled
    <3>1. calls[t] \in Nat
      <4>1. calls[t] \in 0 .. MaxCalls
        BY DEF TypeOK
      <4> QED
        BY <4>1
    <3> QED
      BY <1>1, <3>1, CallCounts, NextIsNew DEF Command
  <2> QED
    BY <1>1, <2>1, <2>2, CallCounts DEF Unsaid, Command
<1>2. ASSUME Hold(t) PROVE Unsaid'
  BY <1>2, ExecutorAssumption DEF Hold, Goto, TypeOK, Unsaid, Numbered, Command
<1>3. ASSUME WaitExpires(t) PROVE Unsaid'
  BY <1>3, ExecutorAssumption DEF WaitExpires, Goto, TypeOK, Unsaid, Numbered,
     Command
<1>4. ASSUME Open(t) PROVE Unsaid'
  BY <1>4, ExecutorAssumption DEF Open, Goto, TypeOK, Unsaid, Numbered, Command
<1>5. ASSUME NEW outcome \in {"declined", "failed"}, OpenFails(t, outcome)
      PROVE  Unsaid'
  BY <1>5, ExecutorAssumption DEF OpenFails, Free, Leave, Goto, TypeOK, Unsaid,
     Numbered, Command
<1>6. ASSUME Prepare(t) PROVE Unsaid'
  BY <1>6, ExecutorAssumption DEF Prepare, Goto, TypeOK, Unsaid, Numbered, Command
<1>7. ASSUME NEW outcome \in {"declined", "failed", "expired"}, PrepareFails(t, outcome)
      PROVE  Unsaid'
  BY <1>7, ExecutorAssumption DEF PrepareFails, Goto, TypeOK, Unsaid, Numbered,
     Command
<1>8. ASSUME Type(t) PROVE Unsaid'
  BY <1>8, ExecutorAssumption DEF Type, Goto, TypeOK, Unsaid, Numbered, Command
<1>9. ASSUME NEW error \in WriteErrors, NEW partly \in BOOLEAN, TypeFails(t, error, partly)
      PROVE  Unsaid'
  BY <1>9, ExecutorAssumption DEF TypeFails, Goto, TypeOK, Unsaid, Numbered, Command
<1>10. ASSUME NEW n \in 1 .. MaxCalls, CommandEnds(<<t, n>>) PROVE Unsaid'
  BY <1>10, ExecutorAssumption DEF CommandEnds, TypeOK, Unsaid, Numbered, Command
<1>11. ASSUME Receive(t) PROVE Unsaid'
  BY <1>11, ExecutorAssumption DEF Receive, Free, Goto, TypeOK, Unsaid,
     Numbered, Command
<1>12. ASSUME Collect(t) PROVE Unsaid'
  BY <1>12, ExecutorAssumption DEF Collect, Leave, Goto, TypeOK, Unsaid,
     Numbered, Command
<1>13. ASSUME CollectFails(t) PROVE Unsaid'
  BY <1>13, ExecutorAssumption DEF CollectFails, Goto, TypeOK, Unsaid, Numbered,
     Command
<1>14. ASSUME NEW error \in ReadErrors, ReceiveFails(t, error) PROVE Unsaid'
  BY <1>14, ExecutorAssumption DEF ReceiveFails, Goto, TypeOK, Unsaid, Numbered,
     Command
<1>15. ASSUME Expire(t) PROVE Unsaid'
  BY <1>15, ExecutorAssumption DEF Expire, Goto, TypeOK, Unsaid, Numbered, Command
<1>16. ASSUME Stop(t) PROVE Unsaid'
  <2>1. UNCHANGED calls /\ settled' \subseteq settled \cup {Command(t)}
    BY <1>16 DEF Stop, Leave
  <2>2. \A u \in Threads \ {t}: pc'[u] = pc[u] /\ Command(u) # Command(t)
    BY <1>16 DEF Stop, Leave, Goto, TypeOK, Command
  <2>3. pc'[t] # "idle" => UNCHANGED settled /\ pc[t] # "idle"
    BY <1>16 DEF Stop, Leave, Goto, TypeOK
  <2>4. \A u \in Threads: Command(u)' = Command(u)
    BY <2>1 DEF Command
  <2> QED
    BY <2>1, <2>2, <2>3, <2>4 DEF Unsaid
<1>17. ASSUME NEW heeding \in SUBSET alive, Interrupt(t, heeding) PROVE Unsaid'
  BY <1>17, ExecutorAssumption DEF Interrupt, Goto, TypeOK, Unsaid, Numbered,
     Command
<1>18. ASSUME Release(t) PROVE Unsaid'
  BY <1>18, ExecutorAssumption DEF Release, Free, Leave, Orphaned, Goto, TypeOK,
     Unsaid, Numbered, Command
<1> QED
  BY <1>1, <1>2, <1>3, <1>4, <1>5, <1>6, <1>7, <1>8, <1>9, <1>10, <1>11, <1>12,
     <1>13, <1>14, <1>15, <1>16, <1>17, <1>18 DEF Step, Fail

(* Only a call that holds the terminal types. *)
LEMMA UntypedStep ==
  ASSUME TypeOK, Held, Numbered, Untyped, WriteErrors \subseteq {"failed"}, [Next]_vars
  PROVE  Untyped'
<1>0. ASSUME UNCHANGED vars PROVE Untyped'
  BY <1>0 DEF vars, TypeOK, Held, Holding, Untyped, Numbered, Command
<1> SUFFICES ASSUME NEW t \in Threads,
                    \/ \E deadline \in BOOLEAN: Call(t, deadline)
                    \/ Step(t) \/ Fail(t)
                    \/ \E n \in 1 .. MaxCalls: CommandEnds(<<t, n>>)
             PROVE  Untyped'
  BY <1>0 DEF Next
<1>1. ASSUME NEW deadline \in BOOLEAN, Call(t, deadline) PROVE Untyped'
  <2>1. /\ UNCHANGED <<alive, running, started>> /\ \A u \in Threads \ {t}: pc'[u] = pc[u]
        /\ pc[t] = "idle" /\ pc'[t] = "waiting"
    BY <1>1 DEF Call, Goto, TypeOK
  <2>2. Command(t)' \notin alive
    BY <1>1, CallCounts, NextIsNew DEF Command
  <2>3. \A u \in Threads \ {t}: Command(u)' = Command(u)
    BY <1>1, CallCounts DEF Command
  <2> QED
    BY <2>1, <2>2, <2>3 DEF Untyped
<1>2. ASSUME Hold(t) PROVE Untyped'
  BY <1>2, ExecutorAssumption DEF Hold, Goto, TypeOK, Held, Holding, Untyped,
     Numbered, Command
<1>3. ASSUME WaitExpires(t) PROVE Untyped'
  BY <1>3, ExecutorAssumption DEF WaitExpires, Goto, TypeOK, Held, Holding,
     Untyped, Numbered, Command
<1>4. ASSUME Open(t) PROVE Untyped'
  BY <1>4, ExecutorAssumption DEF Open, Goto, TypeOK, Held, Holding, Untyped,
     Numbered, Command
<1>5. ASSUME NEW outcome \in {"declined", "failed"}, OpenFails(t, outcome)
      PROVE  Untyped'
  BY <1>5, ExecutorAssumption DEF OpenFails, Free, Leave, Goto, TypeOK, Held,
     Holding, Untyped, Numbered, Command
<1>6. ASSUME Prepare(t) PROVE Untyped'
  BY <1>6, ExecutorAssumption DEF Prepare, Goto, TypeOK, Held, Holding, Untyped,
     Numbered, Command
<1>7. ASSUME NEW outcome \in {"declined", "failed", "expired"}, PrepareFails(t, outcome)
      PROVE  Untyped'
  BY <1>7, ExecutorAssumption DEF PrepareFails, Goto, TypeOK, Held, Holding,
     Untyped, Numbered, Command
<1>8. ASSUME Type(t) PROVE Untyped'
  BY <1>8, ExecutorAssumption DEF Type, Goto, TypeOK, Held, Holding, Untyped,
     Numbered, Command
<1>9. ASSUME NEW error \in WriteErrors, NEW partly \in BOOLEAN, TypeFails(t, error, partly)
      PROVE  Untyped'
  BY <1>9, ExecutorAssumption DEF TypeFails, Goto, TypeOK, Held, Holding,
     Untyped, Numbered, Command
<1>10. ASSUME NEW n \in 1 .. MaxCalls, CommandEnds(<<t, n>>) PROVE Untyped'
  BY <1>10, ExecutorAssumption DEF CommandEnds, TypeOK, Held, Holding, Untyped,
     Numbered, Command
<1>11. ASSUME Receive(t) PROVE Untyped'
  BY <1>11, ExecutorAssumption DEF Receive, Free, Goto, TypeOK, Held, Holding,
     Untyped, Numbered, Command
<1>12. ASSUME Collect(t) PROVE Untyped'
  BY <1>12, ExecutorAssumption DEF Collect, Leave, Goto, TypeOK, Held, Holding,
     Untyped, Numbered, Command
<1>13. ASSUME CollectFails(t) PROVE Untyped'
  BY <1>13, ExecutorAssumption DEF CollectFails, Goto, TypeOK, Held, Holding,
     Untyped, Numbered, Command
<1>14. ASSUME NEW error \in ReadErrors, ReceiveFails(t, error) PROVE Untyped'
  BY <1>14, ExecutorAssumption DEF ReceiveFails, Goto, TypeOK, Held, Holding,
     Untyped, Numbered, Command
<1>15. ASSUME Expire(t) PROVE Untyped'
  BY <1>15, ExecutorAssumption DEF Expire, Goto, TypeOK, Held, Holding, Untyped,
     Numbered, Command
<1>16. ASSUME Stop(t) PROVE Untyped'
  BY <1>16, ExecutorAssumption DEF Stop, Leave, Goto, TypeOK, Held, Holding,
     Untyped, Numbered, Command
<1>17. ASSUME NEW heeding \in SUBSET alive, Interrupt(t, heeding) PROVE Untyped'
  BY <1>17, ExecutorAssumption DEF Interrupt, Goto, TypeOK, Held, Holding,
     Untyped, Numbered, Command
<1>18. ASSUME Release(t) PROVE Untyped'
  BY <1>18, ExecutorAssumption DEF Release, Free, Leave, Orphaned, Goto, TypeOK,
     Held, Holding, Untyped, Numbered, Command
<1> QED
  BY <1>1, <1>2, <1>3, <1>4, <1>5, <1>6, <1>7, <1>8, <1>9, <1>10, <1>11, <1>12,
     <1>13, <1>14, <1>15, <1>16, <1>17, <1>18 DEF Step, Fail

(* Nobody types into a session that was dropped. *)
LEMMA DroppedStep ==
  ASSUME TypeOK, Held, Dropped, WriteErrors \subseteq {"failed"}, [Next]_vars
  PROVE  Dropped'
<1>0. ASSUME UNCHANGED vars PROVE Dropped'
  BY <1>0 DEF vars, TypeOK, Held, Holding, Dropped
<1> SUFFICES ASSUME NEW t \in Threads,
                    \/ \E deadline \in BOOLEAN: Call(t, deadline)
                    \/ Step(t) \/ Fail(t)
                    \/ \E n \in 1 .. MaxCalls: CommandEnds(<<t, n>>)
             PROVE  Dropped'
  BY <1>0 DEF Next
<1>1. ASSUME NEW deadline \in BOOLEAN, Call(t, deadline) PROVE Dropped'
  BY <1>1, ExecutorAssumption DEF Call, Goto, TypeOK, Held, Holding, Dropped
<1>2. ASSUME Hold(t) PROVE Dropped'
  BY <1>2, ExecutorAssumption DEF Hold, Goto, TypeOK, Held, Holding, Dropped
<1>3. ASSUME WaitExpires(t) PROVE Dropped'
  BY <1>3, ExecutorAssumption DEF WaitExpires, Goto, TypeOK, Held, Holding, Dropped
<1>4. ASSUME Open(t) PROVE Dropped'
  BY <1>4, ExecutorAssumption DEF Open, Goto, TypeOK, Held, Holding, Dropped
<1>5. ASSUME NEW outcome \in {"declined", "failed"}, OpenFails(t, outcome)
      PROVE  Dropped'
  BY <1>5, ExecutorAssumption DEF OpenFails, Free, Leave, Goto, TypeOK, Held,
     Holding, Dropped
<1>6. ASSUME Prepare(t) PROVE Dropped'
  BY <1>6, ExecutorAssumption DEF Prepare, Goto, TypeOK, Held, Holding, Dropped
<1>7. ASSUME NEW outcome \in {"declined", "failed", "expired"}, PrepareFails(t, outcome)
      PROVE  Dropped'
  BY <1>7, ExecutorAssumption DEF PrepareFails, Goto, TypeOK, Held, Holding, Dropped
<1>8. ASSUME Type(t) PROVE Dropped'
  BY <1>8, ExecutorAssumption DEF Type, Goto, TypeOK, Held, Holding, Dropped
<1>9. ASSUME NEW error \in WriteErrors, NEW partly \in BOOLEAN, TypeFails(t, error, partly)
      PROVE  Dropped'
  BY <1>9, ExecutorAssumption DEF TypeFails, Goto, TypeOK, Held, Holding, Dropped
<1>10. ASSUME NEW n \in 1 .. MaxCalls, CommandEnds(<<t, n>>) PROVE Dropped'
  BY <1>10, ExecutorAssumption DEF CommandEnds, TypeOK, Held, Holding, Dropped
<1>11. ASSUME Receive(t) PROVE Dropped'
  BY <1>11, ExecutorAssumption DEF Receive, Free, Goto, TypeOK, Held, Holding,
     Dropped
<1>12. ASSUME Collect(t) PROVE Dropped'
  BY <1>12, ExecutorAssumption DEF Collect, Leave, Goto, TypeOK, Held, Holding,
     Dropped
<1>13. ASSUME CollectFails(t) PROVE Dropped'
  BY <1>13, ExecutorAssumption DEF CollectFails, Goto, TypeOK, Held, Holding,
     Dropped
<1>14. ASSUME NEW error \in ReadErrors, ReceiveFails(t, error) PROVE Dropped'
  BY <1>14, ExecutorAssumption DEF ReceiveFails, Goto, TypeOK, Held, Holding,
     Dropped
<1>15. ASSUME Expire(t) PROVE Dropped'
  BY <1>15, ExecutorAssumption DEF Expire, Goto, TypeOK, Held, Holding, Dropped
<1>16. ASSUME Stop(t) PROVE Dropped'
  BY <1>16, ExecutorAssumption DEF Stop, Leave, Goto, TypeOK, Held, Holding, Dropped
<1>17. ASSUME NEW heeding \in SUBSET alive, Interrupt(t, heeding) PROVE Dropped'
  BY <1>17, ExecutorAssumption DEF Interrupt, Goto, TypeOK, Held, Holding, Dropped
<1>18. ASSUME Release(t) PROVE Dropped'
  BY <1>18, ExecutorAssumption DEF Release, Free, Leave, Orphaned, Goto, TypeOK,
     Held, Holding, Dropped
<1> QED
  BY <1>1, <1>2, <1>3, <1>4, <1>5, <1>6, <1>7, <1>8, <1>9, <1>10, <1>11, <1>12,
     <1>13, <1>14, <1>15, <1>16, <1>17, <1>18 DEF Step, Fail

(* What is said to be over is. *)
LEMMA SettledStep ==
  ASSUME TypeOK, Held, Judged, Numbered, Unsaid, Untyped, Dropped, SettledIsOver, WriteErrors \subseteq {"failed"}, [Next]_vars
  PROVE  SettledIsOver'
<1>0. ASSUME UNCHANGED vars PROVE SettledIsOver'
  BY <1>0 DEF vars, TypeOK, Held, Holding, Judged, Ending, Untyped, Unsaid,
     Dropped, SettledIsOver, Command
<1> SUFFICES ASSUME NEW t \in Threads,
                    \/ \E deadline \in BOOLEAN: Call(t, deadline)
                    \/ Step(t) \/ Fail(t)
                    \/ \E n \in 1 .. MaxCalls: CommandEnds(<<t, n>>)
             PROVE  SettledIsOver'
  BY <1>0 DEF Next
<1>1. ASSUME NEW deadline \in BOOLEAN, Call(t, deadline) PROVE SettledIsOver'
  BY <1>1, ExecutorAssumption DEF Call, Goto, TypeOK, Held, Holding, Judged,
     Ending, Untyped, Unsaid, Dropped, SettledIsOver, Command
<1>2. ASSUME Hold(t) PROVE SettledIsOver'
  BY <1>2, ExecutorAssumption DEF Hold, Goto, TypeOK, Held, Holding, Judged,
     Ending, Untyped, Unsaid, Dropped, SettledIsOver, Command
<1>3. ASSUME WaitExpires(t) PROVE SettledIsOver'
  BY <1>3, ExecutorAssumption DEF WaitExpires, Goto, TypeOK, Held, Holding,
     Judged, Ending, Untyped, Unsaid, Dropped, SettledIsOver, Command
<1>4. ASSUME Open(t) PROVE SettledIsOver'
  BY <1>4, ExecutorAssumption DEF Open, Goto, TypeOK, Held, Holding, Judged,
     Ending, Untyped, Unsaid, Dropped, SettledIsOver, Command
<1>5. ASSUME NEW outcome \in {"declined", "failed"}, OpenFails(t, outcome)
      PROVE  SettledIsOver'
  BY <1>5, ExecutorAssumption DEF OpenFails, Free, Leave, Goto, TypeOK, Held,
     Holding, Judged, Ending, Untyped, Unsaid, Dropped, SettledIsOver, Command
<1>6. ASSUME Prepare(t) PROVE SettledIsOver'
  BY <1>6, ExecutorAssumption DEF Prepare, Goto, TypeOK, Held, Holding, Judged,
     Ending, Untyped, Unsaid, Dropped, SettledIsOver, Command
<1>7. ASSUME NEW outcome \in {"declined", "failed", "expired"}, PrepareFails(t, outcome)
      PROVE  SettledIsOver'
  BY <1>7, ExecutorAssumption DEF PrepareFails, Goto, TypeOK, Held, Holding,
     Judged, Ending, Untyped, Unsaid, Dropped, SettledIsOver, Command
<1>8. ASSUME Type(t) PROVE SettledIsOver'
  BY <1>8, ExecutorAssumption DEF Type, Goto, TypeOK, Held, Holding, Judged,
     Ending, Untyped, Unsaid, Dropped, SettledIsOver, Command
<1>9. ASSUME NEW error \in WriteErrors, NEW partly \in BOOLEAN, TypeFails(t, error, partly)
      PROVE  SettledIsOver'
  BY <1>9, ExecutorAssumption DEF TypeFails, Goto, TypeOK, Held, Holding,
     Judged, Ending, Untyped, Unsaid, Dropped, SettledIsOver, Command
<1>10. ASSUME NEW n \in 1 .. MaxCalls, CommandEnds(<<t, n>>)
      PROVE  SettledIsOver'
  BY <1>10, ExecutorAssumption DEF CommandEnds, TypeOK, Held, Holding, Judged,
     Ending, Untyped, Unsaid, Dropped, SettledIsOver, Command
<1>11. ASSUME Receive(t) PROVE SettledIsOver'
  BY <1>11, ExecutorAssumption DEF Receive, Free, Goto, TypeOK, Held, Holding,
     Judged, Ending, Untyped, Unsaid, Dropped, SettledIsOver, Command
<1>12. ASSUME Collect(t) PROVE SettledIsOver'
  BY <1>12, ExecutorAssumption DEF Collect, Leave, Goto, TypeOK, Held, Holding,
     Judged, Ending, Untyped, Unsaid, Dropped, SettledIsOver, Command
<1>13. ASSUME CollectFails(t) PROVE SettledIsOver'
  BY <1>13, ExecutorAssumption DEF CollectFails, Goto, TypeOK, Held, Holding,
     Judged, Ending, Untyped, Unsaid, Dropped, SettledIsOver, Command
<1>14. ASSUME NEW error \in ReadErrors, ReceiveFails(t, error)
      PROVE  SettledIsOver'
  BY <1>14, ExecutorAssumption DEF ReceiveFails, Goto, TypeOK, Held, Holding,
     Judged, Ending, Untyped, Unsaid, Dropped, SettledIsOver, Command
<1>15. ASSUME Expire(t) PROVE SettledIsOver'
  BY <1>15, ExecutorAssumption DEF Expire, Goto, TypeOK, Held, Holding, Judged,
     Ending, Untyped, Unsaid, Dropped, SettledIsOver, Command
<1>16. ASSUME Stop(t) PROVE SettledIsOver'
  BY <1>16, ExecutorAssumption DEF Stop, Leave, Goto, TypeOK, Held, Holding,
     Judged, Ending, Untyped, Unsaid, Dropped, SettledIsOver, Command
<1>17. ASSUME NEW heeding \in SUBSET alive, Interrupt(t, heeding)
      PROVE  SettledIsOver'
  BY <1>17, ExecutorAssumption DEF Interrupt, Goto, TypeOK, Held, Holding,
     Judged, Ending, Untyped, Unsaid, Dropped, SettledIsOver, Command
<1>18. ASSUME Release(t) PROVE SettledIsOver'
  BY <1>18, ExecutorAssumption DEF Release, Free, Leave, Orphaned, Goto, TypeOK,
     Held, Holding, Judged, Ending, Untyped, Unsaid, Dropped, SettledIsOver,
     Command
<1> QED
  BY <1>1, <1>2, <1>3, <1>4, <1>5, <1>6, <1>7, <1>8, <1>9, <1>10, <1>11, <1>12,
     <1>13, <1>14, <1>15, <1>16, <1>17, <1>18 DEF Step, Fail

(* All of it together. *)
LEMMA InvInit == Init => ExecutorInv
<1> SUFFICES ASSUME Init PROVE ExecutorInv
  OBVIOUS
<1>1. TypeOK
  <2>1. 0 \in 0 .. MaxCalls
    <3>1. MaxCalls \in Nat
      BY ExecutorAssumption DEF ExecutorAssumption
    <3> QED
      BY <3>1
  <2> QED
    BY <2>1 DEF Init, TypeOK
<1>2. Held /\ Judged /\ Numbered /\ Unsaid /\ Untyped /\ Dropped /\ SettledIsOver
  BY ExecutorAssumption
     DEF ExecutorAssumption, Init, Held, Holding, Judged, Ending, Numbered, Unsaid, Untyped,
         Dropped, SettledIsOver
<1> QED
  BY <1>1, <1>2 DEF ExecutorInv

LEMMA InvStep ==
  ASSUME WriteErrors \subseteq {"failed"}
  PROVE  ExecutorInv /\ [Next]_vars => ExecutorInv'
<1> SUFFICES ASSUME ExecutorInv, [Next]_vars PROVE ExecutorInv'
  OBVIOUS
<1>0. /\ TypeOK /\ Held /\ Judged /\ Numbered /\ Unsaid /\ Untyped /\ Dropped /\ SettledIsOver
  BY DEF ExecutorInv
<1>1. TypeOK' /\ Held'
  BY <1>0, TypeStep, HeldStep
<1>2. Numbered' /\ Unsaid' /\ Untyped'
  BY <1>0, NumberedStep, UnsaidStep, UntypedStep
<1>3. Judged' /\ Dropped'
  BY <1>0, JudgedStep, DroppedStep
<1>4. SettledIsOver'
  BY <1>0, SettledStep
<1> QED
  BY <1>1, <1>2, <1>3, <1>4 DEF ExecutorInv

-----------------------------------------------------------------------------
(* A ^C reaches no other call's command, no call keeps the terminal when   *)
(* it is over, and one that declines, or reports no orphan, leaves nothing *)
(* running.                                                                *)
THEOREM ExecutorIsSafe ==
  ASSUME WriteErrors \subseteq {"failed"}
  PROVE  Spec => []ExecutorSafe
<1>1. Init => ExecutorInv
  BY InvInit
<1>2. ExecutorInv /\ [Next]_vars => ExecutorInv'
  BY InvStep
<1>3. ExecutorInv => ExecutorSafe
  <2> SUFFICES ASSUME ExecutorInv PROVE ExecutorSafe
    OBVIOUS
  <2>1. TypeOK /\ SettledIsOver
    BY DEF ExecutorInv
  <2>2. InterruptsOwn
    BY DEF ExecutorInv, Held, Holding, InterruptsOwn
  <2>3. TerminalLetGo
    BY ExecutorAssumption DEF ExecutorAssumption, ExecutorInv, Held, Holding,
       TerminalLetGo
  <2> QED
    BY <2>1, <2>2, <2>3 DEF ExecutorSafe
<1> QED
  BY <1>1, <1>2, <1>3, PTL DEF Spec

=============================================================================
