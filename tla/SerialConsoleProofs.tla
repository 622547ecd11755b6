------------------------ MODULE SerialConsoleProofs ------------------------
(***************************************************************************)
(* What SerialConsole promises whatever the number of threads, ports and   *)
(* calls: its type, that the lease has one holder who will give it back,   *)
(* that no open port is forgotten, and that no command is typed on a port  *)
(* nobody has logged in on.  Each invariant rests on those before it.      *)
(* After them, what is promised of the console of a QEMU guest             *)
(* (QEMUConsole) and of the calls on one serial port (SerialIO), which     *)
(* Consoles takes together.                                                *)
(***************************************************************************)
EXTENDS Consoles, SequenceTheorems, TLAPS

LogsIn == {"connect", "run", "spawn"}

(* Where a thread is says how far the login of its operation has come, and *)
(* whose process it works with.                                            *)
Place(t) ==
    /\ pc[t] \in {"connect", "take", "check", "login"}
           => stage[t] = "login" /\ op[t] \in LogsIn
    /\ pc[t] \in {"acquire", "attach", "takeAgain"}
           => stage[t] # "loggedIn" /\ op[t] \in LogsIn
    /\ pc[t] = "note" => stage[t] = "loggedIn" /\ op[t] \in LogsIn
    /\ pc[t] = "setup" => stage[t] = "use" /\ op[t] = "spawn"
    /\ pc[t] \in {"use", "write"} => stage[t] = "use" /\ op[t] \in {"run", "type"}
    /\ pc[t] \in {"close", "release"} => op[t] \in LogsIn \cup {"closeSession"}
    /\ pc[t] # "idle" /\ stage[t] = "use" => op[t] # "connect"
    /\ stage[t] = "loggedIn" => op[t] \in LogsIn
    /\ op[t] \in {"type", "closeSession"} => stage[t] = "use" /\ t \in session
    /\ op[t] = "spawn" => t \notin session
    /\ pc[t] \in {"drop", "shut"} => seen[t] # NoPort

Places == \A t \in Threads: Place(t)

LEMMA TokenType == \A t \in Threads: Token(t) \in Tokens
  BY DEF Token, Tokens

(* Connecting opens the next port, when the executor has none open. *)
LEMMA ConnectType ==
  ASSUME TypeOK, NEW p \in Ports, Connect(p)
  PROVE  /\ injected' \in BOOLEAN
         /\ serial' = p
         /\ serial = NoPort \/ serial \notin open
         /\ opened' \in 0 .. MaxPorts /\ open' \subseteq Ports
         /\ p = opened + 1 /\ opened' = p /\ open' = open \cup {p}
<1>1. injected' = injected
  BY DEF Connect
<1>2. /\ opened < MaxPorts /\ p = opened + 1
      /\ serial' = p /\ opened' = p /\ open' = open \cup {p}
  BY DEF Connect
<1>3. serial = NoPort \/ serial \notin open
  BY DEF Connect, Connected
<1> QED
  BY <1>1, <1>2, <1>3, ConsoleAssumption DEF TypeOK, Ports

(* A process works on the port it is made on. *)
LEMMA WorksType ==
  ASSUME TypeOK, Places, NEW t \in Threads, NEW p \in Ports \cup {NoPort}, Works(t, p),
         pc[t] \in {"attach", "takeAgain"}
  PROVE  /\ attached' \in [Tokens -> Ports \cup {NoPort}] /\ switched' \subseteq Tokens
         /\ \E where \in {"login", "use", "setup"}: Goto(t, where)
         /\ UNCHANGED <<lease, ended, negotiated, op, stage, port, seen, session, calls,
                        loggedIn, dropped, unclosed, abandoned>>
<1>1. attached' \in [Tokens -> Ports \cup {NoPort}] /\ switched' \subseteq Tokens
  BY TokenType DEF TypeOK, Works
<1>2. \E where \in {"login", "use", "setup"}: Goto(t, where)
  BY DEF TypeOK, Works, Places, Place
<1> QED
  BY <1>1, <1>2 DEF Works

LEMMA TypeStep ==
  ASSUME TypeOK, Places, NEW t \in Threads, Turn(t)
  PROVE  TypeOK'
<1> USE ConsoleAssumption DEF Ports, Tokens, Operations
<1>1. ASSUME NEW o \in Operations, Begin(t, o) PROVE TypeOK'
  BY <1>1 DEF TypeOK, Begin, Goto, ports, processes, history
<1>2. ASSUME NEW p \in Ports, HostConnects(t, p) PROVE TypeOK'
  <2>1. Connect(p)
    BY <1>2 DEF HostConnects
  <2> QED
    BY <1>2, <2>1, ConnectType DEF TypeOK, HostConnects, Goto, processes, history
<1>3. ASSUME NEW p \in Ports, Attach(t, p) PROVE TypeOK'
  <2>1. Connect(p) /\ Works(t, p) /\ pc[t] = "attach"
    BY <1>3 DEF Attach
  <2>2. /\ attached' \in [Tokens -> Ports \cup {NoPort}] /\ switched' \subseteq Tokens
        /\ \E where \in {"login", "use", "setup"}: Goto(t, where)
        /\ UNCHANGED <<lease, ended, negotiated, op, stage, port, seen, session, calls,
                       loggedIn, dropped, unclosed, abandoned>>
    BY <2>1, WorksType
  <2> QED
    BY <2>1, <2>2, ConnectType DEF TypeOK, Goto
<1>4. CASE ConnectFails(t)
  BY <1>4 DEF TypeOK, ConnectFails, Goto, Connected, Leave, ports, processes, history
<1>5. CASE Check(t)
  <2>1. \/ Goto(t, "acquire") /\ UNCHANGED <<op, stage, port, seen>>
        \/ Proceed(t)
    BY <1>5 DEF Check
  <2>2. UNCHANGED <<ports, processes, negotiated, session, calls, history>>
    BY <1>5 DEF Check
  <2> QED
    BY <2>1, <2>2 DEF TypeOK, Goto, Proceed, Leave, ports, processes, history
<1>6. CASE Acquire(t)
  BY <1>6 DEF TypeOK, Acquire, Goto, Token, ports, history
<1>7. CASE Busy(t)
  BY <1>7 DEF TypeOK, Busy, Goto, Leave, ports, processes, history
<1>8. CASE AttachFails(t)
  BY <1>8 DEF TypeOK, AttachFails, Goto, Connected, ports, processes, history
<1>9. CASE Release(t)
  <2>1. ended' \subseteq Tokens /\ lease' \in Tokens \cup {NoToken} /\ session' \subseteq Threads
    BY <1>9, TokenType DEF TypeOK, Release
  <2>2. Proceed(t) \/ Leave(t)
    BY <1>9 DEF Release
  <2>3. UNCHANGED <<ports, attached, negotiated, calls, history>>
    BY <1>9 DEF Release
  <2> QED
    BY <2>1, <2>2, <2>3 DEF TypeOK, Goto, Proceed, Leave, ports, history
<1>10. CASE CloseProcess(t)
  <2>1. session' \subseteq Threads
    BY <1>10 DEF TypeOK, CloseProcess
  <2>2. \/ Goto(t, "release") /\ UNCHANGED <<op, stage, port, seen>>
        \/ Proceed(t)
        \/ Leave(t)
    BY <1>10 DEF CloseProcess
  <2> QED
    BY <1>10, <2>1, <2>2, SMTT(30) DEF TypeOK, CloseProcess, Goto, Proceed, Leave, ports,
       processes, history
<1>11. CASE LogIn(t)
  <2>1. attached[Token(t)] \in Ports
    BY <1>11 DEF TypeOK, LogIn, Usable
  <2> QED
    BY <1>11, <2>1 DEF TypeOK, LogIn, Goto, ports, processes
<1>12. CASE LoginFails(t)
  BY <1>12 DEF TypeOK, LoginFails, Goto, ports, processes, history
<1>13. CASE NoteLogin(t)
  BY <1>13 DEF TypeOK, NoteLogin, Goto, ports, processes, history
<1>14. CASE Spawned(t)
  BY <1>14 DEF TypeOK, Spawned, Goto, Leave, ports, processes, history
<1>15. CASE SetupFails(t)
  BY <1>15 DEF TypeOK, SetupFails, Goto, ports, processes, history
<1>16. CASE RequireOpen(t)
  <2>1. CASE Goto(t, "write") /\ UNCHANGED <<op, stage, port, seen>>
    BY <1>16, <2>1 DEF TypeOK, RequireOpen, Goto, ports, processes, history
  <2>2. CASE Goto(t, "close") /\ UNCHANGED <<op, stage, port, seen>>
    BY <1>16, <2>2 DEF TypeOK, RequireOpen, Goto, ports, processes, history
  <2>3. CASE Leave(t)
    BY <1>16, <2>3 DEF TypeOK, RequireOpen, Goto, Leave, ports, processes, history
  <2> QED
    BY <1>16, <2>1, <2>2, <2>3 DEF RequireOpen, Typed
<1>17. CASE Write(t)
  BY <1>17, SMTT(30) DEF TypeOK, Write, Goto, Typed, Leave, ports, processes, history
<1>18. CASE ReadPort(t)
  BY <1>18 DEF TypeOK, ReadPort, Goto, ports, processes, history
<1>19. CASE Revoke(t)
  BY <1>19, SMTT(30) DEF TypeOK, Revoke, Goto, Leave, ports, history
<1>20. CASE DropPort(t)
  BY <1>20 DEF TypeOK, DropPort, Goto, processes
<1>21. CASE ShutPort(t)
  BY <1>21 DEF TypeOK, ShutPort, Goto, Leave, processes, history
<1>22. CASE SeesPort(t)
  BY <1>22 DEF TypeOK, SeesPort, Goto, ports, processes, history
<1>23. CASE HostTakes(t)
  BY <1>23 DEF TypeOK, HostTakes, Goto, ports, processes, history
<1>24. CASE AttachTaken(t)
  <2>1. /\ Works(t, serial) /\ pc[t] = "takeAgain" /\ serial \in Ports \cup {NoPort}
        /\ UNCHANGED ports
    BY <1>24 DEF AttachTaken, TypeOK
  <2> QED
    BY <2>1, WorksType, ZenonT(30) DEF TypeOK, Goto, ports
<1>25. CASE Unmade(t)
  BY <1>25, TokenType DEF TypeOK, Unmade, Goto, Leave, ports, processes
<1>26. CASE ShutFails(t)
  <2>1. seen[t] \in Ports \/ seen[t] = NoPort
    BY DEF TypeOK
  <2>2. seen[t] # NoPort
    BY <1>26 DEF ShutFails, Places, Place
  <2> QED
    BY <1>26, <2>1, <2>2 DEF TypeOK, ShutFails, Goto, Leave, ports, processes
<1> QED
  BY <1>1, <1>2, <1>3, <1>4, <1>5, <1>6, <1>7, <1>8, <1>9, <1>10, <1>11, <1>12, <1>13,
     <1>14, <1>15, <1>16, <1>17, <1>18, <1>19, <1>20, <1>21, <1>22,
     <1>23, <1>24, <1>25, <1>26 DEF Turn

(* A thread's turn keeps it, and every other thread, in its place. *)
LEMMA PlaceStep ==
  ASSUME TypeOK, Places, NEW t \in Threads, Turn(t), NEW u \in Threads
  PROVE  Place(u)'
<1> USE DEF LogsIn
<1>0. Place(u) /\ Place(t)
  BY DEF Places
<1>1. ASSUME NEW o \in Operations, Begin(t, o) PROVE Place(u)'
  BY <1>0, <1>1 DEF TypeOK, Place, Begin, Operations, Goto, ports, processes, history
<1>2. ASSUME NEW p \in Ports, HostConnects(t, p) PROVE Place(u)'
  BY <1>0, <1>2 DEF TypeOK, Place, HostConnects, Goto, Connect, Connected, processes,
     history
<1>3. ASSUME NEW p \in Ports, Attach(t, p) PROVE Place(u)'
  BY <1>0, <1>3 DEF TypeOK, Place, Attach, Works, Goto
<1>4. CASE ConnectFails(t)
  BY <1>0, <1>4 DEF TypeOK, Place, ConnectFails, Goto, Connected, Leave, ports,
     processes,
     history
<1>5. CASE Check(t)
  BY <1>0, <1>5 DEF TypeOK, Place, Check, Goto, Proceed, Leave, ports, processes,
     history
<1>6. CASE Acquire(t)
  BY <1>0, <1>6 DEF TypeOK, Place, Acquire, Goto, Token, ports, history
<1>7. CASE Busy(t)
  BY <1>0, <1>7 DEF TypeOK, Place, Busy, Goto, Leave, ports, processes, history
<1>8. CASE AttachFails(t)
  BY <1>0, <1>8 DEF TypeOK, Place, AttachFails, Goto, Connected, ports, processes,
     history
<1>9. CASE Release(t)
  BY <1>0, <1>9 DEF TypeOK, Place, Release, Goto, Proceed, Leave, Token, ports, history
<1>10. CASE CloseProcess(t)
  BY <1>0, <1>10 DEF TypeOK, Place, CloseProcess, Goto, Proceed, Leave, Token, ports,
     processes, history
<1>11. CASE LogIn(t)
  BY <1>0, <1>11 DEF TypeOK, Place, LogIn, Goto, Usable, Token, ports, processes
<1>12. CASE LoginFails(t)
  BY <1>0, <1>12 DEF TypeOK, Place, LoginFails, Goto, ports, processes, history
<1>13. CASE NoteLogin(t)
  BY <1>0, <1>13 DEF TypeOK, Place, NoteLogin, Goto, ports, processes, history
<1>14. CASE Spawned(t)
  BY <1>0, <1>14 DEF TypeOK, Place, Spawned, Goto, Leave, ports, processes, history
<1>15. CASE SetupFails(t)
  BY <1>0, <1>15 DEF TypeOK, Place, SetupFails, Goto, ports, processes, history
<1>16. CASE RequireOpen(t)
  BY <1>0, <1>16 DEF TypeOK, Place, RequireOpen, Goto, Usable, Token, Typed, Leave,
     ports,
     processes, history
<1>17. CASE Write(t)
  BY <1>0, <1>17 DEF TypeOK, Place, Write, Goto, Typed, Leave, ports, processes, history
<1>18. CASE ReadPort(t)
  BY <1>0, <1>18 DEF TypeOK, Place, ReadPort, Goto, ports, processes, history
<1>19. CASE Revoke(t)
  BY <1>0, <1>19 DEF TypeOK, Place, Revoke, Goto, Leave, ports, history
<1>20. CASE DropPort(t)
  BY <1>0, <1>20 DEF TypeOK, Place, DropPort, Goto, processes
<1>21. CASE ShutPort(t)
  BY <1>0, <1>21 DEF TypeOK, Place, ShutPort, Goto, Leave, processes, history
<1>22. CASE SeesPort(t)
  BY <1>0, <1>22 DEF TypeOK, Place, SeesPort, Goto
<1>23. CASE HostTakes(t)
  BY <1>0, <1>23 DEF TypeOK, Place, HostTakes, Goto
<1>24. CASE AttachTaken(t)
  BY <1>0, <1>24 DEF TypeOK, Place, AttachTaken, Works, Goto
<1>25. CASE Unmade(t)
  BY <1>0, <1>25 DEF TypeOK, Place, Unmade, Goto, Leave, ports, processes
<1>26. CASE ShutFails(t)
  BY <1>0, <1>26 DEF TypeOK, Place, ShutFails, Goto, Leave, ports, processes
<1> QED
  BY <1>0, <1>1, <1>2, <1>3, <1>4, <1>5, <1>6, <1>7, <1>8, <1>9, <1>10, <1>11,
     <1>12, <1>13,
     <1>14, <1>15, <1>16, <1>17, <1>18, <1>19, <1>20, <1>21, <1>22,
     <1>23, <1>24, <1>25, <1>26 DEF Turn

IndPlaces == TypeOK /\ Places

LEMMA PlacesInvariant == Spec => []IndPlaces
<1>1. Init => IndPlaces
  BY ConsoleAssumption DEF Init, IndPlaces, TypeOK, Places, Place, LogsIn, Ports,
     Tokens,
     Operations
<1>2. IndPlaces /\ [Next]_vars => IndPlaces'
  <2> SUFFICES ASSUME IndPlaces, [Next]_vars PROVE IndPlaces'
    OBVIOUS
  <2>1. CASE UNCHANGED vars
    BY <2>1 DEF IndPlaces, TypeOK, Places, Place, vars, ports, processes, local, history
  <2>2. CASE Next
    BY <2>2, TypeStep, PlaceStep DEF Next, IndPlaces, Places
  <2> QED
    BY <2>1, <2>2
<1> QED
  BY <1>1, <1>2, PTL DEF Spec

THEOREM TypeCorrect == Spec => []TypeOK
<1>1. IndPlaces => TypeOK
  BY DEF IndPlaces
<1> QED
  BY <1>1, PlacesInvariant, PTL

-----------------------------------------------------------------------------
(* The lease's holder has not ended, and is the only one. *)
LeaseLive == lease \in Tokens => lease \notin ended

Leases == LeaseExclusive /\ LeaseLive /\ LeaseAccounted

(* Only three actions touch the lease. *)
LEMMA LeaseKept ==
  ASSUME NEW t \in Threads, Turn(t), ~Acquire(t), ~Release(t), ~Revoke(t)
  PROVE  UNCHANGED <<lease, ended>>
  BY DEF Turn, Begin, HostConnects, SeesPort, HostTakes, Attach, AttachTaken, Works,
     ConnectFails, Check, Busy, AttachFails,
     CloseProcess, LogIn, LoginFails, NoteLogin, Spawned, SetupFails, Unmade, RequireOpen,
     Write, ReadPort, DropPort, ShutPort, ShutFails, processes

LEMMA HolderStep ==
  ASSUME TypeOK, LeaseExclusive, LeaseLive, NEW t \in Threads, Turn(t)
  PROVE  LeaseExclusive' /\ LeaseLive'
<1> USE TokenType, ConsoleAssumption DEF LeaseExclusive, LeaseLive
<1>1. CASE Acquire(t)
  BY <1>1 DEF Acquire, TypeOK
<1>2. CASE Release(t)
  BY <1>2 DEF Release, TypeOK
<1>3. CASE Revoke(t)
  BY <1>3 DEF Revoke, TypeOK
<1>4. CASE ~Acquire(t) /\ ~Release(t) /\ ~Revoke(t)
  BY <1>4, LeaseKept
<1> QED
  BY <1>1, <1>2, <1>3, <1>4

(* The lease of thread u's process is given back. *)
Accounted(u, sort) ==
    lease = <<u, sort>> =>
        \/ sort = "session" /\ u \in session
        \/ /\ pc[u] \in {"attach", "takeAgain", "login", "note", "setup", "use",
                         "write", "close", "release"}
           /\ Token(u) = lease

LEMMA AccountStep ==
  ASSUME TypeOK, Places, LeaseLive, NEW t \in Threads, Turn(t),
         NEW u \in Threads, NEW sort \in {"call", "session"}, Accounted(u, sort)
  PROVE  Accounted(u, sort)' \/ lease' \in abandoned'
<1> USE DEF LogsIn
<1>0. Place(u) /\ Place(t)
  BY DEF Places
<1>1. ASSUME NEW o \in Operations, Begin(t, o) PROVE Accounted(u, sort)'
  BY <1>0, <1>1 DEF TypeOK, Place, Accounted, Token, Begin, Goto, ports, processes,
     history
<1>2. ASSUME NEW p \in Ports, HostConnects(t, p) PROVE Accounted(u, sort)'
  BY <1>0, <1>2 DEF TypeOK, Place, Accounted, Token, HostConnects, Goto, Connect,
     Connected, processes, history
<1>3. ASSUME NEW p \in Ports, Attach(t, p) PROVE Accounted(u, sort)'
  BY <1>0, <1>3 DEF TypeOK, Place, Accounted, Token, Attach, Works, Goto
<1>4. CASE ConnectFails(t)
  BY <1>0, <1>4 DEF TypeOK, Place, Accounted, Token, ConnectFails, Goto, Connected,
     Leave, ports, processes, history
<1>5. CASE Check(t)
  BY <1>0, <1>5 DEF TypeOK, Place, Accounted, Token, Check, Goto, Proceed, Leave,
     ports, processes, history
<1>6. CASE Acquire(t)
  BY <1>0, <1>6 DEF TypeOK, Place, Accounted, Token, Acquire, Goto, ports, history
<1>7. CASE Busy(t)
  BY <1>0, <1>7 DEF TypeOK, Place, Accounted, Token, Busy, Goto, Leave, ports,
     processes, history
<1>8. CASE AttachFails(t)
  BY <1>0, <1>8 DEF TypeOK, Place, Accounted, Token, AttachFails, Goto, Connected,
     ports, processes, history
<1>9. CASE Release(t)
  <2> SUFFICES ASSUME lease' = <<u, sort>> PROVE Accounted(u, sort)'
    BY DEF Accounted
  <2>1. lease = <<u, sort>> /\ lease # Token(t)
    BY <1>9, ConsoleAssumption DEF Release, Tokens
  <2>2. CASE u = t
    <3>1. sort = "session" /\ t \in session /\ op[t] # "closeSession"
      BY <1>0, <2>1, <2>2 DEF Accounted, Place, Token
    <3> QED
      BY <1>9, <2>2, <3>1 DEF Accounted, Release
  <2>3. CASE u # t
    <3>1. UNCHANGED <<pc[u], op[u], stage[u]>>
      BY <1>9, <2>3 DEF TypeOK, Release, Proceed, Leave, Goto
    <3>2. u \in session => u \in session'
      BY <1>9, <2>3 DEF Release
    <3> QED
      BY <2>1, <3>1, <3>2 DEF Accounted, Token
  <2> QED
    BY <2>2, <2>3
<1>10. CASE CloseProcess(t)
  <2>1. CASE Token(t) \notin ended
    BY <1>0, <1>10, <2>1 DEF TypeOK, Place, Accounted, Token, CloseProcess, Goto,
       processes
  <2>2. CASE Token(t) \in ended
    <3>1. lease # Token(t) /\ lease' = lease
      BY <1>10, <2>2, TokenType DEF LeaseLive, CloseProcess, processes
    <3>2. CASE u = t
      <4> SUFFICES ASSUME lease = <<u, sort>>
                   PROVE  sort = "session" /\ u \in session'
        BY <3>1 DEF Accounted
      <4>1. sort = "session" /\ t \in session /\ op[t] # "closeSession"
        BY <1>0, <3>1, <3>2 DEF Accounted, Place, Token
      <4> QED
        BY <1>10, <2>2, <3>2, <4>1 DEF CloseProcess
    <3>3. CASE u # t
      <4>1. UNCHANGED <<pc[u], op[u], stage[u]>>
        BY <1>10, <2>2, <3>3 DEF TypeOK, CloseProcess, Proceed, Leave, Goto
      <4>2. u \in session => u \in session'
        BY <1>10, <2>2, <3>3 DEF CloseProcess
      <4> QED
        BY <3>1, <4>1, <4>2 DEF Accounted, Token
    <3> QED
      BY <3>2, <3>3
  <2> QED
    BY <2>1, <2>2
<1>11. CASE LogIn(t)
  BY <1>0, <1>11 DEF TypeOK, Place, Accounted, Token, LogIn, Goto, Usable, ports,
     processes
<1>12. CASE LoginFails(t)
  BY <1>0, <1>12 DEF TypeOK, Place, Accounted, Token, LoginFails, Goto, ports,
     processes, history
<1>13. CASE NoteLogin(t)
  BY <1>0, <1>13 DEF TypeOK, Place, Accounted, Token, NoteLogin, Goto, ports,
     processes, history
<1>14. CASE Spawned(t)
  BY <1>0, <1>14 DEF TypeOK, Place, Accounted, Token, Spawned, Goto, Leave, ports,
     processes, history
<1>15. CASE SetupFails(t)
  BY <1>0, <1>15 DEF TypeOK, Place, Accounted, Token, SetupFails, Goto, ports,
     processes, history
<1>16. CASE RequireOpen(t)
  BY <1>0, <1>16 DEF TypeOK, Place, Accounted, Token, RequireOpen, Goto, Usable,
     Typed, Leave, ports, processes, history
<1>17. CASE Write(t)
  BY <1>0, <1>17 DEF TypeOK, Place, Accounted, Token, Write, Goto, Typed, Leave,
     ports, processes, history
<1>18. CASE ReadPort(t)
  BY <1>0, <1>18 DEF TypeOK, Place, Accounted, Token, ReadPort, Goto, ports,
     processes, history
<1>19. CASE Revoke(t)
  BY <1>19, ConsoleAssumption DEF Accounted, Revoke, Tokens
<1>20. CASE DropPort(t)
  BY <1>0, <1>20 DEF TypeOK, Place, Accounted, Token, DropPort, Goto, processes
<1>21. CASE ShutPort(t)
  BY <1>0, <1>21 DEF TypeOK, Place, Accounted, Token, ShutPort, Goto, Leave,
     processes, history
<1>22. CASE SeesPort(t)
  <2>1. \/ pc[t] = "connect" /\ Goto(t, "take")
        \/ pc[t] = "attach" /\ Goto(t, "takeAgain")
    BY <1>22 DEF SeesPort
  <2>2. UNCHANGED <<lease, op, stage, session>>
    BY <1>22 DEF SeesPort, processes
  <2> QED
    BY <1>0, <2>1, <2>2 DEF TypeOK, Place, Accounted, Token, Goto
<1>23. CASE HostTakes(t)
  BY <1>0, <1>23 DEF TypeOK, Place, Accounted, Token, HostTakes, Goto, processes
<1>24. CASE AttachTaken(t)
  BY <1>0, <1>24 DEF TypeOK, Place, Accounted, Token, AttachTaken, Works, Goto
<1>25. CASE Unmade(t)
  <2>1. /\ abandoned' = abandoned \cup {Token(t)}
        /\ UNCHANGED <<lease, session>>
    BY <1>25 DEF Unmade, processes
  <2>2. CASE u = t
    BY <2>1, <2>2 DEF Accounted
  <2>3. CASE u # t
    <3>1. UNCHANGED <<pc[u], op[u], stage[u]>>
      BY <1>25, <2>3 DEF TypeOK, Unmade, Leave, Goto
    <3> QED
      BY <2>1, <3>1 DEF Accounted, Token
  <2> QED
    BY <2>2, <2>3
<1>26. CASE ShutFails(t)
  BY <1>0, <1>26 DEF TypeOK, Place, Accounted, Token, ShutFails, Goto, Leave,
     processes
<1> QED
  BY <1>0, <1>1, <1>2, <1>3, <1>4, <1>5, <1>6, <1>7, <1>8, <1>9, <1>10, <1>11, <1>12,
     <1>13, <1>14, <1>15, <1>16, <1>17, <1>18, <1>19, <1>20, <1>21, <1>22,
     <1>23, <1>24, <1>25, <1>26 DEF Turn

(* An abandoned lease is nobody else's until it is free. *)
LEMMA AbandonedStep ==
  ASSUME TypeOK, NEW t \in Threads, Turn(t), lease \in abandoned
  PROVE  lease' = NoToken \/ (lease' = lease /\ lease' \in abandoned')
<1>1. lease # NoToken /\ ~Acquire(t)
  BY ConsoleAssumption DEF TypeOK, Acquire
<1>2. abandoned \subseteq abandoned'
  BY <1>1 DEF Turn, Begin, HostConnects, SeesPort, HostTakes, Attach, AttachTaken, Works,
     ConnectFails, Check, Busy, AttachFails, Release, CloseProcess, LogIn, LoginFails,
     NoteLogin, Spawned, SetupFails, Unmade, RequireOpen, Write, ReadPort, Revoke,
     DropPort, ShutPort, ShutFails, history
<1>3. lease' \in {lease, NoToken}
  BY <1>1, LeaseKept DEF Release, Revoke
<1> QED
  BY <1>2, <1>3

LEMMA LeasesInvariant == Spec => []Leases
<1>1. Init => Leases
  BY ConsoleAssumption DEF Init, Leases, LeaseExclusive, LeaseLive, LeaseAccounted,
     Tokens
<1>2. IndPlaces /\ Leases /\ [Next]_vars => Leases'
  <2> SUFFICES ASSUME IndPlaces, Leases, [Next]_vars PROVE Leases'
    OBVIOUS
  <2>1. CASE UNCHANGED vars
    BY <2>1 DEF Leases, LeaseExclusive, LeaseLive, LeaseAccounted, Token, vars,
       processes, local, history
  <2>2. ASSUME NEW t \in Threads, Turn(t) PROVE Leases'
    <3>1. TypeOK /\ Places /\ LeaseExclusive /\ LeaseLive
      BY DEF IndPlaces, Leases
    <3>2. LeaseExclusive' /\ LeaseLive'
      BY <2>2, <3>1, HolderStep
    <3>3. ASSUME NEW u \in Threads, NEW sort \in {"call", "session"},
                 lease' = <<u, sort>>
          PROVE  Accounted(u, sort)' \/ lease' \in abandoned'
      <4>1. CASE lease \in abandoned
        BY <2>2, <3>1, <3>3, <4>1, AbandonedStep, ConsoleAssumption DEF Tokens
      <4>2. CASE lease \notin abandoned
        <5>1. Accounted(u, sort)
          BY <4>2 DEF Leases, LeaseAccounted, Accounted
        <5> QED
          BY <2>2, <3>1, <5>1, AccountStep
      <4> QED
        BY <4>1, <4>2
    <3> QED
      BY <3>2, <3>3 DEF Leases, LeaseAccounted, Accounted
  <2> QED
    BY <2>1, <2>2 DEF Next
<1> QED
  BY <1>1, <1>2, PlacesInvariant, PTL DEF Spec

(* No two processes ever have the connection, however late an old one is   *)
(* closed.                                                                 *)
THEOREM OneHolder == Spec => []LeaseExclusive
<1>1. Leases => LeaseExclusive
  BY DEF Leases
<1> QED
  BY <1>1, LeasesInvariant, PTL

(* And the one that has it is somebody's to close: a failed operation does *)
(* not take the console with it, but for a `spawn` that raises as it       *)
(* builds its process.                                                     *)
THEOREM HolderAccountedFor == Spec => []LeaseAccounted
<1>1. Leases => LeaseAccounted
  BY DEF Leases
<1> QED
  BY <1>1, LeasesInvariant, PTL

-----------------------------------------------------------------------------
(* A thread about to close a port goes on to close that one. *)
LEMMA ShutKept ==
  ASSUME TypeOK, NEW t \in Threads, Turn(t), NEW u \in Threads, pc[u] = "shut",
         (~ShutPort(t) /\ ~ShutFails(t)) \/ u # t
  PROVE  pc'[u] = "shut" /\ seen'[u] = seen[u]
<1>1. CASE u = t
  <2>1. ShutPort(t) \/ ShutFails(t)
    BY <1>1 DEF Turn, Begin, HostConnects, SeesPort, HostTakes, Attach,
       AttachTaken, Works, ConnectFails, Check, Acquire, Busy,
       AttachFails, Release, CloseProcess, LogIn, LoginFails, NoteLogin, Spawned,
       SetupFails, Unmade, RequireOpen, Write, ReadPort, Revoke, DropPort
  <2> QED
    BY <1>1, <2>1
<1>2. CASE u # t
  BY <1>2 DEF TypeOK, Turn, Begin, HostConnects, SeesPort, HostTakes, Attach,
     AttachTaken, Works, ConnectFails, Check, Acquire,
     Busy, AttachFails, Release, CloseProcess, LogIn, LoginFails, NoteLogin, Spawned,
     SetupFails, Unmade, RequireOpen, Write, ReadPort, Revoke, DropPort, ShutPort, ShutFails, Proceed,
     Typed, Leave, Goto
<1> QED
  BY <1>1, <1>2

(* The executor can still close port q, or it is being closed. *)
Reached(q) ==
    q = serial \/ q \in dropped \cup unclosed \/ \E u \in Threads: pc[u] = "shut" /\ seen[u] = q

LEMMA ReachStep ==
  ASSUME TypeOK, PortsReachable, NEW t \in Threads, Turn(t), NEW q \in open'
  PROVE  Reached(q)'
<1> DEFINE Shuts == ShutPort(t) \/ ShutFails(t)
<1>1. ASSUME NEW p \in Ports, Connect(p), UNCHANGED <<dropped, unclosed>>, ~Shuts
      PROVE  Reached(q)'
  <2>1. CASE q = p
    BY <1>1, <2>1, ConnectType DEF Reached
  <2>2. CASE q # p
    <3>1. q \in open /\ q # serial
      BY <1>1, <2>2, ConnectType, ConsoleAssumption DEF TypeOK
    <3>2. CASE q \in dropped \cup unclosed
      BY <1>1, <3>2 DEF Reached
    <3>3. ASSUME NEW u \in Threads, pc[u] = "shut", seen[u] = q PROVE Reached(q)'
      <4>1. pc'[u] = "shut" /\ seen'[u] = seen[u]
        BY <1>1, <3>3, ShutKept
      <4> QED
        BY <3>3, <4>1 DEF Reached
    <3> QED
      BY <3>1, <3>2, <3>3 DEF PortsReachable
  <2> QED
    BY <2>1, <2>2
<1>2. CASE DropPort(t)
  <2>1. q \in open /\ Reached(q)
    BY <1>2 DEF DropPort, PortsReachable, Reached
  <2>2. CASE q = serial
    BY <1>2, <2>1, <2>2, ConsoleAssumption DEF DropPort, Goto, Reached, TypeOK
  <2>3. CASE q # serial
    BY <1>2, <2>1, <2>3, ShutKept DEF DropPort, ShutPort, ShutFails, Reached
  <2> QED
    BY <2>2, <2>3
<1>3. CASE ShutPort(t)
  <2>1. q \in open /\ q # seen[t] /\ Reached(q)
    BY <1>3 DEF ShutPort, PortsReachable, Reached
  <2> QED
    BY <1>3, <2>1, ShutKept DEF ShutPort, Reached, history
<1>4. CASE ShutFails(t)
  <2>1. /\ q \in open /\ Reached(q)
        /\ unclosed' = unclosed \cup {seen[t]} /\ UNCHANGED <<serial, dropped>>
    BY <1>4 DEF ShutFails, PortsReachable, Reached, ports
  <2>2. CASE q = seen[t]
    BY <2>1, <2>2 DEF Reached
  <2>3. CASE q # seen[t]
    BY <2>1, <2>3, ShutKept DEF Reached
  <2> QED
    BY <2>2, <2>3
<1>5. CASE UNCHANGED <<serial, open, dropped, unclosed>> /\ ~Shuts
  BY <1>5, ShutKept DEF PortsReachable, Reached
<1>6. \/ \E p \in Ports: Connect(p) /\ UNCHANGED <<dropped, unclosed>> /\ ~Shuts
      \/ DropPort(t) \/ Shuts
      \/ UNCHANGED <<serial, open, dropped, unclosed>> /\ ~Shuts
  BY DEF Turn, Begin, HostConnects, SeesPort, HostTakes, Attach, AttachTaken, Works,
     ConnectFails, Check, Acquire, Busy,
     AttachFails, Release, CloseProcess, LogIn, LoginFails, NoteLogin, Spawned,
     SetupFails, Unmade, RequireOpen, Write, ReadPort, Revoke, DropPort, ports,
     history
<1> QED
  BY <1>1, <1>2, <1>3, <1>4, <1>5, <1>6

(* No port is left open that nothing would close, but for those that a     *)
(* close drops on the word of an older read, or fails to close once it has *)
(* dropped them.                                                           *)
THEOREM NoPortForgotten == Spec => []PortsReachable
<1>1. Init => PortsReachable
  BY DEF Init, PortsReachable
<1>2. IndPlaces /\ PortsReachable /\ [Next]_vars => PortsReachable'
  <2> SUFFICES ASSUME IndPlaces, PortsReachable, [Next]_vars PROVE PortsReachable'
    OBVIOUS
  <2>1. CASE UNCHANGED vars
    BY <2>1 DEF PortsReachable, vars, ports, local, history
  <2>2. ASSUME NEW t \in Threads, Turn(t) PROVE PortsReachable'
    BY <2>2, ReachStep DEF IndPlaces, PortsReachable, Reached
  <2> QED
    BY <2>1, <2>2 DEF Next
<1> QED
  BY <1>1, <1>2, PlacesInvariant, PTL DEF Spec

-----------------------------------------------------------------------------
(* The ports the host remembers are ports there have been. *)
Number == 1 .. opened

Numbered ==
    /\ opened \in Nat
    /\ serial \in Number \cup {NoPort} /\ negotiated \in Number \cup {NoPort}
    /\ \A t \in Threads: port[t] \in Number \cup {NoPort}

(* The process's port is logged in on, unless it is not the port that was *)
(* checked, or is none at all.                                            *)
Safe(k) == k \notin switched /\ attached[k] # NoPort => attached[k] \in loggedIn

(* How a thread that looked at the port the executor still has knows of    *)
(* the login there, and what follows of the process it works with.         *)
LoginState(t) ==
    /\ pc[t] = "idle" => port[t] = NoPort
    /\ port[t] = serial /\ serial # NoPort =>
          /\ pc[t] = "login" => attached[Token(t)] = serial
          /\ stage[t] # "login" => serial \in loggedIn
    /\ pc[t] \in {"setup", "use", "write"} => Safe(Token(t))
    /\ t \in session => Safe(<<t, "session">>)
    /\ pc[t] = "write" => attached[Token(t)] # NoPort

Logins == Numbered /\ LoginRemembered /\ \A t \in Threads: LoginState(t)

(* The executor's port stays, is dropped, or is a new one. *)
LEMMA PortStep ==
  ASSUME TypeOK, NEW t \in Threads, Turn(t)
  PROVE  \/ UNCHANGED <<serial, opened>>
         \/ serial' = NoPort /\ opened' = opened
         \/ serial' = opened + 1 /\ opened' = opened + 1
  BY DEF Turn, Begin, HostConnects, Connect, SeesPort, HostTakes, Attach, AttachTaken,
     Works, ConnectFails, Check, Acquire, Busy, AttachFails, Release, CloseProcess,
     LogIn, LoginFails, NoteLogin, Spawned, SetupFails, Unmade, RequireOpen, Write, ReadPort,
     Revoke, DropPort, ShutPort, ShutFails, ports

(* A thread's turn leaves the others, and their processes, where they are. *)
LEMMA OthersKept ==
  ASSUME TypeOK, NEW t \in Threads, Turn(t), NEW u \in Threads, u # t
  PROVE  /\ UNCHANGED <<pc[u], op[u], stage[u], port[u]>>
         /\ u \in session' <=> u \in session
         /\ \A sort \in {"call", "session"}:
               /\ attached'[<<u, sort>>] = attached[<<u, sort>>]
               /\ <<u, sort>> \in switched' <=> <<u, sort>> \in switched
         /\ loggedIn \subseteq loggedIn'
<1>1. UNCHANGED <<pc[u], op[u], stage[u], port[u]>>
  BY DEF TypeOK, Turn, Begin, HostConnects, SeesPort, HostTakes, Attach, AttachTaken,
     Works, ConnectFails, Check, Acquire, Busy, AttachFails, Release, CloseProcess,
     LogIn, LoginFails, NoteLogin, Spawned, SetupFails, Unmade, RequireOpen, Write, ReadPort,
     Revoke, DropPort, ShutPort, ShutFails, Leave, Proceed, Typed, Goto
<1>2. u \in session' <=> u \in session
  BY DEF TypeOK, Turn, Begin, HostConnects, SeesPort, HostTakes, Attach, AttachTaken,
     Works, ConnectFails, Check, Acquire, Busy, AttachFails, Release, CloseProcess,
     LogIn, LoginFails, NoteLogin, Spawned, SetupFails, Unmade, RequireOpen, Write, ReadPort,
     Revoke, DropPort, ShutPort, ShutFails
<1>3. ASSUME NEW sort \in {"call", "session"}
      PROVE  /\ attached'[<<u, sort>>] = attached[<<u, sort>>]
             /\ <<u, sort>> \in switched' <=> <<u, sort>> \in switched
  <2>1. <<u, sort>> \in Tokens /\ <<u, sort>> # Token(t)
    BY DEF Tokens, Token
  <2>2. CASE \E p: Works(t, p)
    BY <2>1, <2>2 DEF TypeOK, Works
  <2>3. CASE ~\E p: Works(t, p)
    BY <2>3 DEF Turn, Begin, HostConnects, SeesPort, HostTakes, Attach, AttachTaken,
       ConnectFails, Check, Acquire, Busy, AttachFails, Release, CloseProcess,
       LogIn, LoginFails, NoteLogin, Spawned, SetupFails, Unmade, RequireOpen, Write, ReadPort,
       Revoke, DropPort, ShutPort, ShutFails, processes, history
  <2> QED
    BY <2>2, <2>3
<1>4. loggedIn \subseteq loggedIn'
  BY DEF Turn, Begin, HostConnects, SeesPort, HostTakes, Attach, AttachTaken,
     Works, ConnectFails, Check, Acquire, Busy, AttachFails, Release, CloseProcess,
     LogIn, LoginFails, NoteLogin, Spawned, SetupFails, Unmade, RequireOpen, Write, ReadPort,
     Revoke, DropPort, ShutPort, ShutFails, history
<1> QED
  BY <1>1, <1>2, <1>3, <1>4

(* What the host comes to remember of a port is a login that completed.    *)
LEMMA NegotiatedStep ==
  ASSUME TypeOK, Places, NEW t \in Threads, Turn(t)
  PROVE  \/ negotiated' \in {negotiated, NoPort}
         \/ negotiated' = port[t] /\ stage[t] = "loggedIn" /\ UNCHANGED serial
<1>1. CASE NoteLogin(t)
  BY <1>1 DEF NoteLogin, Places, Place, ports
<1>2. CASE ~NoteLogin(t)
  BY <1>2 DEF Turn, Begin, HostConnects, SeesPort, HostTakes, Attach, AttachTaken,
     Works,
     ConnectFails, Check, Acquire, Busy, AttachFails, Release, CloseProcess, LogIn,
     LoginFails, Spawned, SetupFails, Unmade, RequireOpen, Write, ReadPort, Revoke, DropPort,
     ShutPort, ShutFails
<1> QED
  BY <1>1, <1>2

LEMMA OwnPortStep ==
  ASSUME TypeOK, NEW t \in Threads, Turn(t)
  PROVE  port'[t] \in {port[t], NoPort, serial, serial'}
<1>1. CASE \E p \in Ports: HostConnects(t, p)
  BY <1>1 DEF HostConnects, Connect, TypeOK
<1>2. CASE HostTakes(t)
  BY <1>2 DEF HostTakes, TypeOK
<1>3. CASE ~HostTakes(t) /\ ~\E p \in Ports: HostConnects(t, p)
  BY <1>3 DEF TypeOK, Turn, Begin, SeesPort, Attach, AttachTaken, Works, ConnectFails,
     Check, Acquire, Busy, AttachFails, Release, CloseProcess, LogIn, LoginFails,
     NoteLogin, Spawned, SetupFails, Unmade, RequireOpen, Write, ReadPort, Revoke, DropPort,
     ShutPort, ShutFails, Leave, Proceed, Typed
<1> QED
  BY <1>1, <1>2, <1>3

LEMMA NumberedStep ==
  ASSUME TypeOK, Places, Numbered, NEW t \in Threads, Turn(t)
  PROVE  Numbered'
<1>1. opened' \in Nat /\ Number \subseteq Number' /\ serial' \in Number' \cup {NoPort}
  BY PortStep DEF Numbered, Number
<1>2. negotiated' \in Number' \cup {NoPort}
  BY <1>1, NegotiatedStep DEF Numbered
<1>3. ASSUME NEW u \in Threads PROVE port'[u] \in Number' \cup {NoPort}
  <2>1. CASE u = t
    BY <1>1, <2>1, OwnPortStep DEF Numbered
  <2>2. CASE u # t
    BY <1>1, <2>2, OthersKept DEF Numbered
  <2> QED
    BY <2>1, <2>2
<1> QED
  BY <1>1, <1>2, <1>3 DEF Numbered

LEMMA RememberedStep ==
  ASSUME TypeOK, Places, Logins, NEW t \in Threads, Turn(t)
  PROVE  LoginRemembered'
<1> SUFFICES ASSUME negotiated' = serial', serial' # NoPort PROVE serial' \in loggedIn'
  BY DEF LoginRemembered
<1>1. serial' = serial
  BY PortStep, NegotiatedStep DEF Logins, Numbered, Number
<1>2. serial \in loggedIn
  BY <1>1, NegotiatedStep DEF Logins, LoginRemembered, LoginState
<1>3. loggedIn \subseteq loggedIn'
  BY DEF Turn, Begin, HostConnects, SeesPort, HostTakes, Attach, AttachTaken,
     Works, ConnectFails, Check, Acquire, Busy, AttachFails, Release, CloseProcess,
     LogIn, LoginFails, NoteLogin, Spawned, SetupFails, Unmade, RequireOpen, Write, ReadPort,
     Revoke, DropPort, ShutPort, ShutFails, history
<1> QED
  BY <1>1, <1>2, <1>3

LEMMA OtherLoginStep ==
  ASSUME TypeOK, Logins, NEW t \in Threads, Turn(t), NEW u \in Threads, u # t
  PROVE  LoginState(u)'
<1>1. LoginState(u) /\ port[u] \in Number \cup {NoPort} /\ opened \in Nat
  BY DEF Logins, Numbered
<1>2. /\ UNCHANGED <<pc[u], op[u], stage[u], port[u]>>
      /\ u \in session' <=> u \in session
      /\ loggedIn \subseteq loggedIn'
  BY OthersKept
<1>3. Token(u)' = Token(u) /\ Token(u) \in {<<u, "call">>, <<u, "session">>}
  BY <1>2 DEF Token
<1>4. ASSUME NEW sort \in {"call", "session"}
      PROVE  /\ attached'[<<u, sort>>] = attached[<<u, sort>>]
             /\ Safe(<<u, sort>>) => Safe(<<u, sort>>)'
  BY <1>2, OthersKept DEF Safe
<1>5. /\ attached'[Token(u)] = attached[Token(u)]
      /\ Safe(Token(u)) => Safe(Token(u))'
  BY <1>3, <1>4
<1>6. port'[u] = serial' /\ serial' # NoPort => port[u] = serial /\ serial' = serial
  BY <1>1, <1>2, PortStep DEF Number
<1> QED
  BY <1>1, <1>2, <1>3, <1>4, <1>5, <1>6 DEF LoginState

(* The process an operation makes: if its port is the one that was looked  *)
(* at, the executor has it, and what is known of that port holds of it.    *)
LEMMA WorksStep ==
  ASSUME TypeOK, Places, NEW t \in Threads, LoginState(t),
         NEW p \in Ports \cup {NoPort}, Works(t, p), pc[t] \in {"attach", "takeAgain"},
         serial' = p, port[t] = p => p = serial
  PROVE  LoginState(t)'
<1>1. /\ stage[t] \in {"login", "use"} /\ op[t] \in {"connect", "run", "spawn"}
      /\ stage[t] = "use" => op[t] \in {"run", "spawn"}
      /\ op[t] = "spawn" => t \notin session
  BY DEF Places, Place, LogsIn, TypeOK
<1>2. UNCHANGED <<op, stage, port, session, loggedIn>> /\ Token(t)' = Token(t)
  BY DEF Works, Token
<1>3. Token(t) \in Tokens /\ attached'[Token(t)] = p
  BY TokenType DEF TypeOK, Works
<1>4. Token(t) \notin switched' => p = port[t]
  BY DEF Works
<1>5. t \in session => Safe(<<t, "session">>)'
  <2> SUFFICES ASSUME t \in session PROVE Safe(<<t, "session">>)'
    OBVIOUS
  <2>1. <<t, "session">> # Token(t) /\ <<t, "session">> \in Tokens
    BY <1>1 DEF Token, Tokens
  <2>2. /\ attached'[<<t, "session">>] = attached[<<t, "session">>]
        /\ <<t, "session">> \in switched' <=> <<t, "session">> \in switched
    BY <2>1 DEF TypeOK, Works
  <2> QED
    BY <1>2, <2>2 DEF LoginState, Safe
<1>6. CASE stage[t] = "login"
  <2>1. pc'[t] = "login"
    BY <1>6 DEF Works, Goto, TypeOK
  <2> QED
    BY <1>2, <1>3, <1>5, <1>6, <2>1 DEF LoginState
<1>7. CASE stage[t] = "use"
  <2>1. pc'[t] \in {"use", "setup"}
    BY <1>7 DEF Works, Goto, TypeOK
  <2>2. Safe(Token(t))'
    BY <1>2, <1>3, <1>4, <1>7 DEF LoginState, Safe
  <2> QED
    BY <1>2, <1>5, <1>7, <2>1, <2>2 DEF LoginState
<1> QED
  BY <1>1, <1>6, <1>7

LEMMA OwnLoginStep ==
  ASSUME TypeOK, Places, Logins, NEW t \in Threads, Turn(t)
  PROVE  LoginState(t)'
<1>0. Place(t) /\ LoginState(t) /\ LoginRemembered
  BY DEF Places, Logins
<1> USE DEF LogsIn
<1>1. ASSUME NEW o \in Operations, Begin(t, o) PROVE LoginState(t)'
  <2>1. \/ o = "type" /\ Goto(t, "use")
        \/ \E where \in {"connect", "close", "read"}: Goto(t, where)
    BY <1>1 DEF Begin, Operations
  <2>2. /\ pc[t] = "idle" /\ port' = port /\ serial' = serial /\ session' = session
        /\ UNCHANGED <<attached, loggedIn, switched>>
        /\ o = "type" => t \in session
    BY <1>1 DEF Begin, ports, processes, history
  <2>3. o = "type" => op'[t] = "type" /\ stage'[t] = "use"
    BY <1>1 DEF Begin, TypeOK
  <2>4. port'[t] = NoPort
    BY <1>0, <2>2 DEF LoginState
  <2> QED
    BY <1>0, <2>1, <2>2, <2>3, <2>4 DEF LoginState, Safe, Token, Goto, TypeOK
<1>2. ASSUME NEW p \in Ports, HostConnects(t, p) PROVE LoginState(t)'
  BY <1>0, <1>2 DEF TypeOK, Place, LoginState, Safe, Token, HostConnects, Goto, Connect,
     processes, history
<1>3. ASSUME NEW p \in Ports, Attach(t, p) PROVE LoginState(t)'
  <2>1. Works(t, p) /\ pc[t] = "attach" /\ serial' = p /\ p = opened + 1
    BY <1>3 DEF Attach, Connect
  <2>2. port[t] # p
    BY <2>1, ConsoleAssumption DEF Logins, Numbered, Number
  <2> QED
    BY <1>0, <2>1, <2>2, WorksStep
<1>4. CASE AttachTaken(t)
  <2>1. /\ Works(t, serial) /\ pc[t] = "takeAgain" /\ serial' = serial
        /\ serial \in Ports \cup {NoPort}
    BY <1>4 DEF AttachTaken, ports, TypeOK
  <2> QED
    BY <1>0, <2>1, WorksStep
<1>5. CASE ConnectFails(t)
  BY <1>0, <1>5 DEF TypeOK, Place, LoginState, LoginRemembered, Safe, Token,
     ConnectFails, Leave, Goto, ports, processes, history
<1>6. CASE SeesPort(t)
  BY <1>0, <1>6 DEF TypeOK, Place, LoginState, LoginRemembered, Safe, Token,
     SeesPort, Goto, ports, processes, history
<1>7. CASE HostTakes(t)
  BY <1>0, <1>7 DEF TypeOK, Place, LoginState, LoginRemembered, Safe, Token,
     HostTakes, Goto, ports, processes, history
<1>8. CASE Check(t)
  BY <1>0, <1>8 DEF TypeOK, Place, LoginState, LoginRemembered, Safe, Token, Check,
     Goto, Proceed, Leave, ports, processes, history
<1>9. CASE Acquire(t)
  BY <1>0, <1>9 DEF TypeOK, Place, LoginState, LoginRemembered, Safe, Token,
     Acquire, Goto, ports, history
<1>10. CASE Busy(t)
  BY <1>0, <1>10 DEF TypeOK, Place, LoginState, LoginRemembered, Safe, Token, Busy,
     Goto, Leave, ports, processes, history
<1>11. CASE AttachFails(t)
  BY <1>0, <1>11 DEF TypeOK, Place, LoginState, LoginRemembered, Safe, Token,
     AttachFails, Goto, ports, processes, history
<1>12. CASE Release(t)
  BY <1>0, <1>12 DEF TypeOK, Place, LoginState, LoginRemembered, Safe, Token,
     Release, Goto, Proceed, Leave, ports, history
<1>13. CASE CloseProcess(t)
  BY <1>0, <1>13 DEF TypeOK, Place, LoginState, LoginRemembered, Safe, Token,
     CloseProcess, Goto, Proceed, Leave, ports, processes, history
<1>14. CASE LogIn(t)
  BY <1>0, <1>14 DEF TypeOK, Place, LoginState, LoginRemembered, Safe, Token, LogIn,
     Goto, ports, processes
<1>15. CASE LoginFails(t)
  BY <1>0, <1>15 DEF TypeOK, Place, LoginState, LoginRemembered, Safe, Token,
     LoginFails, Goto, ports, processes, history
<1>16. CASE NoteLogin(t)
  BY <1>0, <1>16 DEF TypeOK, Place, LoginState, LoginRemembered, Safe, Token,
     NoteLogin, Goto, ports, processes, history
<1>17. CASE Spawned(t)
  BY <1>0, <1>17 DEF TypeOK, Place, LoginState, LoginRemembered, Safe, Token,
     Spawned, Goto, Leave, ports, processes, history
<1>18. CASE SetupFails(t)
  BY <1>0, <1>18 DEF TypeOK, Place, LoginState, LoginRemembered, Safe, Token,
     SetupFails, Goto, ports, processes, history
<1>19. CASE RequireOpen(t)
  <2>1. /\ pc[t] = "use" /\ UNCHANGED <<serial, attached, session, loggedIn, switched>>
        /\ \/ Usable(Token(t)) /\ Goto(t, "write") /\ UNCHANGED <<op, stage, port>>
           \/ Typed(t)
    BY <1>19 DEF RequireOpen, ports, processes, history
  <2>2. CASE Usable(Token(t)) /\ Goto(t, "write") /\ UNCHANGED <<op, stage, port>>
    <3>1. attached[Token(t)] # NoPort
      BY <2>2, ConsoleAssumption DEF Usable, TypeOK
    <3> QED
      BY <1>0, <2>1, <2>2, <3>1 DEF LoginState, Safe, Token, Goto, TypeOK
  <2>3. CASE Typed(t)
    BY <1>0, <2>1, <2>3 DEF LoginState, Safe, Token, Typed, Leave, Goto, TypeOK
  <2> QED
    BY <2>1, <2>2, <2>3
<1>20. CASE Write(t)
  BY <1>0, <1>20 DEF TypeOK, Place, LoginState, LoginRemembered, Safe, Token, Write,
     Goto, Typed, Leave, ports, processes, history
<1>21. CASE ReadPort(t)
  BY <1>0, <1>21 DEF TypeOK, Place, LoginState, LoginRemembered, Safe, Token,
     ReadPort, Goto, ports, processes, history
<1>22. CASE Revoke(t)
  BY <1>0, <1>22 DEF TypeOK, Place, LoginState, LoginRemembered, Safe, Token,
     Revoke, Goto, Leave, ports, history
<1>23. CASE DropPort(t)
  BY <1>0, <1>23 DEF TypeOK, Place, LoginState, LoginRemembered, Safe, Token,
     DropPort, Goto, processes
<1>24. CASE ShutPort(t)
  BY <1>0, <1>24 DEF TypeOK, Place, LoginState, LoginRemembered, Safe, Token,
     ShutPort, Goto, Leave, processes, history
<1>25. CASE Unmade(t)
  BY <1>0, <1>25 DEF TypeOK, Place, LoginState, LoginRemembered, Safe, Token,
     Unmade, Goto, Leave, ports, processes
<1>26. CASE ShutFails(t)
  BY <1>0, <1>26 DEF TypeOK, Place, LoginState, LoginRemembered, Safe, Token,
     ShutFails, Goto, Leave, ports, processes
<1> QED
  BY <1>1, <1>2, <1>3, <1>4, <1>5, <1>6, <1>7, <1>8, <1>9, <1>10, <1>11, <1>12,
     <1>13, <1>14, <1>15, <1>16, <1>17, <1>18, <1>19, <1>20, <1>21, <1>22, <1>23,
     <1>24, <1>25, <1>26 DEF Turn

LEMMA LoginsInvariant == Spec => []Logins
<1>1. Init => Logins
  BY ConsoleAssumption DEF Init, Logins, Numbered, Number, LoginRemembered, LoginState,
     Safe, Tokens, Ports
<1>2. IndPlaces /\ Logins /\ [Next]_vars => Logins'
  <2> SUFFICES ASSUME IndPlaces, Logins, [Next]_vars PROVE Logins'
    OBVIOUS
  <2>1. CASE UNCHANGED vars
    BY <2>1 DEF Logins, Numbered, Number, LoginRemembered, LoginState, Safe,
       Token, vars,
       ports, processes, local, history
  <2>2. ASSUME NEW t \in Threads, Turn(t) PROVE Logins'
    <3>1. TypeOK /\ Places /\ Numbered
      BY DEF IndPlaces, Logins
    <3>2. Numbered' /\ LoginRemembered'
      BY <2>2, <3>1, NumberedStep, RememberedStep
    <3>3. ASSUME NEW u \in Threads PROVE LoginState(u)'
      BY <2>2, <3>1, OtherLoginStep, OwnLoginStep
    <3> QED
      BY <3>2, <3>3 DEF Logins
  <2> QED
    BY <2>1, <2>2 DEF Next
<1> QED
  BY <1>1, <1>2, PlacesInvariant, PTL DEF Spec

(* A login noted of one port was not made on another that has replaced it: *)
(* while the executor still has the port, it is the one logged in on.      *)
THEOREM LoginKnown == Spec => []LoginRemembered
<1>1. Logins => LoginRemembered
  BY DEF Logins
<1> QED
  BY <1>1, LoginsInvariant, PTL

(* Only a close between `connect` and the opening of the process can have  *)
(* a command typed where nobody has logged in.                             *)
THEOREM TypedLoggedIn == Spec => []TypedAfterLogin
<1>1. Logins => TypedAfterLogin
  BY DEF Logins, LoginState, Safe, TypedAfterLogin
<1> QED
  BY <1>1, LoginsInvariant, PTL

-----------------------------------------------------------------------------
(* The lease is given to one at a time, and given back: what the run       *)
(* `serial` checks of it, for any number of threads, ports and calls.      *)
THEOREM LeaseIsSound == Spec => []LeaseSound
<1>1. TypeOK /\ LeaseExclusive /\ LeaseAccounted => LeaseSound
  BY DEF LeaseSound
<1> QED
  BY <1>1, TypeCorrect, OneHolder, HolderAccountedFor, PTL

(* And so for the login.                                                   *)
THEOREM LoginIsSound == Spec => []LoginSound
<1>1. LoginRemembered /\ TypedAfterLogin => LoginSound
  BY DEF LoginSound
<1> QED
  BY <1>1, LoginKnown, TypedLoggedIn, PTL

-----------------------------------------------------------------------------
(***************************************************************************)
(* The console of a QEMU guest, which any number of callers share.         *)
(***************************************************************************)
(* Where a call to the console may be: those that have a process that was  *)
(* opened, those that tear it down, and those about to use its stream.     *)
Tearing == {"finish", "fail", "release"}
Using == {"recv", "lock", "send"}
Working == {"read", "write", "wait", "close"} \cup Using \cup Tearing
Calling == [at: {"idle", "acquire", "open"} \cup Working, p: Nat, over: BOOLEAN,
            op: {"none", "acquire", "read", "write", "wait", "close"},
            end: {"done", "busy", "opened", "unmade", "refused", "consumed", "eof", "error",
                  "closed"}]

LeasedTo == 1 .. Len(procs)

ConsoleTyped ==
    /\ kind \in Q!Kinds
    /\ streams \in Seq([over: BOOLEAN, gone: Nat]) /\ stream \in 0 .. Len(streams)
    /\ procs \in Seq(Nat) /\ \A p \in LeasedTo: procs[p] <= Len(streams)
    /\ holder \in 0 .. Len(procs)
    /\ over \subseteq LeasedTo /\ claimed \subseteq LeasedTo
    /\ th \in [Callers -> Calling]
    /\ \A t \in Callers: th[t].p <= Len(procs)

(* What a call may take for granted where it is: who opens has the lease   *)
(* and no stream yet, who tears down has the lease of a process that was   *)
(* claimed, and who is about to use a stream began before its process had  *)
(* ended.                                                                  *)
Placing == \A t \in Callers:
    /\ Q!At(t, "acquire") => th[t].p = 0
    /\ Q!At(t, "open") => th[t].p # 0 /\ th[t].p = holder /\ procs[holder] = 0
    /\ th[t].at \in Working => th[t].p # 0 /\ procs[th[t].p] # 0
    /\ th[t].at \in Tearing => th[t].p = holder /\ holder \in claimed
    /\ th[t].at \in {"finish", "fail"} => Q!Owns
    /\ th[t].op = "wait" => th[t].at \in {"wait", "idle"}
    /\ th[t].op = "wait" /\ th[t].end = "done" /\ ~Q!Busy(t)
           => th[t].p \in over /\ procs[th[t].p] # 0
    /\ th[t].over /\ th[t].at # "idle" => th[t].p \in over
    /\ th[t].at \in Using => ~th[t].over

(* One call opens at a time, and one tears down.                           *)
OneTears == \A t, u \in Callers:
    /\ Q!At(t, "open") /\ Q!At(u, "open") => t = u
    /\ th[t].at \in Tearing /\ th[u].at \in Tearing => t = u

(* The lease is that of the one process that is opened and not claimed, or *)
(* of the call that opens it or tears it down.                             *)
LeaseHeld ==
    /\ holder # 0 /\ procs[holder] = 0 => \E t \in Callers: Q!At(t, "open")
    /\ holder # 0 /\ holder \in claimed => \E t \in Callers: th[t].at \in Tearing
    /\ holder \in over => holder \in claimed
    /\ \A p \in LeasedTo: procs[p] # 0 /\ p \notin claimed => p = holder
    /\ \A p \in claimed: procs[p] # 0

(* A stream that the console owns is that of one process, or is the one it *)
(* was made with and has not leased yet.                                   *)
Unleased == kind = "owned" /\ \A p \in LeasedTo: procs[p] = 0
OneEach == Q!Owns =>
    /\ \A p, q \in LeasedTo: procs[p] = procs[q] /\ procs[p] # 0 => p = q
    /\ stream # 0 /\ ~Unleased => holder # 0 /\ procs[holder] = stream
    /\ \A s \in 1 .. Len(streams): \/ \E p \in LeasedTo: procs[p] = s
                                   \/ Unleased /\ s = stream

(* It is let go of once its process is torn down, and only then.           *)
Finishing(p) == \E t \in Callers: Q!At(t, "finish") /\ th[t].p = p
TornDown(s) == \E p \in claimed: procs[p] = s /\ ~Finishing(p)
Letting == \A s \in 1 .. Len(streams):
    streams[s].gone = IF Q!Owns /\ TornDown(s) THEN 1 ELSE 0

(* A process that was opened and has ended was torn down.                  *)
EndsLast == \A p \in over: procs[p] # 0 => p \in claimed /\ ~Finishing(p)

ConsoleInv == /\ ConsoleTyped /\ Placing /\ OneTears /\ LeaseHeld /\ OneEach /\ Letting /\ EndsLast
              /\ Q!NeverShared

LEMMA MovesTo ==
  ASSUME th \in [Callers -> Calling], NEW t \in Callers,
         NEW w \in {"idle", "acquire", "open"} \cup Working, Q!Goes(t, w)
  PROVE  /\ th' \in [Callers -> Calling]
         /\ th'[t].at = w /\ th'[t].p = th[t].p /\ th'[t].op = th[t].op
         /\ th'[t].over = th[t].over /\ th'[t].end = th[t].end
         /\ \A u \in Callers \ {t}: th'[u] = th[u]
<1>1. th[t] \in Calling
  OBVIOUS
<1>2. [th[t] EXCEPT !.at = w] \in Calling
  BY <1>1 DEF Calling
<1> QED
  BY <1>1, <1>2 DEF Q!Goes, Calling

LEMMA EndsWith ==
  ASSUME th \in [Callers -> Calling], NEW t \in Callers,
         NEW how \in {"done", "busy", "opened", "unmade", "refused", "consumed", "eof", "error",
                      "closed"},
         Q!Ends(t, how)
  PROVE  /\ th' \in [Callers -> Calling]
         /\ th'[t].at = "idle" /\ th'[t].p = th[t].p /\ th'[t].op = th[t].op
         /\ th'[t].over = FALSE /\ th'[t].end = how
         /\ \A u \in Callers \ {t}: th'[u] = th[u]
<1>1. th[t].op \in {"none", "acquire", "read", "write", "wait", "close"} /\ th[t].p \in Nat
  BY DEF Calling
<1>2. [Q!Idle EXCEPT !.op = th[t].op, !.p = th[t].p, !.end = how] \in Calling
  BY <1>1 DEF Calling, Q!Idle
<1> QED
  BY <1>1, <1>2 DEF Q!Ends, Q!Idle

(* A step that neither opens nor tears down, nor comes to do so.           *)
Still == UNCHANGED <<kind, streams, stream, holder, over, claimed, procs>>
Elsewhere(t) == th[t].at \notin Tearing \cup {"open"}
Others(t) == \A u \in Callers \ {t}: th'[u] = th[u]

LEMMA StillKeeps ==
  ASSUME NEW t \in Callers, Still, Others(t), Elsewhere(t), Elsewhere(t)',
         OneTears, LeaseHeld, OneEach, Letting, EndsLast
  PROVE  OneTears' /\ LeaseHeld' /\ OneEach' /\ Letting' /\ EndsLast'
<1>1. \A u \in Callers: /\ Q!At(u, "open")' <=> Q!At(u, "open")
                        /\ th'[u].at \in Tearing <=> th[u].at \in Tearing
                        /\ th[u].at \in Tearing \cup {"open"} => th'[u] = th[u]
  BY DEF Others, Elsewhere, Q!At, Tearing
<1>2. \A p: Finishing(p)' <=> Finishing(p)
  <2> SUFFICES ASSUME NEW p PROVE Finishing(p)' <=> Finishing(p)
    OBVIOUS
  <2>1. \A u \in Callers: Q!At(u, "finish") => Q!At(u, "finish")' /\ th'[u] = th[u]
    BY <1>1 DEF Q!At, Tearing
  <2>2. \A u \in Callers: Q!At(u, "finish")' => Q!At(u, "finish") /\ th'[u] = th[u]
    BY DEF Q!At, Tearing, Others, Elsewhere
  <2> QED
    BY <2>1, <2>2 DEF Finishing
<1>3. OneTears'
  BY <1>1 DEF OneTears
<1>4. LeaseHeld'
  BY <1>1 DEF LeaseHeld, Still, LeasedTo
<1>5. OneEach'
  BY DEF OneEach, Still, LeasedTo, Unleased, Q!Owns
<1>6. Letting'
  BY <1>2 DEF Letting, TornDown, Still, Q!Owns
<1>7. EndsLast'
  BY <1>2 DEF EndsLast, Still
<1> QED
  BY <1>3, <1>4, <1>5, <1>6, <1>7

(* What the calls that neither open nor tear down do: which of them moves, *)
(* where to, and what it may have found.                                   *)
Passes(t) ==
    /\ Still /\ Others(t) /\ th' \in [Callers -> Calling] /\ th'[t].p <= Len(procs)
    /\ Elsewhere(t) /\ Elsewhere(t)'
    /\ th'[t].at = "acquire" => th'[t].p = 0
    /\ th'[t].at \in Working => th'[t].p # 0 /\ procs[th'[t].p] # 0
    /\ th'[t].op = "wait" => th'[t].at \in {"wait", "idle"}
    /\ th'[t].op = "wait" /\ th'[t].end = "done" /\ th'[t].at = "idle"
           => th'[t].p \in over /\ procs[th'[t].p] # 0
    /\ th'[t].over /\ th'[t].at # "idle" => th'[t].p \in over
    /\ th'[t].at \in Using => ~th'[t].over

LEMMA BeginPasses ==
  ASSUME ConsoleTyped, Placing, NEW t \in Callers,
         NEW o \in {"acquire", "read", "write", "wait", "close"}, Q!Begin(t, o)
  PROVE  Passes(t)
<1>1. PICK p \in IF o = "acquire" THEN {0}
                 ELSE {q \in DOMAIN procs: procs[q] # 0 /\ q \notin unmade}:
         th' = [th EXCEPT ![t] = [Q!Idle EXCEPT !.at = o, !.op = o, !.p = p, !.over = p \in over]]
  BY DEF Q!Begin
<1>2. /\ p \in 0 .. Len(procs) /\ p \in Nat
      /\ o # "acquire" => p # 0 /\ procs[p] # 0
      /\ o = "acquire" => p = 0
  BY <1>1 DEF ConsoleTyped
<1> DEFINE c == [Q!Idle EXCEPT !.at = o, !.op = o, !.p = p, !.over = p \in over]
<1>3. /\ c \in Calling
      /\ c.at = o /\ c.op = o /\ c.p = p /\ c.end = "done"
      /\ c.over <=> p \in over
  <2> DEFINE was == p \in over
  <2>1. was \in BOOLEAN
    OBVIOUS
  <2>2. c = [Q!Idle EXCEPT !.at = o, !.op = o, !.p = p, !.over = was]
    OBVIOUS
  <2> HIDE DEF was, c
  <2>3. c \in Calling /\ c.at = o /\ c.op = o /\ c.p = p /\ c.end = "done" /\ c.over = was
    BY <1>2, <2>1, <2>2 DEF Calling, Q!Idle, Working
  <2> QED
    BY <2>1, <2>3 DEF was
<1>4. th' = [th EXCEPT ![t] = c]
  BY <1>1
<1> HIDE DEF c
<1>5. th' \in [Callers -> Calling] /\ th'[t] = c /\ Others(t)
  BY <1>3, <1>4 DEF ConsoleTyped, Others
<1>6. Still
  BY DEF Q!Begin, Still, Q!lease
<1>7. Elsewhere(t)
  BY DEF Q!Begin, Q!Busy, Elsewhere, Tearing
<1> QED
  BY <1>2, <1>3, <1>5, <1>6, <1>7 DEF Passes, Elsewhere, Tearing, Using, Working

LEMMA MovePasses ==
  ASSUME ConsoleTyped, Placing, NEW t \in Callers,
         NEW w \in {"recv", "lock", "send", "close"}, Q!Goes(t, w), Still, Elsewhere(t),
         th[t].at \in Working, th[t].op # "wait", w # "close" => ~th[t].over
  PROVE  Passes(t)
<1>1. /\ th' \in [Callers -> Calling]
      /\ th'[t].at = w /\ th'[t].p = th[t].p /\ th'[t].op = th[t].op
      /\ th'[t].over = th[t].over /\ th'[t].end = th[t].end
      /\ \A u \in Callers \ {t}: th'[u] = th[u]
  BY MovesTo DEF ConsoleTyped, Working, Using
<1>2. /\ th[t].p # 0 /\ procs[th[t].p] # 0 /\ th[t].p <= Len(procs)
      /\ th[t].over /\ th[t].at # "idle" => th[t].p \in over
  BY DEF Placing, ConsoleTyped
<1>3. th[t].at # "idle"
  BY DEF Working, Using, Tearing
<1> QED
  BY <1>1, <1>2, <1>3 DEF Passes, Elsewhere, Others, Tearing, Using, Working

LEMMA EndPasses ==
  ASSUME ConsoleTyped, Placing, NEW t \in Callers,
         NEW how \in {"done", "busy", "eof", "error", "closed"}, Q!Ends(t, how),
         Still, Elsewhere(t),
         th[t].op = "wait" /\ how = "done" => th[t].p \in over /\ procs[th[t].p] # 0
  PROVE  Passes(t)
<1>1. /\ th' \in [Callers -> Calling]
      /\ th'[t].at = "idle" /\ th'[t].p = th[t].p /\ th'[t].op = th[t].op
      /\ th'[t].over = FALSE /\ th'[t].end = how
      /\ \A u \in Callers \ {t}: th'[u] = th[u]
  BY EndsWith DEF ConsoleTyped
<1>2. th[t].p <= Len(procs)
  BY DEF ConsoleTyped
<1> QED
  BY <1>1, <1>2 DEF Passes, Elsewhere, Others, Tearing, Using, Working

LEMMA StepPasses ==
  ASSUME ConsoleTyped, Placing, NEW t \in Callers,
         \/ Q!Read(t) \/ Q!Recv(t) \/ Q!Write(t) \/ Q!Lock(t) \/ Q!Send(t) \/ Q!Wait(t)
         \/ Q!Acquire(t) /\ holder # 0
         \/ Q!Close(t) /\ ~Q!Claims(th[t].p)
  PROVE  Passes(t)
<1>1. Still
  BY DEF Q!Read, Q!Recv, Q!Write, Q!Lock, Q!Send, Q!Wait, Q!Acquire, Q!Close, Still, Q!lease
<1>2. Elsewhere(t)
  BY DEF Q!Read, Q!Recv, Q!Write, Q!Lock, Q!Send, Q!Wait, Q!Acquire, Q!Close, Q!At, Elsewhere,
     Tearing
<1>3. /\ th[t].op = "wait" => th[t].at \in {"wait", "idle"}
      /\ th[t].at \in Using => ~th[t].over
      /\ th[t].at \in Working => th[t].p # 0 /\ procs[th[t].p] # 0
  BY DEF Placing
<1>4. CASE Q!Read(t)
  <2>1. th[t].at = "read" /\ th[t].at \in Working /\ th[t].op # "wait"
    BY <1>3, <1>4 DEF Q!Read, Q!At, Working
  <2>2. CASE th[t].p \in over /\ Q!Ends(t, "eof")
    BY <1>1, <1>2, <2>2, EndPasses
  <2>3. CASE th[t].p \notin over /\ Q!Goes(t, "recv")
    <3>1. ~th[t].over
      BY <2>1, <2>3 DEF Placing
    <3> QED
      BY <1>1, <1>2, <2>1, <2>3, <3>1, MovePasses
  <2> QED
    BY <1>4, <2>2, <2>3 DEF Q!Read
<1>5. CASE Q!Recv(t)
  <2>1. th[t].at = "recv" /\ th[t].at \in Working /\ th[t].op # "wait"
    BY <1>3, <1>5 DEF Q!Recv, Q!At, Working, Using
  <2>2. CASE Q!Ends(t, "done") \/ Q!Ends(t, "error")
    BY <1>1, <1>2, <2>1, <2>2, EndPasses
  <2>3. CASE Q!Goes(t, "close")
    BY <1>1, <1>2, <2>1, <2>3, MovePasses
  <2> QED
    BY <1>5, <2>2, <2>3 DEF Q!Recv
<1>6. CASE Q!Write(t)
  <2>1. th[t].at = "write" /\ th[t].at \in Working /\ th[t].op # "wait"
    BY <1>3, <1>6 DEF Q!Write, Q!At, Working
  <2>2. CASE Q!Ends(t, "closed")
    BY <1>1, <1>2, <2>1, <2>2, EndPasses
  <2>3. CASE th[t].p \notin over /\ Q!Goes(t, "lock")
    <3>1. ~th[t].over
      BY <2>1, <2>3 DEF Placing
    <3> QED
      BY <1>1, <1>2, <2>1, <2>3, <3>1, MovePasses
  <2> QED
    BY <1>6, <2>2, <2>3 DEF Q!Write
<1>7. CASE Q!Lock(t)
  <2>1. /\ th[t].at = "lock" /\ th[t].at \in Working /\ th[t].op # "wait" /\ ~th[t].over
        /\ Q!Goes(t, "send")
    BY <1>3, <1>7 DEF Q!Lock, Q!At, Working, Using
  <2> QED
    BY <1>1, <1>2, <2>1, MovePasses
<1>8. CASE Q!Send(t)
  <2>1. th[t].op # "wait" /\ (Q!Ends(t, "done") \/ Q!Ends(t, "error"))
    BY <1>3, <1>8 DEF Q!Send, Q!At
  <2> QED
    BY <1>1, <1>2, <2>1, EndPasses
<1>9. CASE Q!Wait(t)
  <2>1. Q!Ends(t, "done") /\ th[t].p \in over /\ procs[th[t].p] # 0
    BY <1>3, <1>9 DEF Q!Wait, Q!At, Working
  <2> QED
    BY <1>1, <1>2, <2>1, EndPasses
<1>10. CASE Q!Acquire(t) /\ holder # 0
  <2>1. Q!Ends(t, "busy")
    BY <1>10 DEF Q!Acquire
  <2> QED
    BY <1>1, <1>2, <2>1, EndPasses
<1>11. CASE Q!Close(t) /\ ~Q!Claims(th[t].p)
  <2>1. th[t].op # "wait" /\ (Q!Ends(t, "eof") \/ Q!Ends(t, "done"))
    BY <1>3, <1>11 DEF Q!Close, Q!At
  <2> QED
    BY <1>1, <1>2, <2>1, EndPasses
<1> QED
  BY <1>4, <1>5, <1>6, <1>7, <1>8, <1>9, <1>10, <1>11

(* Such a step keeps all but what it says itself.                          *)
LEMMA PassKeeps ==
  ASSUME ConsoleTyped, Placing, OneTears, LeaseHeld, OneEach, Letting, EndsLast,
         NEW t \in Callers, Passes(t)
  PROVE  ConsoleTyped' /\ Placing' /\ OneTears' /\ LeaseHeld' /\ OneEach' /\ Letting' /\ EndsLast'
<1>1. OneTears' /\ LeaseHeld' /\ OneEach' /\ Letting' /\ EndsLast'
  BY StillKeeps DEF Passes
<1>2. ConsoleTyped'
  BY DEF ConsoleTyped, Passes, Still, Others, LeasedTo
<1>3. Placing'
  BY DEF Placing, Passes, Still, Others, Elsewhere, Q!At, Q!Busy, Q!Owns, Tearing
<1> QED
  BY <1>1, <1>2, <1>3

LEMMA FinishingKept ==
  ASSUME NEW t \in Callers, Others(t), th[t].at # "finish", th'[t].at # "finish"
  PROVE  \A p: Finishing(p)' <=> Finishing(p)
<1> SUFFICES ASSUME NEW p PROVE Finishing(p)' <=> Finishing(p)
  OBVIOUS
<1>1. Finishing(p)' => Finishing(p)
  BY DEF Finishing, Q!At, Others
<1>2. Finishing(p) => Finishing(p)'
  BY DEF Finishing, Q!At, Others
<1> QED
  BY <1>1, <1>2

(* `open` takes a free lease for a new process, which has no stream yet.   *)
LEMMA AcquireKeeps ==
  ASSUME ConsoleTyped, Placing, OneTears, LeaseHeld, OneEach, Letting, EndsLast,
         NEW t \in Callers, Q!Acquire(t), holder = 0
  PROVE  ConsoleTyped' /\ Placing' /\ OneTears' /\ LeaseHeld' /\ OneEach' /\ Letting' /\ EndsLast'
<1> DEFINE new == Len(procs) + 1
<1>1. /\ Q!At(t, "acquire") /\ procs' = Append(procs, 0) /\ holder' = Len(procs')
      /\ th' = [th EXCEPT ![t].at = "open", ![t].p = Len(procs')]
      /\ UNCHANGED <<kind, streams, stream, over, claimed>>
  BY DEF Q!Acquire
<1>2. /\ procs' \in Seq(Nat) /\ Len(procs') = new /\ procs'[new] = 0
      /\ \A p \in LeasedTo: procs'[p] = procs[p]
      /\ Len(procs) \in Nat
  BY <1>1 DEF ConsoleTyped, LeasedTo
<1> DEFINE c == [th[t] EXCEPT !.at = "open", !.p = new]
<1>3. /\ c \in Calling
      /\ c.at = "open" /\ c.p = new /\ c.op = th[t].op /\ c.over = th[t].over
  <2>1. th[t] \in Calling /\ new \in Nat
    BY <1>2 DEF ConsoleTyped
  <2> QED
    BY <2>1 DEF Calling
<1>4. th' = [th EXCEPT ![t] = c]
  BY <1>1, <1>2
<1> HIDE DEF c
<1>5. th' \in [Callers -> Calling] /\ th'[t] = c /\ Others(t)
  BY <1>3, <1>4 DEF ConsoleTyped, Others
<1>6. \A u \in Callers: ~Q!At(u, "open") /\ th[u].at \notin Tearing
  <2>1. holder \notin claimed
    BY DEF ConsoleTyped, LeasedTo
  <2> QED
    BY <2>1 DEF Placing
<1>7. th[t].op # "wait" /\ ~th[t].over
  <2>1. th[t].p = 0 /\ (th[t].over => th[t].p \in over) /\ th[t].op # "wait"
    BY <1>1 DEF Placing, Q!At
  <2> QED
    BY <2>1 DEF ConsoleTyped, LeasedTo
<1>8. \A p: Finishing(p)' <=> Finishing(p)
  BY <1>1, <1>3, <1>5, FinishingKept DEF Q!At
<1>9. holder' = new
  BY <1>1, <1>2
<1>10. ConsoleTyped'
  <2>1. /\ LeasedTo' = LeasedTo \cup {new} /\ new \in Nat
        /\ \A p \in LeasedTo': procs'[p] <= Len(streams')
    BY <1>1, <1>2 DEF ConsoleTyped, LeasedTo
  <2>2. \A u \in Callers: th'[u].p <= Len(procs')
    BY <1>2, <1>3, <1>5, SMTT(30) DEF ConsoleTyped, Others, Calling
  <2>3. holder' \in 0 .. Len(procs') /\ over' \subseteq LeasedTo' /\ claimed' \subseteq LeasedTo'
    BY <1>1, <1>2, <1>9, <2>1 DEF ConsoleTyped
  <2>4. /\ kind' \in Q!Kinds /\ streams' \in Seq([over: BOOLEAN, gone: Nat])
        /\ stream' \in 0 .. Len(streams')
    BY <1>1 DEF ConsoleTyped
  <2> QED
    BY <1>2, <1>5, <2>1, <2>2, <2>3, <2>4 DEF ConsoleTyped
<1>11. Placing'
  <2> SUFFICES ASSUME NEW u \in Callers
               PROVE  /\ Q!At(u, "open")'
                             => th'[u].p # 0 /\ th'[u].p = holder' /\ procs'[holder'] = 0
                      /\ Q!At(u, "acquire")' => th'[u].p = 0
                      /\ th'[u].at \in Working => th'[u].p # 0 /\ procs'[th'[u].p] # 0
                      /\ th'[u].at \in Tearing => th'[u].p = holder' /\ holder' \in claimed'
                      /\ th'[u].at \in {"finish", "fail"} => Q!Owns'
                      /\ th'[u].op = "wait" => th'[u].at \in {"wait", "idle"}
                      /\ th'[u].op = "wait" /\ th'[u].end = "done" /\ ~Q!Busy(u)'
                             => th'[u].p \in over' /\ procs'[th'[u].p] # 0
                      /\ th'[u].over /\ th'[u].at # "idle" => th'[u].p \in over'
                      /\ th'[u].at \in Using => ~th'[u].over
    BY DEF Placing
  <2>1. CASE u = t
    <3>1. /\ th'[u].at = "open" /\ th'[u].p = new /\ new # 0 /\ ~th'[u].over
          /\ th'[u].op # "wait"
      BY <1>2, <1>3, <1>5, <1>7, <2>1
    <3> QED
      BY <1>2, <1>9, <3>1 DEF Q!At, Q!Busy, Working, Using, Tearing
  <2>2. CASE u # t
    <3>1. th'[u] = th[u] /\ th[u].p \in 0 .. Len(procs) /\ over \subseteq LeasedTo
      BY <1>5, <2>2 DEF Others, ConsoleTyped, Calling
    <3>2. th[u].p # 0 => procs'[th[u].p] = procs[th[u].p]
      BY <1>2, <3>1 DEF LeasedTo
    <3>3. th[u].p \in over => th[u].p # 0
      BY <3>1 DEF LeasedTo
    <3>4. /\ th[u].at = "acquire" => th[u].p = 0
          /\ th[u].at \in Working => th[u].p # 0 /\ procs[th[u].p] # 0
          /\ th[u].at \in {"finish", "fail"} => Q!Owns
          /\ th[u].op = "wait" => th[u].at \in {"wait", "idle"}
          /\ th[u].op = "wait" /\ th[u].end = "done" /\ th[u].at = "idle"
                 => th[u].p \in over /\ procs[th[u].p] # 0
          /\ th[u].over /\ th[u].at # "idle" => th[u].p \in over
          /\ th[u].at \in Using => ~th[u].over
      BY DEF Placing, Q!At, Q!Busy
    <3>5. th[u].at # "open" /\ th[u].at \notin Tearing
      BY <1>6 DEF Q!At
    <3>6. UNCHANGED <<kind, over>>
      BY <1>1
    <3> QED
      BY <3>1, <3>2, <3>3, <3>4, <3>5, <3>6 DEF Q!At, Q!Busy, Q!Owns
  <2> QED
    BY <2>1, <2>2
<1>12. OneTears'
  BY <1>3, <1>5, <1>6 DEF OneTears, Others, Q!At, Tearing
<1>13. LeaseHeld'
  <2>1. Q!At(t, "open")'
    BY <1>3, <1>5 DEF Q!At
  <2>2. /\ new \notin claimed /\ new \notin over /\ claimed \subseteq LeasedTo
        /\ LeasedTo' = LeasedTo \cup {new}
    BY <1>2 DEF ConsoleTyped, LeasedTo
  <2>3. \A p \in LeasedTo: procs[p] = 0 \/ p \in claimed
    BY DEF LeaseHeld, LeasedTo
  <2> QED
    BY <1>1, <1>2, <1>9, <2>1, <2>2, <2>3 DEF LeaseHeld
<1>14. LeasedTo' = LeasedTo \cup {new} /\ new \notin LeasedTo
  BY <1>2 DEF LeasedTo
<1>15. OneEach'
  <2>1. Unleased' <=> Unleased
    BY <1>1, <1>2, <1>14 DEF Unleased
  <2>2. Q!Owns' <=> Q!Owns
    BY <1>1 DEF Q!Owns
  <2> SUFFICES ASSUME Q!Owns
               PROVE  /\ \A p, q \in LeasedTo': procs'[p] = procs'[q] /\ procs'[p] # 0 => p = q
                      /\ stream # 0 => Unleased
                      /\ \A s \in 1 .. Len(streams): \/ \E p \in LeasedTo': procs'[p] = s
                                                     \/ Unleased /\ s = stream
    BY <1>1, <2>1, <2>2 DEF OneEach
  <2> QED
    BY <1>2, <1>14 DEF OneEach
<1>16. Letting'
  <2>1. \A s: TornDown(s)' <=> TornDown(s)
    BY <1>1, <1>2, <1>8 DEF TornDown, ConsoleTyped
  <2> QED
    BY <1>1, <2>1 DEF Letting, Q!Owns
<1>17. EndsLast'
  BY <1>1, <1>2, <1>8 DEF EndsLast, ConsoleTyped
<1> QED
  BY <1>10, <1>11, <1>12, <1>13, <1>15, <1>16, <1>17

(* It then gives it the stream there is, or a new one.                     *)
LEMMA OpenGives ==
  ASSUME ConsoleTyped, Placing, LeaseHeld, OneEach, NEW t \in Callers, Q!Open(t)
  PROVE  /\ th[t].at = "open" /\ holder # 0 /\ holder \in LeasedTo /\ procs[holder] = 0
         /\ procs' \in Seq(Nat) /\ LeasedTo' = LeasedTo /\ Len(procs') = Len(procs)
         /\ procs'[holder] = stream' /\ \A p \in LeasedTo \ {holder}: procs'[p] = procs[p]
         /\ stream' \in 1 .. Len(streams')
         /\ \/ streams' = streams /\ stream' = stream
            \/ /\ streams' = Append(streams, Q!Fresh) /\ stream' = Len(streams) + 1
               /\ kind = "factory"
         /\ Q!Owns => \A p \in LeasedTo: procs[p] # stream'
         /\ UNCHANGED <<kind, holder, over, claimed>>
<1>1. /\ th[t].at = "open" /\ holder # 0 /\ th[t].p = holder /\ procs[holder] = 0
      /\ holder \in LeasedTo
  BY DEF Q!Open, Q!At, Placing, ConsoleTyped, LeasedTo
<1>2. procs' = [procs EXCEPT ![holder] = stream']
  BY <1>1 DEF Q!Open
<1>3. stream' \in 1 .. Len(streams') /\ stream' \in Nat
  BY DEF Q!Open, ConsoleTyped, Q!Fresh
<1>4. /\ procs' \in Seq(Nat) /\ Len(procs') = Len(procs)
      /\ procs'[holder] = stream' /\ \A p \in LeasedTo \ {holder}: procs'[p] = procs[p]
  <2>1. procs \in Seq(Nat) /\ holder \in 1 .. Len(procs)
    BY <1>1 DEF ConsoleTyped, LeasedTo
  <2> QED
    BY <1>2, <1>3, <2>1, ExceptSeq DEF LeasedTo
<1>5. \/ streams' = streams /\ stream' = stream /\ stream # 0
      \/ /\ streams' = Append(streams, Q!Fresh) /\ stream' = Len(streams) + 1
         /\ kind = "factory"
  BY DEF Q!Open, ConsoleTyped, Q!Fresh
<1>6. Q!Owns => \A p \in LeasedTo: procs[p] # stream'
  <2>1. CASE streams' = streams /\ stream' = stream /\ stream # 0
    BY <1>1, <2>1 DEF OneEach, Unleased
  <2>2. CASE stream' = Len(streams) + 1
    BY <2>2 DEF ConsoleTyped
  <2> QED
    BY <1>5, <2>1, <2>2
<1>7. UNCHANGED <<kind, holder, over, claimed>>
  BY DEF Q!Open, Q!lease
<1> QED
  BY <1>1, <1>3, <1>4, <1>5, <1>6, <1>7 DEF LeasedTo

LEMMA OpenKeeps ==
  ASSUME ConsoleTyped, Placing, OneTears, LeaseHeld, OneEach, Letting, EndsLast,
         NEW t \in Callers, Q!Open(t)
  PROVE  ConsoleTyped' /\ Placing' /\ OneTears' /\ LeaseHeld' /\ OneEach' /\ Letting' /\ EndsLast'
<1>1. /\ th[t].at = "open" /\ holder # 0 /\ holder \in LeasedTo /\ procs[holder] = 0
      /\ procs' \in Seq(Nat) /\ LeasedTo' = LeasedTo /\ Len(procs') = Len(procs)
      /\ procs'[holder] = stream' /\ \A p \in LeasedTo \ {holder}: procs'[p] = procs[p]
      /\ stream' \in 1 .. Len(streams')
      /\ Q!Owns => \A p \in LeasedTo: procs[p] # stream'
      /\ UNCHANGED <<kind, holder, over, claimed>>
  BY OpenGives
<1>2. \/ streams' = streams /\ stream' = stream
      \/ /\ streams' = Append(streams, Q!Fresh) /\ stream' = Len(streams) + 1
         /\ kind = "factory"
  BY OpenGives
<1>3. /\ streams' \in Seq([over: BOOLEAN, gone: Nat]) /\ Len(streams) <= Len(streams')
      /\ \A s \in 1 .. Len(streams): streams'[s] = streams[s]
      /\ \A s \in 1 .. Len(streams'): \/ s \in 1 .. Len(streams)
                                      \/ s = stream' /\ streams'[s] = Q!Fresh
  <2>1. Q!Fresh \in [over: BOOLEAN, gone: Nat] /\ Len(streams) \in Nat
    BY DEF ConsoleTyped, Q!Fresh
  <2>2. CASE streams' = streams
    BY <2>1, <2>2 DEF ConsoleTyped
  <2>3. CASE streams' = Append(streams, Q!Fresh) /\ stream' = Len(streams) + 1
    BY <2>1, <2>3 DEF ConsoleTyped
  <2> QED
    BY <1>2, <2>2, <2>3
<1>4. /\ th' \in [Callers -> Calling]
      /\ th'[t].at = "idle" /\ th'[t].p = th[t].p /\ th'[t].op = th[t].op
      /\ th'[t].over = FALSE /\ th'[t].end \in {"opened", "unmade"} /\ Others(t)
  <2>1. PICK how \in {"opened", "unmade"}: Q!Ends(t, how)
    BY DEF Q!Open
  <2> QED
    BY <2>1, EndsWith DEF ConsoleTyped, Others
<1>5. \A p: Finishing(p)' <=> Finishing(p)
  BY <1>1, <1>4, FinishingKept
<1>6. holder \notin claimed /\ \A p \in claimed: p \in LeasedTo /\ procs'[p] = procs[p]
  BY <1>1 DEF LeaseHeld, ConsoleTyped
<1>7. \A p \in LeasedTo: procs[p] # 0 => procs'[p] = procs[p] /\ p # holder
  BY <1>1
<1>8. ConsoleTyped'
  <2>1. ASSUME NEW p \in LeasedTo' PROVE procs'[p] <= Len(streams')
    <3>1. \/ procs'[p] = stream'
          \/ procs'[p] = procs[p] /\ procs[p] <= Len(streams) /\ procs[p] \in Nat
      BY <1>1, SMTT(30) DEF ConsoleTyped, LeasedTo
    <3>2. Len(streams) \in Nat /\ Len(streams') \in Nat /\ stream' <= Len(streams')
      BY <1>1, <1>3 DEF ConsoleTyped
    <3> QED
      BY <1>3, <3>1, <3>2
  <2>2. \A u \in Callers: th'[u].p <= Len(procs')
    BY <1>1, <1>4 DEF ConsoleTyped, Others
  <2> QED
    BY <1>1, <1>3, <1>4, <2>1, <2>2, SMTT(30) DEF ConsoleTyped
<1>9. \A u \in Callers \ {t}: ~Q!At(u, "open") /\ th[u].at \notin Tearing
  BY <1>1, <1>6 DEF OneTears, Q!At, Placing
<1>10. Placing'
  <2>1. ASSUME NEW u \in Callers
        PROVE  /\ Q!At(u, "acquire")' => th'[u].p = 0
               /\ Q!At(u, "open")' => th'[u].p # 0 /\ th'[u].p = holder' /\ procs'[holder'] = 0
               /\ th'[u].at \in Working => th'[u].p # 0 /\ procs'[th'[u].p] # 0
               /\ th'[u].at \in Tearing => th'[u].p = holder' /\ holder' \in claimed'
               /\ th'[u].at \in {"finish", "fail"} => Q!Owns'
               /\ th'[u].op = "wait" => th'[u].at \in {"wait", "idle"}
               /\ th'[u].op = "wait" /\ th'[u].end = "done" /\ ~Q!Busy(u)'
                      => th'[u].p \in over' /\ procs'[th'[u].p] # 0
               /\ th'[u].over /\ th'[u].at # "idle" => th'[u].p \in over'
               /\ th'[u].at \in Using => ~th'[u].over
    <3>1. CASE u = t
      BY <1>1, <1>4, <3>1 DEF Q!At, Q!Busy, Working, Using, Tearing
    <3>2. CASE u # t
      <4>1. th'[u] = th[u] /\ th[u].p \in 0 .. Len(procs)
        BY <1>4, <3>2 DEF Others, ConsoleTyped, Calling
      <4>2. th[u].p # 0 /\ procs[th[u].p] # 0 => procs'[th[u].p] = procs[th[u].p]
        BY <1>7, <4>1 DEF LeasedTo
      <4>3. th[u].p \in over => th[u].p # 0
        BY DEF ConsoleTyped, LeasedTo
      <4> QED
        BY <1>1, <1>9, <3>2, <4>1, <4>2, <4>3 DEF Q!At, Q!Busy, Q!Owns, Placing
    <3> QED
      BY <3>1, <3>2
  <2> QED
    BY <2>1 DEF Placing
<1>11. OneTears'
  BY <1>4, <1>9 DEF OneTears, Others, Q!At, Tearing
<1>12. LeaseHeld'
  <2>1. stream' # 0
    BY <1>1
  <2> QED
    BY <1>1, <1>6, <1>7, <2>1 DEF LeaseHeld
<1>13. OneEach'
  <2> SUFFICES ASSUME Q!Owns
               PROVE  /\ \A p, q \in LeasedTo: procs'[p] = procs'[q] /\ procs'[p] # 0 => p = q
                      /\ \A s \in 1 .. Len(streams'): \E p \in LeasedTo: procs'[p] = s
    BY <1>1 DEF OneEach, Q!Owns
  <2>1. \A p, q \in LeasedTo: procs'[p] = procs'[q] /\ procs'[p] # 0 => p = q
    BY <1>1 DEF OneEach
  <2>2. ASSUME NEW s \in 1 .. Len(streams') PROVE \E p \in LeasedTo: procs'[p] = s
    <3>1. CASE s = stream'
      BY <1>1, <3>1
    <3>2. CASE s # stream'
      <4>1. s \in 1 .. Len(streams)
        BY <1>3, <3>2
      <4>2. PICK p \in LeasedTo: procs[p] = s
        <5>1. CASE Unleased /\ s = stream
          BY <1>2, <3>2, <5>1 DEF Unleased
        <5> QED
          BY <4>1, <5>1 DEF OneEach
      <4> QED
        BY <1>7, <4>1, <4>2
    <3> QED
      BY <3>1, <3>2
  <2> QED
    BY <2>1, <2>2
<1>14. Letting'
  <2>1. \A s: TornDown(s)' <=> TornDown(s)
    BY <1>1, <1>5, <1>6 DEF TornDown
  <2>2. \A s \in 1 .. Len(streams'): s \notin 1 .. Len(streams) => ~TornDown(s)
    BY <1>6 DEF TornDown, ConsoleTyped, LeasedTo
  <2>3. ASSUME NEW s \in 1 .. Len(streams')
        PROVE  streams'[s].gone = IF Q!Owns /\ TornDown(s) THEN 1 ELSE 0
    <3>1. CASE s \in 1 .. Len(streams)
      BY <1>3, <3>1 DEF Letting
    <3>2. CASE s \notin 1 .. Len(streams)
      BY <1>3, <2>2, <3>2 DEF Q!Fresh
    <3> QED
      BY <3>1, <3>2
  <2> QED
    BY <1>1, <2>1, <2>3 DEF Letting, Q!Owns
<1>15. EndsLast'
  <2>1. holder \notin over
    BY <1>6 DEF LeaseHeld
  <2> QED
    BY <1>1, <1>5, <1>7, <2>1 DEF EndsLast, ConsoleTyped
<1> QED
  BY <1>8, <1>10, <1>11, <1>12, <1>13, <1>14, <1>15

(* A token is given back: nobody has the lease then, and a stream that the *)
(* console owns is forgotten.                                              *)
LEMMA LeaveKeeps ==
  ASSUME ConsoleTyped, Placing, OneTears, LeaseHeld, OneEach, Letting, EndsLast,
         NEW t \in Callers, holder # 0, th[t].p = holder, Q!Release(holder), Others(t),
         \/ th[t].at = "open" /\ stream = 0
         \/ th[t].at \in {"release", "fail"},
         th' \in [Callers -> Calling], th'[t].at = "idle", th'[t].p = holder,
         th'[t].op = th[t].op,
         UNCHANGED <<kind, streams, claimed, procs>>
  PROVE  ConsoleTyped' /\ Placing' /\ OneTears' /\ LeaseHeld' /\ OneEach' /\ Letting' /\ EndsLast'
<1>1. /\ holder' = 0 /\ over' = over \cup {holder}
      /\ stream' = IF Q!Owns THEN 0 ELSE stream
  BY DEF Q!Release
<1>2. holder \in LeasedTo
  BY DEF ConsoleTyped, LeasedTo
<1>3. /\ LeasedTo' = LeasedTo /\ (Q!Owns' <=> Q!Owns) /\ (Unleased' <=> Unleased)
  BY DEF LeasedTo, Q!Owns, Unleased
<1>4. \A p: Finishing(p)' <=> Finishing(p)
  BY FinishingKept
<1>5. \/ th[t].at = "open" /\ procs[holder] = 0 /\ stream = 0 /\ holder \notin claimed
      \/ th[t].at \in Tearing /\ procs[holder] # 0 /\ holder \in claimed
  BY DEF Placing, LeaseHeld, Q!At, Tearing
<1>6. \A u \in Callers \ {t}: ~Q!At(u, "open") /\ th[u].at \notin Tearing
  BY <1>5 DEF OneTears, Q!At, Placing
<1>7. ConsoleTyped'
  BY <1>1, <1>2, <1>3, SMTT(30) DEF ConsoleTyped, Others
<1>8. th[t].op # "wait"
  BY <1>5 DEF Placing, Tearing
<1>9. Placing'
  <2>1. ASSUME NEW u \in Callers
        PROVE  /\ Q!At(u, "acquire")' => th'[u].p = 0
               /\ Q!At(u, "open")' => th'[u].p # 0 /\ th'[u].p = holder' /\ procs'[holder'] = 0
               /\ th'[u].at \in Working => th'[u].p # 0 /\ procs'[th'[u].p] # 0
               /\ th'[u].at \in Tearing => th'[u].p = holder' /\ holder' \in claimed'
               /\ th'[u].at \in {"finish", "fail"} => Q!Owns'
               /\ th'[u].op = "wait" => th'[u].at \in {"wait", "idle"}
               /\ th'[u].op = "wait" /\ th'[u].end = "done" /\ ~Q!Busy(u)'
                      => th'[u].p \in over' /\ procs'[th'[u].p] # 0
               /\ th'[u].over /\ th'[u].at # "idle" => th'[u].p \in over'
               /\ th'[u].at \in Using => ~th'[u].over
    <3>1. CASE u = t
      BY <1>8, <3>1 DEF Q!At, Q!Busy, Working, Using, Tearing
    <3>2. CASE u # t
      BY <1>1, <1>3, <1>6, <3>2 DEF Q!At, Q!Busy, Placing, Others
    <3> QED
      BY <3>1, <3>2
  <2> QED
    BY <2>1 DEF Placing
<1>10. OneTears'
  BY <1>6 DEF OneTears, Others, Q!At, Tearing
<1>11. LeaseHeld'
  <2>1. 0 \notin over'
    BY <1>1, <1>2 DEF ConsoleTyped, LeasedTo
  <2>2. \A p \in LeasedTo: procs[p] # 0 => p \in claimed
    BY <1>5 DEF LeaseHeld
  <2>3. \A p \in claimed: procs[p] # 0
    BY DEF LeaseHeld
  <2> QED
    BY <1>1, <1>3, <2>1, <2>2, <2>3 DEF LeaseHeld
<1>12. OneEach'
  <2> SUFFICES ASSUME Q!Owns
               PROVE  \A s \in 1 .. Len(streams): \/ \E p \in LeasedTo: procs[p] = s
                                                  \/ Unleased /\ s = stream'
    BY <1>1, <1>3 DEF OneEach
  <2>1. \/ th[t].at = "open" /\ stream' = stream
        \/ ~Unleased
    BY <1>1, <1>2, <1>5 DEF Unleased
  <2> QED
    BY <2>1 DEF OneEach
<1>13. Letting'
  BY <1>3, <1>4 DEF Letting, TornDown
<1>14. EndsLast'
  <2>1. procs[holder] # 0 => holder \in claimed /\ ~Finishing(holder)
    BY <1>5, <1>6 DEF Finishing, Q!At, Tearing
  <2> QED
    BY <1>1, <1>4, <2>1 DEF EndsLast
<1> QED
  BY <1>7, <1>9, <1>10, <1>11, <1>12, <1>13, <1>14

(* `_closed` is set before the lease is given back.                        *)
LEMMA MarkKeeps ==
  ASSUME ConsoleTyped, Placing, OneTears, LeaseHeld, OneEach, Letting, EndsLast,
         NEW t \in Callers, Q!MarkEnded(t), UNCHANGED <<kind, streams, claimed, procs>>
  PROVE  ConsoleTyped' /\ Placing' /\ OneTears' /\ LeaseHeld' /\ OneEach' /\ Letting' /\ EndsLast'
<1>1. /\ th[t].at = "release" /\ th[t].p = holder /\ holder \in claimed /\ holder \in LeasedTo
      /\ over' = over \cup {holder}
      /\ UNCHANGED <<holder, stream, th>>
  BY DEF Q!MarkEnded, Q!At, Placing, Tearing, ConsoleTyped
<1>2. /\ LeasedTo' = LeasedTo /\ (Q!Owns' <=> Q!Owns) /\ (Unleased' <=> Unleased)
      /\ \A p: Finishing(p)' <=> Finishing(p)
  BY <1>1 DEF LeasedTo, Q!Owns, Unleased, Finishing, Q!At
<1>3. ~Finishing(holder)
  BY <1>1 DEF Finishing, Q!At, OneTears, Tearing
<1>4. ConsoleTyped'
  BY <1>1, <1>2 DEF ConsoleTyped
<1>5. Placing'
  BY <1>1, <1>2 DEF Placing, Q!At, Q!Busy
<1>6. OneTears'
  BY <1>1 DEF OneTears, Q!At
<1>7. LeaseHeld'
  BY <1>1, <1>2 DEF LeaseHeld, Q!At
<1>8. OneEach'
  BY <1>1, <1>2 DEF OneEach
<1>9. Letting'
  BY <1>2 DEF Letting, TornDown
<1>10. EndsLast'
  BY <1>1, <1>2, <1>3 DEF EndsLast
<1> QED
  BY <1>4, <1>5, <1>6, <1>7, <1>8, <1>9, <1>10

(* Whoever claims a process tears it down.                                 *)
LEMMA ClaimKeeps ==
  ASSUME ConsoleTyped, Placing, OneTears, LeaseHeld, OneEach, Letting, EndsLast,
         NEW t \in Callers, Q!Close(t), Q!Claims(th[t].p)
  PROVE  ConsoleTyped' /\ Placing' /\ OneTears' /\ LeaseHeld' /\ OneEach' /\ Letting' /\ EndsLast'
<1> DEFINE w == IF Q!Owns THEN "finish" ELSE "release"
<1>1. /\ th[t].at = "close" /\ th[t].p # 0 /\ procs[th[t].p] # 0 /\ th[t].p \in LeasedTo
      /\ th[t].op # "wait"
  <2>1. th[t].at = "close" /\ th[t].at \in Working /\ th[t].p \in Nat /\ th[t].p <= Len(procs)
    BY DEF Q!Close, Q!At, Working, ConsoleTyped, Calling
  <2>2. th[t].p # 0 /\ procs[th[t].p] # 0 /\ th[t].op # "wait"
    BY <2>1 DEF Placing
  <2> QED
    BY <2>1, <2>2 DEF LeasedTo
<1>2. th[t].p = holder /\ holder \notin claimed /\ holder \notin over
  BY <1>1 DEF Q!Claims, LeaseHeld
<1>3. /\ claimed' = claimed \cup {holder} /\ Q!Goes(t, w)
      /\ UNCHANGED <<kind, streams, stream, holder, over, procs>>
  BY <1>2 DEF Q!Close, Q!lease
<1>4. w \in Tearing /\ w # "fail" /\ (w = "finish" <=> Q!Owns)
  BY DEF Tearing
<1> HIDE DEF w
<1>5. /\ th' \in [Callers -> Calling]
      /\ th'[t].at = w /\ th'[t].p = holder /\ th'[t].op = th[t].op
      /\ th'[t].over = th[t].over /\ Others(t)
  BY <1>2, <1>3, <1>4, MovesTo DEF ConsoleTyped, Working, Others
<1>6. \A u \in Callers: ~Q!At(u, "open") /\ th[u].at \notin Tearing
  BY <1>1, <1>2 DEF Placing
<1>7. /\ LeasedTo' = LeasedTo /\ (Q!Owns' <=> Q!Owns) /\ (Unleased' <=> Unleased)
  BY <1>3 DEF LeasedTo, Q!Owns, Unleased
<1>8. ConsoleTyped'
  BY <1>1, <1>2, <1>3, <1>5, <1>7 DEF ConsoleTyped, Others
<1>9. Placing'
  <2>1. ASSUME NEW u \in Callers
        PROVE  /\ Q!At(u, "acquire")' => th'[u].p = 0
               /\ Q!At(u, "open")' => th'[u].p # 0 /\ th'[u].p = holder' /\ procs'[holder'] = 0
               /\ th'[u].at \in Working => th'[u].p # 0 /\ procs'[th'[u].p] # 0
               /\ th'[u].at \in Tearing => th'[u].p = holder' /\ holder' \in claimed'
               /\ th'[u].at \in {"finish", "fail"} => Q!Owns'
               /\ th'[u].op = "wait" => th'[u].at \in {"wait", "idle"}
               /\ th'[u].op = "wait" /\ th'[u].end = "done" /\ ~Q!Busy(u)'
                      => th'[u].p \in over' /\ procs'[th'[u].p] # 0
               /\ th'[u].over /\ th'[u].at # "idle" => th'[u].p \in over'
               /\ th'[u].at \in Using => ~th'[u].over
    <3>1. CASE u = t
      <4>1. th[t].over => th[t].p \in over
        BY <1>1 DEF Placing
      <4> QED
        BY <1>1, <1>2, <1>3, <1>4, <1>5, <1>7, <3>1, <4>1 DEF Q!At, Q!Busy, Using, Tearing
    <3>2. CASE u # t
      BY <1>3, <1>5, <1>6, <1>7, <3>2 DEF Q!At, Q!Busy, Placing, Others
    <3> QED
      BY <3>1, <3>2
  <2> QED
    BY <2>1 DEF Placing
<1>10. OneTears'
  BY <1>4, <1>5, <1>6 DEF OneTears, Others, Q!At, Tearing
<1>11. LeaseHeld'
  BY <1>1, <1>2, <1>3, <1>4, <1>5, <1>7 DEF LeaseHeld
<1>12. OneEach'
  BY <1>3, <1>7 DEF OneEach
<1>13. \A p: p # holder => (Finishing(p)' <=> Finishing(p))
  <2> SUFFICES ASSUME NEW p, p # holder PROVE Finishing(p)' <=> Finishing(p)
    OBVIOUS
  <2>1. Finishing(p)' => Finishing(p)
    BY <1>5 DEF Finishing, Q!At, Others
  <2>2. Finishing(p) => Finishing(p)'
    BY <1>1, <1>5 DEF Finishing, Q!At, Others
  <2> QED
    BY <2>1, <2>2
<1>14. Letting'
  <2>1. Q!Owns => Finishing(holder)'
    <3>1. Q!Owns => Q!At(t, "finish")' /\ th'[t].p = holder'
      BY <1>3, <1>4, <1>5 DEF Q!At
    <3> QED
      BY <1>3, <3>1 DEF Finishing
  <2>2. Q!Owns => \A s: TornDown(s)' <=> TornDown(s)
    BY <1>2, <1>3, <1>13, <2>1 DEF TornDown
  <2> QED
    BY <1>3, <1>7, <2>2 DEF Letting
<1>15. EndsLast'
  BY <1>2, <1>3, <1>13 DEF EndsLast
<1> QED
  BY <1>8, <1>9, <1>10, <1>11, <1>12, <1>14, <1>15

(* The stream is finished, or aborted, and so let go of.                   *)
LEMMA FinishKeeps ==
  ASSUME ConsoleTyped, Placing, OneTears, LeaseHeld, OneEach, Letting, EndsLast,
         NEW t \in Callers, Q!Finish(t)
  PROVE  ConsoleTyped' /\ Placing' /\ OneTears' /\ LeaseHeld' /\ OneEach' /\ Letting' /\ EndsLast'
<1>1. /\ th[t].at = "finish" /\ th[t].p = holder /\ holder # 0 /\ holder \in LeasedTo
      /\ holder \in claimed /\ procs[holder] # 0 /\ Q!Owns /\ th[t].op # "wait"
  BY DEF Q!Finish, Q!At, Placing, Working, Tearing, ConsoleTyped, LeasedTo
<1>2. PICK w \in {"release", "fail"}: Q!Goes(t, w)
  BY DEF Q!Finish
<1>3. UNCHANGED <<kind, stream, holder, over, claimed, procs>>
  BY DEF Q!Finish, Q!lease
<1>4. PICK s \in 1 .. Len(streams): s = procs[holder]
  BY <1>1 DEF ConsoleTyped, LeasedTo
<1>5. streams' = [streams EXCEPT ![s].gone = @ + 1]
  BY <1>1, <1>4 DEF Q!Finish, Q!Stream
<1>6. /\ streams' \in Seq([over: BOOLEAN, gone: Nat]) /\ Len(streams') = Len(streams)
      /\ streams'[s].gone = streams[s].gone + 1
      /\ \A r \in 1 .. Len(streams) \ {s}: streams'[r] = streams[r]
  <2> DEFINE b == [streams[s] EXCEPT !.gone = @ + 1]
  <2>1. streams[s] \in [over: BOOLEAN, gone: Nat]
    <3>1. streams \in Seq([over: BOOLEAN, gone: Nat])
      BY DEF ConsoleTyped
    <3> QED
      BY <1>4, <3>1, ElementOfSeq
  <2>2. b \in [over: BOOLEAN, gone: Nat] /\ b.gone = streams[s].gone + 1
    BY <2>1
  <2>3. streams' = [streams EXCEPT ![s] = b]
    BY <1>5
  <2> HIDE DEF b
  <2> QED
    BY <1>4, <2>2, <2>3, ExceptSeq DEF ConsoleTyped
<1>7. /\ th' \in [Callers -> Calling]
      /\ th'[t].at = w /\ th'[t].p = holder /\ th'[t].op = th[t].op
      /\ th'[t].over = th[t].over /\ Others(t)
  BY <1>1, <1>2, MovesTo DEF ConsoleTyped, Working, Tearing, Others
<1>8. \A u \in Callers \ {t}: ~Q!At(u, "open") /\ th[u].at \notin Tearing
  BY <1>1 DEF OneTears, Q!At, Placing, Tearing
<1>9. /\ LeasedTo' = LeasedTo /\ (Q!Owns' <=> Q!Owns) /\ (Unleased' <=> Unleased)
  BY <1>3 DEF LeasedTo, Q!Owns, Unleased
<1>10. ConsoleTyped'
  BY <1>1, <1>3, <1>6, <1>7, <1>9 DEF ConsoleTyped, Others
<1>11. Placing'
  <2>1. ASSUME NEW u \in Callers
        PROVE  /\ Q!At(u, "acquire")' => th'[u].p = 0
               /\ Q!At(u, "open")' => th'[u].p # 0 /\ th'[u].p = holder' /\ procs'[holder'] = 0
               /\ th'[u].at \in Working => th'[u].p # 0 /\ procs'[th'[u].p] # 0
               /\ th'[u].at \in Tearing => th'[u].p = holder' /\ holder' \in claimed'
               /\ th'[u].at \in {"finish", "fail"} => Q!Owns'
               /\ th'[u].op = "wait" => th'[u].at \in {"wait", "idle"}
               /\ th'[u].op = "wait" /\ th'[u].end = "done" /\ ~Q!Busy(u)'
                      => th'[u].p \in over' /\ procs'[th'[u].p] # 0
               /\ th'[u].over /\ th'[u].at # "idle" => th'[u].p \in over'
               /\ th'[u].at \in Using => ~th'[u].over
    <3>1. CASE u = t
      <4>1. th[t].over => th[t].p \in over
        BY <1>1 DEF Placing
      <4> QED
        BY <1>1, <1>2, <1>3, <1>7, <1>9, <3>1, <4>1 DEF Q!At, Q!Busy, Using, Tearing
    <3>2. CASE u # t
      BY <1>3, <1>7, <1>9, <3>2 DEF Q!At, Q!Busy, Placing, Others
    <3> QED
      BY <3>1, <3>2
  <2> QED
    BY <2>1 DEF Placing
<1>12. OneTears'
  BY <1>1, <1>2, <1>7, <1>8 DEF OneTears, Others, Q!At, Tearing
<1>13. LeaseHeld'
  <2>1. th'[t].at \in Tearing
    BY <1>2, <1>7 DEF Tearing
  <2> QED
    BY <1>1, <1>3, <1>9, <2>1 DEF LeaseHeld
<1>14. OneEach'
  BY <1>3, <1>6, <1>9 DEF OneEach
<1>15. ~Finishing(holder)' /\ Finishing(holder)
  BY <1>1, <1>2, <1>7, <1>8 DEF Finishing, Q!At, Others, Tearing
<1>16. \A p: p # holder => (Finishing(p)' <=> Finishing(p))
  <2> SUFFICES ASSUME NEW p, p # holder PROVE Finishing(p)' <=> Finishing(p)
    OBVIOUS
  <2>1. Finishing(p)' => Finishing(p)
    BY <1>7 DEF Finishing, Q!At, Others
  <2>2. Finishing(p) => Finishing(p)'
    BY <1>1, <1>7 DEF Finishing, Q!At, Others
  <2> QED
    BY <2>1, <2>2
<1>17. Letting'
  <2>1. \A r: r # s => (TornDown(r)' <=> TornDown(r))
    BY <1>3, <1>4, <1>16 DEF TornDown
  <2>2. ~TornDown(s)
    <3>1. \A p \in claimed: procs[p] = s => p = holder
      BY <1>1, <1>4 DEF OneEach, ConsoleTyped
    <3> QED
      BY <1>15, <3>1 DEF TornDown
  <2>3. TornDown(s)'
    BY <1>1, <1>3, <1>4, <1>15 DEF TornDown
  <2>4. ASSUME NEW r \in 1 .. Len(streams)
        PROVE  streams'[r].gone = IF TornDown(r)' THEN 1 ELSE 0
    <3>1. CASE r = s
      <4>1. streams[s].gone = 0
        BY <1>1, <1>4, <2>2 DEF Letting
      <4> QED
        BY <1>6, <2>3, <3>1, <4>1
    <3>2. CASE r # s
      BY <1>1, <1>6, <2>1, <3>2 DEF Letting
    <3> QED
      BY <3>1, <3>2
  <2> QED
    BY <1>1, <1>6, <1>9, <2>4 DEF Letting
<1>18. EndsLast'
  <2>1. holder \notin over
    BY <1>1, <1>15 DEF EndsLast
  <2> QED
    BY <1>3, <1>16, <2>1 DEF EndsLast
<1> QED
  BY <1>10, <1>11, <1>12, <1>13, <1>14, <1>17, <1>18

(* The guest ends a stream.                                                *)
LEMMA HangupKeeps ==
  ASSUME ConsoleTyped, Placing, OneTears, LeaseHeld, OneEach, Letting, EndsLast, Q!Hangup
  PROVE  ConsoleTyped' /\ Placing' /\ OneTears' /\ LeaseHeld' /\ OneEach' /\ Letting' /\ EndsLast'
<1>1. UNCHANGED <<kind, stream, holder, over, claimed, procs, th>>
  BY DEF Q!Hangup, Q!lease
<1>2. PICK s \in 1 .. Len(streams): streams' = [streams EXCEPT ![s].over = TRUE]
  <2>1. DOMAIN streams = 1 .. Len(streams)
    BY DEF ConsoleTyped
  <2> QED
    BY <2>1 DEF Q!Hangup
<1>3. /\ streams' \in Seq([over: BOOLEAN, gone: Nat]) /\ Len(streams') = Len(streams)
      /\ \A r \in 1 .. Len(streams): streams'[r].gone = streams[r].gone
  <2> DEFINE b == [streams[s] EXCEPT !.over = TRUE]
  <2>1. b \in [over: BOOLEAN, gone: Nat] /\ b.gone = streams[s].gone
    <3>1. streams \in Seq([over: BOOLEAN, gone: Nat])
      BY DEF ConsoleTyped
    <3>2. streams[s] \in [over: BOOLEAN, gone: Nat]
      BY <3>1, ElementOfSeq
    <3> QED
      BY <3>2
  <2>2. streams' = [streams EXCEPT ![s] = b]
    BY <1>2
  <2> HIDE DEF b
  <2> QED
    BY <2>1, <2>2, ExceptSeq DEF ConsoleTyped
<1>4. /\ LeasedTo' = LeasedTo /\ (Q!Owns' <=> Q!Owns) /\ (Unleased' <=> Unleased)
      /\ \A p: Finishing(p)' <=> Finishing(p)
  BY <1>1 DEF LeasedTo, Q!Owns, Unleased, Finishing, Q!At
<1>5. ConsoleTyped'
  BY <1>1, <1>3, <1>4 DEF ConsoleTyped
<1>6. Placing' /\ OneTears' /\ LeaseHeld'
  BY <1>1, <1>4 DEF Placing, OneTears, LeaseHeld, Q!At, Q!Busy
<1>7. OneEach'
  BY <1>1, <1>3, <1>4 DEF OneEach
<1>8. Letting' /\ EndsLast'
  BY <1>1, <1>3, <1>4 DEF Letting, TornDown, EndsLast
<1> QED
  BY <1>5, <1>6, <1>7, <1>8

(* What a read or a write may do to a stream that another process has      *)
(* leased.                                                                 *)
LEMMA StrayKept ==
  ASSUME ConsoleTyped, Placing, OneEach, Q!NeverShared, NEW t \in Callers,
         Q!Strays(t), th[t].at \in Using, UNCHANGED kind
  PROVE  Q!NeverShared'
<1>1. ~th[t].over /\ th[t].p # 0 /\ procs[th[t].p] # 0 /\ th[t].p \in LeasedTo
  BY DEF Placing, Working, ConsoleTyped, Calling, LeasedTo
<1>2. CASE strays' = strays
  BY <1>2 DEF Q!NeverShared
<1>3. CASE /\ strays' = strays \cup {th[t].over}
           /\ holder # 0 /\ holder # th[t].p /\ procs[holder] = procs[th[t].p]
  <2>1. th[t].over = FALSE
    BY <1>1 DEF ConsoleTyped, Calling
  <2>2. holder \in LeasedTo
    BY <1>3 DEF ConsoleTyped, LeasedTo
  <2>3. ~Q!Owns
    BY <1>1, <1>3, <2>2 DEF OneEach
  <2> QED
    BY <1>3, <2>1, <2>3 DEF Q!NeverShared, Q!Owns
<1> QED
  BY <1>2, <1>3 DEF Q!Strays, Q!Stream

LEMMA ConsoleStep ==
  ASSUME ConsoleInv, NEW t \in Callers,
         Q!Step(t) \/ \E o \in {"acquire", "read", "write", "wait", "close"}: Q!Begin(t, o)
  PROVE  ConsoleInv'
<1> DEFINE Kept == /\ ConsoleTyped' /\ Placing' /\ OneTears' /\ LeaseHeld' /\ OneEach' /\ Letting'
                   /\ EndsLast'
<1>0. /\ ConsoleTyped /\ Placing /\ OneTears /\ LeaseHeld /\ OneEach /\ Letting /\ EndsLast
      /\ Q!NeverShared
  BY DEF ConsoleInv
<1>1. ASSUME UNCHANGED <<kind, strays>> PROVE Q!NeverShared'
  BY <1>0, <1>1 DEF Q!NeverShared
<1>2. CASE \E o \in {"acquire", "read", "write", "wait", "close"}: Q!Begin(t, o)
  <2>1. PICK o \in {"acquire", "read", "write", "wait", "close"}: Q!Begin(t, o)
    BY <1>2
  <2>2. Kept
    BY <1>0, <2>1, BeginPasses, PassKeeps
  <2> QED
    BY <1>1, <2>1, <2>2 DEF Q!Begin, ConsoleInv
<1>3. CASE \/ Q!Read(t) \/ Q!Write(t) \/ Q!Lock(t) \/ Q!Wait(t)
           \/ Q!Acquire(t) /\ holder # 0
           \/ Q!Close(t) /\ ~Q!Claims(th[t].p)
  <2>1. Kept
    BY <1>0, <1>3, StepPasses, PassKeeps
  <2>2. UNCHANGED <<kind, strays>>
    BY <1>3 DEF Q!Read, Q!Write, Q!Lock, Q!Wait, Q!Acquire, Q!Close
  <2> QED
    BY <1>1, <2>1, <2>2 DEF ConsoleInv
<1>4. CASE Q!Recv(t) \/ Q!Send(t)
  <2>1. Kept
    BY <1>0, <1>4, StepPasses, PassKeeps
  <2>2. UNCHANGED kind /\ (Q!Strays(t) \/ UNCHANGED strays) /\ th[t].at \in Using
    BY <1>4 DEF Q!Recv, Q!Send, Q!At, Using
  <2>3. Q!NeverShared'
    BY <1>0, <1>1, <2>2, StrayKept
  <2> QED
    BY <2>1, <2>3 DEF ConsoleInv
<1>5. CASE Q!Acquire(t) /\ holder = 0
  <2>1. Kept
    BY <1>0, <1>5, AcquireKeeps
  <2> QED
    BY <1>1, <1>5, <2>1 DEF Q!Acquire, ConsoleInv
<1>6. CASE Q!Open(t)
  <2>1. Kept
    BY <1>0, <1>6, OpenKeeps
  <2> QED
    BY <1>1, <1>6, <2>1 DEF Q!Open, ConsoleInv
<1>7. CASE Q!OpenFails(t)
  <2>1. /\ th[t].at = "open" /\ stream = 0 /\ holder # 0 /\ th[t].p = holder /\ Q!Release(holder)
        /\ UNCHANGED <<kind, streams, claimed, procs, strays>>
        /\ \E how \in {"refused", "consumed"}: Q!Ends(t, how)
    BY <1>0, <1>7 DEF Q!OpenFails, Q!LetsGo, Q!At, Placing
  <2>2. /\ th' \in [Callers -> Calling]
        /\ th'[t].at = "idle" /\ th'[t].p = holder /\ th'[t].op = th[t].op /\ Others(t)
    BY <1>0, <2>1, EndsWith DEF ConsoleTyped, Others
  <2>3. Kept
    BY <1>0, <2>1, <2>2, LeaveKeeps
  <2> QED
    BY <1>1, <2>1, <2>3 DEF ConsoleInv
<1>8. CASE Q!Close(t) /\ Q!Claims(th[t].p)
  <2>1. Kept
    BY <1>0, <1>8, ClaimKeeps
  <2> QED
    BY <1>1, <1>8, <2>1 DEF Q!Close, ConsoleInv
<1>9. CASE Q!Finish(t)
  <2>1. Kept
    BY <1>0, <1>9, FinishKeeps
  <2> QED
    BY <1>1, <1>9, <2>1 DEF Q!Finish, ConsoleInv
<1>10. CASE Q!Leave(t)
  <2>1. UNCHANGED <<kind, streams, claimed, procs, strays>>
    BY <1>10 DEF Q!Leave
  <2>2. CASE Q!MarkEnded(t)
    <3>1. Kept
      BY <1>0, <2>1, <2>2, MarkKeeps
    <3> QED
      BY <1>1, <2>1, <3>1 DEF ConsoleInv
  <2>3. CASE Q!LeaveClosed(t) \/ Q!LeaveFailed(t)
    <3>1. /\ th[t].at \in {"release", "fail"} /\ Q!Release(th[t].p)
          /\ \E how \in {"eof", "done", "error"}: Q!Ends(t, how)
      BY <2>3 DEF Q!LeaveClosed, Q!LeaveFailed, Q!At
    <3>2. th[t].p = holder /\ holder # 0
      BY <1>0, <3>1 DEF Placing, Tearing, Working
    <3>3. /\ th' \in [Callers -> Calling]
          /\ th'[t].at = "idle" /\ th'[t].p = holder /\ th'[t].op = th[t].op /\ Others(t)
      BY <1>0, <3>1, <3>2, EndsWith DEF ConsoleTyped, Others
    <3>4. Kept
      BY <1>0, <2>1, <3>1, <3>2, <3>3, LeaveKeeps
    <3> QED
      BY <1>1, <2>1, <3>4 DEF ConsoleInv
  <2> QED
    BY <1>10, <2>2, <2>3 DEF Q!Leave
<1>11. CASE Q!Step(t)
  <2>1. \/ Q!Acquire(t) \/ Q!Open(t) \/ Q!OpenFails(t) \/ Q!Read(t) \/ Q!Recv(t) \/ Q!Write(t)
        \/ Q!Lock(t) \/ Q!Send(t) \/ Q!Wait(t) \/ Q!Close(t) \/ Q!Finish(t) \/ Q!Leave(t)
    BY <1>11 DEF Q!Step
  <2>2. Q!Acquire(t) => ConsoleInv'
    BY <1>3, <1>5
  <2>3. Q!Close(t) => ConsoleInv'
    BY <1>3, <1>8
  <2>4. Q!Read(t) \/ Q!Write(t) \/ Q!Lock(t) \/ Q!Wait(t) => ConsoleInv'
    BY <1>3
  <2>5. Q!Recv(t) \/ Q!Send(t) => ConsoleInv'
    BY <1>4
  <2> QED
    BY <1>6, <1>7, <1>9, <1>10, <2>1, <2>2, <2>3, <2>4, <2>5
<1> QED
  BY <1>2, <1>11

LEMMA ConsoleSoundFollows ==
  ASSUME ConsoleInv
  PROVE  Q!ConsoleSound
<1>0. /\ ConsoleTyped /\ Placing /\ OneTears /\ LeaseHeld /\ OneEach /\ Letting /\ EndsLast
      /\ Q!NeverShared
  BY DEF ConsoleInv
<1>1. DOMAIN streams = 1 .. Len(streams) /\ DOMAIN procs = LeasedTo
  BY <1>0 DEF ConsoleTyped, LeasedTo
<1>2. Q!LetGoOnce
  BY <1>0, <1>1 DEF Q!LetGoOnce, Letting
<1>3. ASSUME NEW s \in DOMAIN streams, Q!Owns, streams[s].gone = 0, holder = 0
      PROVE  s = stream /\ kind = "owned" /\ procs = [p \in DOMAIN procs |-> 0]
  <2>1. ~TornDown(s)
    BY <1>0, <1>1, <1>3 DEF Letting
  <2>2. ASSUME NEW p \in LeasedTo, procs[p] = s PROVE FALSE
    <3>1. p \in claimed
      BY <1>0, <1>1, <1>3, <2>2 DEF LeaseHeld, LeasedTo
    <3>2. Finishing(p)
      BY <2>1, <2>2, <3>1 DEF TornDown
    <3>3. \A u \in Callers: th[u].at \notin Tearing
      BY <1>0, <1>3 DEF Placing, Working
    <3> QED
      BY <3>2, <3>3 DEF Finishing, Q!At, Tearing
  <2>3. Unleased /\ s = stream
    BY <1>0, <1>1, <1>3, <2>2 DEF OneEach
  <2>4. procs = [p \in DOMAIN procs |-> procs[p]]
    BY <1>0 DEF ConsoleTyped
  <2> QED
    BY <1>1, <2>3, <2>4 DEF Unleased
<1>4. ASSUME holder # 0
      PROVE  \/ \E t \in Callers: Q!Busy(t) /\ th[t].p = holder
             \/ holder \notin over \cup claimed \cup unmade /\ procs[holder] # 0
             \/ holder \in unmade
  <2>1. CASE procs[holder] = 0
    BY <1>0, <1>4, <2>1 DEF LeaseHeld, Placing, Q!At, Q!Busy
  <2>2. CASE holder \in claimed
    <3>1. PICK t \in Callers: th[t].at \in Tearing
      BY <1>0, <1>4, <2>2 DEF LeaseHeld
    <3> QED
      BY <1>0, <3>1 DEF Placing, Q!Busy, Tearing
  <2>3. CASE procs[holder] # 0 /\ holder \notin claimed
    BY <1>0, <2>3 DEF LeaseHeld
  <2> QED
    BY <2>1, <2>2, <2>3
<1>5. Q!HonestEnd
  <2> SUFFICES ASSUME NEW t \in Callers, th[t].op = "wait", th[t].end = "done", ~Q!Busy(t), Q!Owns
               PROVE  streams[procs[th[t].p]].gone > 0
    BY DEF Q!HonestEnd
  <2>1. th[t].p \in over /\ procs[th[t].p] # 0
    BY <1>0 DEF Placing
  <2>2. TornDown(procs[th[t].p])
    BY <1>0, <2>1 DEF EndsLast, TornDown
  <2>3. procs[th[t].p] \in 1 .. Len(streams)
    <3>1. procs \in Seq(Nat) /\ th[t].p \in 1 .. Len(procs)
      BY <1>0, <2>1 DEF ConsoleTyped, LeasedTo
    <3>2. procs[th[t].p] \in Nat
      BY <3>1, ElementOfSeq
    <3>3. procs[th[t].p] <= Len(streams) /\ Len(streams) \in Nat
      BY <1>0, <3>1 DEF ConsoleTyped, LeasedTo
    <3> QED
      BY <2>1, <3>2, <3>3
  <2> QED
    BY <1>0, <2>2, <2>3 DEF Letting
<1> QED
  BY <1>0, <1>2, <1>3, <1>4, <1>5 DEF Q!ConsoleSound, Q!NeverLost

(* However many threads open, use and close the console of a guest: what   *)
(* it owns is let go of once, no stream and no lease is ever lost but by   *)
(* an `open` that cannot make its process, no two processes use a stream   *)
(* at once, and an end that is told is true.                               *)
THEOREM ConsoleIsSound == Run => []ConsoleSound
<1>1. Q!Init => ConsoleInv
  <2> SUFFICES ASSUME Q!Init PROVE ConsoleInv
    OBVIOUS
  <2>1. /\ kind \in Q!Kinds /\ holder = 0 /\ over = {} /\ claimed = {} /\ procs = <<>>
        /\ strays = {}
        /\ th = [t \in Callers |-> Q!Idle] /\ stream = Len(streams)
        /\ streams = IF kind = "factory" THEN <<>> ELSE <<Q!Fresh>>
    BY DEF Q!Init
  <2>2. /\ Q!Idle \in Calling /\ Q!Idle.at = "idle" /\ Q!Idle.op = "none" /\ Q!Idle.p = 0
        /\ ~Q!Idle.over
    BY DEF Q!Idle, Calling
  <2>3. /\ LeasedTo = {} /\ Len(procs) = 0
        /\ \A t \in Callers: th[t] = Q!Idle
    BY <2>1 DEF LeasedTo
  <2>4. CASE kind = "factory"
    <3>1. streams = <<>> /\ Len(streams) = 0 /\ stream = 0
      BY <2>1, <2>4
    <3>2. ConsoleTyped
      BY <2>1, <2>2, <2>3, <3>1 DEF ConsoleTyped
    <3>3. OneEach /\ Letting
      BY <2>3, <3>1 DEF OneEach, Letting
    <3> QED
      BY <2>1, <2>2, <2>3, <3>2, <3>3 DEF ConsoleInv, Placing, OneTears, LeaseHeld, EndsLast,
         Q!NeverShared, Q!At, Q!Busy, Working, Using, Tearing
  <2>5. CASE kind # "factory"
    <3>1. /\ streams = <<Q!Fresh>> /\ Len(streams) = 1 /\ stream = 1 /\ streams[1] = Q!Fresh
          /\ streams \in Seq([over: BOOLEAN, gone: Nat])
      <4>1. Q!Fresh \in [over: BOOLEAN, gone: Nat]
        BY DEF Q!Fresh
      <4> QED
        BY <2>1, <2>5, <4>1
    <3>2. ConsoleTyped
      BY <2>1, <2>2, <2>3, <3>1 DEF ConsoleTyped
    <3>3. kind = "owned" \/ ~Q!Owns
      BY <2>1, <2>5 DEF Q!Kinds, Q!Owns
    <3>4. OneEach /\ Letting
      BY <2>1, <2>3, <3>1, <3>3 DEF OneEach, Unleased, Letting, TornDown, Q!Fresh
    <3> QED
      BY <2>1, <2>2, <2>3, <3>2, <3>4 DEF ConsoleInv, Placing, OneTears, LeaseHeld, EndsLast,
         Q!NeverShared, Q!At, Q!Busy, Working, Using, Tearing
  <2> QED
    BY <2>4, <2>5
<1>2. ConsoleInv /\ [Q!Next]_Q!vars => ConsoleInv'
  <2> SUFFICES ASSUME ConsoleInv, [Q!Next]_Q!vars PROVE ConsoleInv'
    OBVIOUS
  <2>1. CASE UNCHANGED Q!vars
    <3>1. UNCHANGED <<kind, streams, stream, holder, over, claimed, procs, th, strays>>
      BY <2>1 DEF Q!vars, Q!lease
    <3>2. ConsoleTyped' /\ Placing'
      BY <3>1 DEF ConsoleInv, ConsoleTyped, LeasedTo, Placing, Q!At, Q!Busy, Q!Owns
    <3>3. OneTears' /\ LeaseHeld' /\ OneEach'
      BY <3>1 DEF ConsoleInv, OneTears, LeaseHeld, OneEach, LeasedTo, Unleased, Q!At, Q!Owns
    <3>4. \A p: Finishing(p)' <=> Finishing(p)
      BY <3>1 DEF Finishing, Q!At
    <3>5. Letting' /\ EndsLast'
      BY <3>1, <3>4 DEF ConsoleInv, Letting, TornDown, EndsLast, Q!Owns
    <3>6. Q!NeverShared'
      BY <3>1 DEF ConsoleInv, Q!NeverShared
    <3> QED
      BY <3>2, <3>3, <3>5, <3>6 DEF ConsoleInv
  <2>2. CASE Q!Hangup
    <3>1. ConsoleTyped' /\ Placing' /\ OneTears' /\ LeaseHeld' /\ OneEach' /\ Letting' /\ EndsLast'
      BY <2>2, HangupKeeps DEF ConsoleInv
    <3> QED
      BY <2>2, <3>1 DEF Q!Hangup, ConsoleInv, Q!NeverShared
  <2> QED
    BY <2>1, <2>2, ConsoleStep DEF Q!Next
<1>3. RunInit => (part = "qemu" => ConsoleInv)
  BY <1>1 DEF RunInit
<1>4. (part = "qemu" => ConsoleInv) /\ [RunNext]_all => (part = "qemu" => ConsoleInv)'
  <2> SUFFICES ASSUME part = "qemu", ConsoleInv, [RunNext]_all PROVE ConsoleInv'
    BY DEF RunNext, all
  <2>1. [Q!Next]_Q!vars
    BY DEF RunNext, all, console, Q!vars, Q!lease
  <2> QED
    BY <1>2, <2>1
<1>5. (part = "qemu" => ConsoleInv) => ConsoleSound
  BY ConsoleSoundFollows DEF ConsoleSound
<1> QED
  BY <1>3, <1>4, <1>5, PTL DEF Run

-----------------------------------------------------------------------------
(***************************************************************************)
(* The calls of any number of threads on one serial port.                  *)
(***************************************************************************)
(* Where a call may be; within the lock, and with its limit set.           *)
Within == {"limit", "port", "restore", "other"}
Limited == {"port", "restore"}
Use == [at: {"unused", "check", "count", "lock", "over"} \cup Within,
        op: {"none", "read", "write", "reset", "break"}, handle: {0} \cup L!Handles,
        timed: BOOLEAN, size: Int, counted: BOOLEAN, left: Int, old: {L!Free} \cup L!Calls,
        failed: BOOLEAN]

UseTyped ==
    /\ counts \in BOOLEAN /\ settable \in BOOLEAN
    /\ crossed \in BOOLEAN
    /\ use \in [L!Calls -> Use]
    /\ setting \in [L!Settings -> {L!Free} \cup L!Calls]
    /\ io \in {L!Free} \cup L!Calls /\ incoming \in Nat

(* A call has the lock exactly while it is within it.                      *)
LockOwn == /\ \A c \in L!Calls: use[c].at \in Within => io = c
           /\ io # L!Free => use[io].at \in Within

(* A limit is set while its call has the lock, and the one that it takes   *)
(* the place of is the port's own.                                         *)
Bounded(c) == use[c].at \in Limited /\ use[c].timed /\ settable
SetOwn == \A s \in L!Settings:
    setting[s] = IF io # L!Free /\ Bounded(io) /\ s = L!Limit(io) THEN io ELSE L!Free
OldOwn == \A c \in L!Calls: Bounded(c) => use[c].old = L!Free

(* What a write has begun it has the lock for.                             *)
PiecesWithin == \A c \in L!Calls: use[c].op = "write" /\ use[c].left = 1 => use[c].at \in Within

(* Unless reads overlapped, there is one, and what it counted is there.    *)
Taking(c) == c \in L!Active /\ use[c].op \in {"read", "reset"}
OneTakes == ~raced => \A c, d \in L!Calls: Taking(c) /\ Taking(d) => c = d
Uncounted == \A c \in L!Calls:
    /\ use[c].at \in {"check", "count"} => ~use[c].counted
    /\ use[c].op = "read" => use[c].left = 0
CountKept == ~raced => \A c \in L!Calls:
    use[c].at \in {"lock", "limit", "port"} /\ use[c].op = "read" /\ use[c].counted
        => incoming >= use[c].size

IOInv == /\ UseTyped /\ LockOwn /\ SetOwn /\ OldOwn /\ PiecesWithin /\ L!WritesWhole
         /\ OneTakes /\ Uncounted /\ CountKept

Rest(c) == \A d \in L!Calls \ {c}: use'[d] = use[d]

LEMMA UnusedOver ==
  /\ [L!Unused EXCEPT !.at = "over"] \in Use
  /\ [L!Unused EXCEPT !.at = "over"].at = "over"
  /\ [L!Unused EXCEPT !.at = "over"].op = "none"
<1>1. 0 \in Int /\ L!Free \in {L!Free} \cup L!Calls
  BY DEF L!Free
<1> QED
  BY <1>1 DEF L!Unused, Use

LEMMA GoesOn ==
  ASSUME use \in [L!Calls -> Use], NEW c \in L!Calls,
         NEW w \in {"check", "count", "lock"} \cup Within, L!Go(c, w)
  PROVE  /\ use' \in [L!Calls -> Use] /\ Rest(c)
         /\ use'[c].at = w /\ use'[c].op = use[c].op /\ use'[c].timed = use[c].timed
         /\ use'[c].size = use[c].size /\ use'[c].counted = use[c].counted
         /\ use'[c].left = use[c].left /\ use'[c].old = use[c].old
         /\ use'[c].failed = use[c].failed
<1>1. w # "over"
  BY DEF Within
<1>2. use' = [use EXCEPT ![c].at = w]
  BY <1>1 DEF L!Go
<1>3. use[c] \in Use
  OBVIOUS
<1>4. [use[c] EXCEPT !.at = w] \in Use
  BY <1>3 DEF Use
<1> QED
  BY <1>2, <1>3, <1>4 DEF Rest, Use

LEMMA GoesOver ==
  ASSUME use \in [L!Calls -> Use], NEW c \in L!Calls, L!Go(c, "over")
  PROVE  /\ use' \in [L!Calls -> Use] /\ Rest(c)
         /\ use'[c].at = "over" /\ use'[c].op = "none"
<1>1. use' = [use EXCEPT ![c] = [L!Unused EXCEPT !.at = "over"]]
  BY DEF L!Go
<1> QED
  BY <1>1, UnusedOver DEF Rest

(* A call that is not within the lock before a step nor after it leaves    *)
(* what the lock guards as it was.                                         *)
LEMMA OutsideKeeps ==
  ASSUME NEW c \in L!Calls, Rest(c), use[c].at \notin Within, use'[c].at \notin Within,
         ~(use'[c].op = "write" /\ use'[c].left = 1),
         UNCHANGED <<settable, setting, io>>,
         UseTyped, LockOwn, SetOwn, OldOwn, PiecesWithin
  PROVE  LockOwn' /\ SetOwn' /\ OldOwn' /\ PiecesWithin'
<1>1. io # L!Free => io \in L!Calls /\ io # c /\ use'[io] = use[io]
  BY DEF LockOwn, UseTyped, Rest
<1>2. LockOwn'
  BY <1>1 DEF LockOwn, Rest
<1>3. \A d \in L!Calls: Bounded(d)' <=> Bounded(d)
  BY DEF Bounded, Limited, Within, Rest
<1>4. SetOwn'
  <2>1. io # L!Free => (Bounded(io)' <=> Bounded(io)) /\ L!Limit(io)' = L!Limit(io)
    BY <1>1, <1>3 DEF L!Limit, Bounded
  <2> QED
    BY <2>1 DEF SetOwn
<1>5. OldOwn'
  BY <1>3 DEF OldOwn, Bounded, Limited, Within, Rest
<1>6. PiecesWithin'
  BY DEF PiecesWithin, Rest
<1> QED
  BY <1>2, <1>4, <1>5, <1>6

(* A call that has the lock leaves the others without it, and what it says *)
(* of its own limit is so.                                                 *)
LEMMA WithinKeeps ==
  ASSUME NEW c \in L!Calls, Rest(c), use[c].at \in Within, use'[c].at \in Within,
         io = c, io' = c, UNCHANGED settable,
         use'[c].op = use[c].op, Bounded(c)' => use'[c].old = L!Free,
         \A s \in L!Settings:
             setting'[s] = IF Bounded(c)' /\ s = L!Limit(c) THEN c ELSE L!Free,
         UseTyped, LockOwn, OldOwn, PiecesWithin
  PROVE  LockOwn' /\ SetOwn' /\ OldOwn' /\ PiecesWithin'
<1>1. c # L!Free
  BY DEF L!Calls, L!Free
<1>2. LockOwn'
  BY <1>1 DEF LockOwn, Rest
<1>3. L!Limit(c)' = L!Limit(c)
  BY DEF L!Limit
<1>4. SetOwn'
  <2>1. Bounded(io)' <=> Bounded(c)'
    BY DEF Bounded
  <2>2. L!Limit(io)' = L!Limit(c)
    BY <1>3 DEF L!Limit
  <2> QED
    BY <1>1, <2>1, <2>2 DEF SetOwn
<1>5. OldOwn'
  <2>1. \A d \in L!Calls \ {c}: ~Bounded(d)'
    BY DEF Bounded, Limited, Within, LockOwn, Rest
  <2> QED
    BY <2>1 DEF OldOwn
<1>6. PiecesWithin'
  BY DEF PiecesWithin, Rest
<1> QED
  BY <1>2, <1>4, <1>5, <1>6

(* A call that gives the lock back has put its limit back.                 *)
LEMMA FreeKeeps ==
  ASSUME NEW c \in L!Calls, Rest(c), io = c, io' = L!Free, use'[c].at \notin Within,
         use'[c].op = "none", \A s \in L!Settings: setting'[s] = L!Free, UNCHANGED settable,
         LockOwn, OldOwn, PiecesWithin
  PROVE  LockOwn' /\ SetOwn' /\ OldOwn' /\ PiecesWithin'
<1>1. \A d \in L!Calls: use'[d].at \notin Within
  BY DEF LockOwn, Rest
<1>2. LockOwn' /\ SetOwn' /\ OldOwn'
  BY <1>1 DEF LockOwn, SetOwn, OldOwn, Bounded, Limited, Within
<1>3. PiecesWithin'
  BY DEF PiecesWithin, Rest
<1> QED
  BY <1>2, <1>3

(* One step of a call does not make it a reader, and takes nothing that    *)
(* was counted.                                                            *)
LEMMA TakingKeeps ==
  ASSUME NEW c \in L!Calls, Rest(c), use'[c].op \in {use[c].op, "none"},
         use'[c].at \notin {"unused", "over"} => use[c].at \notin {"unused", "over"},
         UNCHANGED raced, OneTakes
  PROVE  OneTakes'
<1>1. \A d \in L!Calls: Taking(d)' => Taking(d)
  BY DEF Taking, L!Active, Rest
<1> QED
  BY <1>1 DEF OneTakes

LEMMA UncountedKeeps ==
  ASSUME NEW c \in L!Calls, Rest(c), Uncounted,
         use'[c].at \in {"check", "count"} => ~use'[c].counted,
         use'[c].op = "read" => use[c].op = "read" /\ use'[c].left = use[c].left
  PROVE  Uncounted'
BY DEF Uncounted, Rest

LEMMA CountKeeps ==
  ASSUME NEW c \in L!Calls, Rest(c), UNCHANGED <<raced, incoming>>, CountKept,
         use'[c].at \in {"lock", "limit", "port"} /\ use'[c].op = "read" /\ use'[c].counted
             => \/ /\ use[c].at \in {"lock", "limit", "port"}
                   /\ use[c].op = "read" /\ use[c].counted /\ use'[c].size = use[c].size
                \/ incoming >= use'[c].size
  PROVE  CountKept'
BY DEF CountKept, Rest

LEMMA BeginStep ==
  ASSUME IOInv, NEW k \in L!Kinds, L!Begin(k)
  PROVE  IOInv'
<1>0. /\ UseTyped /\ LockOwn /\ SetOwn /\ OldOwn /\ PiecesWithin /\ L!WritesWhole /\ OneTakes
      /\ Uncounted /\ CountKept
  BY DEF IOInv
<1>1. PICK c \in L!Calls, h \in L!Handles:
         /\ L!Now(c, "unused")
         /\ use' = [use EXCEPT ![c] =
                [L!Unused EXCEPT !.at = "check", !.handle = h, !.op = k.op, !.timed = k.timed,
                               !.size = k.size, !.left = IF k.op = "write" THEN 2 ELSE 0]]
         /\ raced' = (raced \/ (/\ k.op \in {"read", "reset"}
                                /\ \E d \in L!Active: use[d].op \in {"read", "reset"}))
         /\ UNCHANGED <<counts, settable, L!port, io, crossed>>
  BY DEF L!Begin
<1> DEFINE r == [L!Unused EXCEPT !.at = "check", !.handle = h, !.op = k.op, !.timed = k.timed,
                               !.size = k.size, !.left = IF k.op = "write" THEN 2 ELSE 0]
<1>2. k.op \in {"read", "write", "reset", "break"} /\ k.timed \in BOOLEAN /\ k.size \in Int
  <2>1. -1 \in Int /\ 2 \in Int /\ 0 \in Int
    OBVIOUS
  <2>2. \/ k \in [op: {"read"}, timed: BOOLEAN, size: {-1, 2}]
        \/ k \in [op: {"write"}, timed: BOOLEAN, size: {0}]
        \/ k \in [op: {"reset", "break"}, timed: {FALSE}, size: {0}]
    BY DEF L!Kinds
  <2> QED
    BY <2>1, <2>2
<1>3. /\ r \in Use /\ r.at = "check" /\ r.op = k.op /\ r.left # 1 /\ r.counted = FALSE
      /\ r.op = "read" => r.left = 0
  <2>1. 0 \in Int /\ 2 \in Int /\ L!Free \in {L!Free} \cup L!Calls
    BY DEF L!Free
  <2>2. h \in {0} \cup L!Handles /\ FALSE \in BOOLEAN
    OBVIOUS
  <2> DEFINE l == IF k.op = "write" THEN 2 ELSE 0
  <2>3. l \in Int /\ l # 1 /\ (k.op = "read" => l = 0)
    OBVIOUS
  <2>4. r = [L!Unused EXCEPT !.at = "check", !.handle = h, !.op = k.op, !.timed = k.timed,
                           !.size = k.size, !.left = l]
    OBVIOUS
  <2> HIDE DEF l, r
  <2> QED
    BY <1>2, <2>1, <2>2, <2>3, <2>4 DEF L!Unused, Use
<1>4. use' = [use EXCEPT ![c] = r]
  BY <1>1
<1> HIDE DEF r
<1>5. use' \in [L!Calls -> Use] /\ use'[c] = r /\ Rest(c)
  BY <1>0, <1>3, <1>4 DEF UseTyped, Rest
<1>6. use[c].at = "unused" /\ UNCHANGED <<counts, settable, setting, io, incoming, crossed>>
  BY <1>1 DEF L!Now, L!port
<1>7. LockOwn' /\ SetOwn' /\ OldOwn' /\ PiecesWithin'
  BY <1>0, <1>3, <1>5, <1>6, OutsideKeeps DEF Within
<1>8. UseTyped' /\ L!WritesWhole'
  BY <1>0, <1>5, <1>6 DEF UseTyped, L!WritesWhole
<1>9. OneTakes'
  <2> SUFFICES ASSUME ~raced', NEW d \in L!Calls, NEW e \in L!Calls, Taking(d)', Taking(e)'
               PROVE  d = e
    BY DEF OneTakes
  <2>1. ~raced
    BY <1>1
  <2>2. \A f \in L!Calls \ {c}: Taking(f)' => Taking(f)
    BY <1>5 DEF Taking, L!Active, Rest
  <2>3. ASSUME Taking(c)', NEW f \in L!Calls \ {c}, Taking(f) PROVE FALSE
    <3>1. k.op \in {"read", "reset"}
      BY <1>3, <1>5, <2>3 DEF Taking
    <3> QED
      BY <1>1, <2>3, <3>1 DEF Taking
  <2> QED
    BY <1>0, <2>1, <2>2, <2>3 DEF OneTakes
<1>10. CountKept' /\ Uncounted'
  BY <1>0, <1>1, <1>3, <1>5, <1>6 DEF CountKept, Uncounted, Rest
<1> QED
  BY <1>7, <1>8, <1>9, <1>10 DEF IOInv

LEMMA CheckStep ==
  ASSUME IOInv, NEW c \in L!Calls, L!Check(c)
  PROVE  IOInv'
<1>0. /\ UseTyped /\ LockOwn /\ SetOwn /\ OldOwn /\ PiecesWithin /\ L!WritesWhole /\ OneTakes
      /\ Uncounted /\ CountKept
  BY DEF IOInv
<1>1. PICK w \in {"over", "count", "lock"}: L!Go(c, w)
  BY DEF L!Check
<1>2. /\ use[c].at = "check"
      /\ UNCHANGED <<counts, settable, setting, io, incoming, crossed, raced>>
  BY DEF L!Check, L!Now, L!port, L!history
<1>3. /\ use' \in [L!Calls -> Use] /\ Rest(c) /\ use'[c].at = w
      /\ \/ w = "over" /\ use'[c].op = "none"
         \/ /\ use'[c].op = use[c].op /\ use'[c].left = use[c].left
            /\ use'[c].size = use[c].size /\ use'[c].counted = use[c].counted
  <2>1. CASE w = "over"
    BY <1>0, <1>1, <2>1, GoesOver DEF UseTyped
  <2>2. CASE w # "over"
    BY <1>0, <1>1, <2>2, GoesOn DEF UseTyped
  <2> QED
    BY <2>1, <2>2
<1>4. UseTyped' /\ L!WritesWhole'
  BY <1>0, <1>2, <1>3 DEF UseTyped, L!WritesWhole
<1>5. LockOwn' /\ SetOwn' /\ OldOwn' /\ PiecesWithin'
  <2>1. ~(use'[c].op = "write" /\ use'[c].left = 1)
    BY <1>0, <1>2, <1>3 DEF PiecesWithin, Within
  <2> QED
    BY <1>0, <1>2, <1>3, <2>1, OutsideKeeps DEF Within
<1>6. OneTakes'
  BY <1>0, <1>2, <1>3, TakingKeeps
<1>7. Uncounted' /\ CountKept'
  <2>1. ~use[c].counted
    BY <1>0, <1>2 DEF Uncounted
  <2> QED
    BY <1>0, <1>2, <1>3, <2>1, UncountedKeeps, CountKeeps
<1> QED
  BY <1>4, <1>5, <1>6, <1>7 DEF IOInv

LEMMA CountStep ==
  ASSUME IOInv, NEW c \in L!Calls, L!Count(c)
  PROVE  IOInv'
<1>0. /\ UseTyped /\ LockOwn /\ SetOwn /\ OldOwn /\ PiecesWithin /\ L!WritesWhole /\ OneTakes
      /\ Uncounted /\ CountKept
  BY DEF IOInv
<1> DEFINE n == IF counts THEN incoming ELSE 1
<1>1. /\ use[c].at = "count"
      /\ UNCHANGED <<counts, settable, setting, io, incoming, crossed, raced>>
  BY DEF L!Count, L!Now, L!port, L!history
<1>2. /\ use' \in [L!Calls -> Use] /\ Rest(c)
      /\ \/ use'[c].at = "over" /\ use'[c].op = "none"
         \/ /\ use'[c].at = "lock" /\ use'[c].op = use[c].op /\ use'[c].left = use[c].left
            /\ use'[c].counted => use'[c].size = incoming
  <2>1. CASE L!Go(c, "over")
    BY <1>0, <2>1, GoesOver DEF UseTyped
  <2>2. CASE use' = [use EXCEPT ![c].size = n, ![c].counted = counts, ![c].at = "lock"]
    <3> DEFINE r == [use[c] EXCEPT !.size = n, !.counted = counts, !.at = "lock"]
    <3>1. n \in Int /\ counts \in BOOLEAN /\ (counts => n = incoming) /\ use[c] \in Use
      BY <1>0 DEF UseTyped
    <3>2. use' = [use EXCEPT ![c] = r]
      BY <2>2
    <3> HIDE DEF n
    <3>3. /\ r \in Use /\ r.at = "lock" /\ r.op = use[c].op /\ r.left = use[c].left
          /\ r.counted => r.size = incoming
      BY <3>1 DEF Use
    <3> HIDE DEF r
    <3> QED
      BY <1>0, <3>2, <3>3 DEF UseTyped, Rest
  <2> QED
    BY <2>1, <2>2 DEF L!Count
<1>3. UseTyped' /\ L!WritesWhole'
  BY <1>0, <1>1, <1>2 DEF UseTyped, L!WritesWhole
<1>4. LockOwn' /\ SetOwn' /\ OldOwn' /\ PiecesWithin'
  <2>1. ~(use'[c].op = "write" /\ use'[c].left = 1)
    BY <1>0, <1>1, <1>2 DEF PiecesWithin, Within
  <2> QED
    BY <1>0, <1>1, <1>2, <2>1, OutsideKeeps DEF Within
<1>5. OneTakes'
  BY <1>0, <1>1, <1>2, TakingKeeps
<1>6. Uncounted' /\ CountKept'
  <2>1. use'[c].counted /\ use'[c].at = "lock" => incoming >= use'[c].size
    BY <1>0, <1>2 DEF UseTyped
  <2> QED
    BY <1>0, <1>1, <1>2, <2>1, UncountedKeeps, CountKeeps
<1> QED
  BY <1>3, <1>4, <1>5, <1>6 DEF IOInv

LEMMA LockStep ==
  ASSUME IOInv, NEW c \in L!Calls, L!Lock(c)
  PROVE  IOInv'
<1>0. /\ UseTyped /\ LockOwn /\ SetOwn /\ OldOwn /\ PiecesWithin /\ L!WritesWhole /\ OneTakes
      /\ Uncounted /\ CountKept
  BY DEF IOInv
<1>1. PICK w \in {"limit", "other"}: L!Go(c, w)
  BY DEF L!Lock
<1>2. /\ use[c].at = "lock" /\ io = L!Free /\ io' = c
      /\ UNCHANGED <<counts, settable, setting, incoming, crossed, raced>>
  BY DEF L!Lock, L!Now, L!port, L!history
<1>3. /\ use' \in [L!Calls -> Use] /\ Rest(c) /\ use'[c].at = w /\ use'[c].op = use[c].op
      /\ use'[c].size = use[c].size /\ use'[c].counted = use[c].counted
      /\ use'[c].left = use[c].left
  BY <1>0, <1>1, GoesOn DEF UseTyped, Within
<1>4. UseTyped' /\ L!WritesWhole'
  BY <1>0, <1>2, <1>3 DEF UseTyped, L!WritesWhole
<1>5. w \in Within /\ w \notin Limited
  BY DEF Within, Limited
<1>6. \A d \in L!Calls: use[d].at \notin Within
  BY <1>0, <1>2 DEF LockOwn, L!Calls, L!Free
<1>7. LockOwn'
  BY <1>2, <1>3, <1>5, <1>6 DEF LockOwn, Rest
<1>8. \A d \in L!Calls: ~Bounded(d)'
  BY <1>3, <1>5, <1>6 DEF Bounded, Rest, Limited, Within
<1>9. SetOwn'
  <2>1. ~Bounded(io)'
    BY <1>2, <1>3, <1>5 DEF Bounded
  <2>2. \A s \in L!Settings: setting[s] = L!Free
    BY <1>0, <1>2 DEF SetOwn
  <2> QED
    BY <1>2, <2>1, <2>2 DEF SetOwn
<1>10. OldOwn' /\ PiecesWithin'
  BY <1>0, <1>3, <1>5, <1>6, <1>8 DEF OldOwn, PiecesWithin, Rest
<1>11. OneTakes'
  BY <1>0, <1>2, <1>3, TakingKeeps
<1>12. Uncounted' /\ CountKept'
  BY <1>0, <1>2, <1>3, UncountedKeeps, CountKeeps
<1> QED
  BY <1>4, <1>7, <1>9, <1>10, <1>11, <1>12 DEF IOInv

(* What the steps of a call that has the lock leave to show: that it has   *)
(* it, its limit, and what it took of what waits.                          *)
LEMMA InsideStep ==
  ASSUME IOInv, NEW c \in L!Calls, Rest(c), use' \in [L!Calls -> Use],
         use[c].at \in Within, use'[c].at \in Within, use'[c].op = use[c].op,
         use'[c].op = "read" => use'[c].left = use[c].left,
         UNCHANGED <<counts, settable, io, crossed, raced>>,
         Bounded(c)' => use'[c].old = L!Free, setting' \in [L!Settings -> {L!Free} \cup L!Calls],
         \A s \in L!Settings: setting'[s] = IF Bounded(c)' /\ s = L!Limit(c) THEN c ELSE L!Free,
         incoming' \in Nat,
         \/ /\ UNCHANGED incoming
            /\ use'[c].at \in {"limit", "port"} /\ use'[c].op = "read"
                   => /\ use[c].at \in {"limit", "port"} /\ use'[c].size = use[c].size
                      /\ use'[c].counted = use[c].counted
         \/ Taking(c) /\ use'[c].at \notin {"limit", "port"}
  PROVE  IOInv'
<1>0. /\ UseTyped /\ LockOwn /\ SetOwn /\ OldOwn /\ PiecesWithin /\ L!WritesWhole /\ OneTakes
      /\ Uncounted /\ CountKept
  BY DEF IOInv
<1>1. io = c
  BY <1>0 DEF LockOwn
<1>2. UseTyped' /\ L!WritesWhole'
  BY <1>0 DEF UseTyped, L!WritesWhole
<1>3. LockOwn' /\ SetOwn' /\ OldOwn' /\ PiecesWithin'
  BY <1>0, <1>1, WithinKeeps
<1>4. OneTakes'
  BY <1>0, TakingKeeps DEF Within
<1>5. Uncounted'
  BY <1>0, UncountedKeeps DEF Within
<1>6. CountKept'
  <2>1. CASE /\ UNCHANGED incoming
             /\ use'[c].at \in {"limit", "port"} /\ use'[c].op = "read"
                   => /\ use[c].at \in {"limit", "port"} /\ use'[c].size = use[c].size
                      /\ use'[c].counted = use[c].counted
    BY <1>0, <2>1, CountKeeps DEF Within
  <2>2. CASE Taking(c) /\ use'[c].at \notin {"limit", "port"}
    <3> SUFFICES ASSUME ~raced', NEW d \in L!Calls, use'[d].at \in {"lock", "limit", "port"},
                        use'[d].op = "read"
                 PROVE  FALSE
      BY DEF CountKept
    <3>1. d # c
      BY <2>2 DEF Within
    <3>2. Taking(d)
      BY <3>1 DEF Taking, L!Active, Rest
    <3> QED
      BY <1>0, <2>2, <3>1, <3>2 DEF OneTakes
  <2> QED
    BY <2>1, <2>2
<1> QED
  BY <1>2, <1>3, <1>4, <1>5, <1>6 DEF IOInv

LEMMA SetLimitStep ==
  ASSUME IOInv, NEW c \in L!Calls, L!SetLimit(c)
  PROVE  IOInv'
<1>0. UseTyped /\ LockOwn /\ SetOwn /\ OldOwn
  BY DEF IOInv
<1>1. /\ use[c].at = "limit" /\ use[c].at \in Within /\ L!Limit(c) \in L!Settings /\ use[c] \in Use
      /\ UNCHANGED <<counts, settable, io, incoming, crossed, raced>>
  BY <1>0 DEF L!SetLimit, L!Now, L!history, Within, L!Limit, L!Settings, UseTyped
<1>2. io = c /\ ~Bounded(c)
  BY <1>0, <1>1 DEF LockOwn, Bounded, Limited
<1>3. \A s \in L!Settings: setting[s] = L!Free
  BY <1>0, <1>2 DEF SetOwn
<1>4. /\ Rest(c) /\ use' \in [L!Calls -> Use] /\ use'[c].at = "port" /\ use'[c].op = use[c].op
      /\ use'[c].left = use[c].left /\ use'[c].size = use[c].size
      /\ use'[c].counted = use[c].counted /\ use'[c].timed = use[c].timed
      /\ use[c].timed /\ settable => use'[c].old = L!Free
      /\ setting' = IF use[c].timed /\ settable THEN [setting EXCEPT ![L!Limit(c)] = c] ELSE setting
  <2>1. CASE use[c].timed /\ settable
    <3> DEFINE r == [use[c] EXCEPT !.at = "port", !.old = L!Free]
    <3>1. use' = [use EXCEPT ![c] = r] /\ setting' = [setting EXCEPT ![L!Limit(c)] = c]
      BY <1>1, <1>3, <2>1 DEF L!SetLimit
    <3>2. r \in Use /\ r.at = "port" /\ r.op = use[c].op /\ r.left = use[c].left
          /\ r.size = use[c].size /\ r.counted = use[c].counted /\ r.timed = use[c].timed
          /\ r.old = L!Free
      BY <1>1 DEF Use, Within
    <3> HIDE DEF r
    <3> QED
      BY <1>0, <2>1, <3>1, <3>2 DEF UseTyped, Rest
  <2>2. CASE ~(use[c].timed /\ settable)
    <3>1. L!Go(c, "port") /\ setting' = setting
      BY <2>2 DEF L!SetLimit
    <3> QED
      BY <1>0, <2>2, <3>1, GoesOn DEF UseTyped, Within
  <2> QED
    BY <2>1, <2>2
<1>5. use'[c].at \in Within /\ (Bounded(c)' <=> use[c].timed /\ settable)
  BY <1>1, <1>4 DEF Within, Bounded, Limited
<1>6. /\ setting' \in [L!Settings -> {L!Free} \cup L!Calls]
      /\ \A s \in L!Settings: setting'[s] = IF Bounded(c)' /\ s = L!Limit(c) THEN c ELSE L!Free
  BY <1>0, <1>1, <1>3, <1>4, <1>5 DEF UseTyped
<1>7. incoming' \in Nat
  BY <1>0, <1>1 DEF UseTyped
<1> QED
  BY <1>1, <1>4, <1>5, <1>6, <1>7, InsideStep

LEMMA AtPortStep ==
  ASSUME IOInv, NEW c \in L!Calls, L!WritePiece(c) \/ L!Reads(c) \/ L!PortFails(c)
  PROVE  IOInv'
<1>0. UseTyped /\ LockOwn /\ SetOwn /\ OldOwn /\ PiecesWithin /\ L!WritesWhole
  BY DEF IOInv
<1>1. /\ use[c].at = "port" /\ use[c].at \in Within /\ use[c] \in Use
      /\ UNCHANGED <<counts, settable, setting, io, raced>>
  BY <1>0 DEF L!WritePiece, L!Reads, L!PortFails, L!Now, L!history, L!port, Within, UseTyped
<1>2. io = c /\ c # L!Free
  BY <1>0, <1>1 DEF LockOwn, L!Calls, L!Free
<1>3. /\ Rest(c) /\ use' \in [L!Calls -> Use] /\ use'[c].at = "restore" /\ use'[c].op = use[c].op
      /\ use'[c].op = "read" => use'[c].left = use[c].left
      /\ use'[c].timed = use[c].timed /\ use'[c].old = use[c].old
  <2>1. CASE L!WritePiece(c)
    <3> DEFINE r == [use[c] EXCEPT !.left = @ - 1, !.at = "restore"]
    <3>1. use' = [use EXCEPT ![c] = r] /\ use[c].op = "write"
      BY <2>1 DEF L!WritePiece
    <3>2. use[c].left - 1 \in Int
      BY <1>1 DEF Use
    <3>3. r \in Use /\ r.at = "restore" /\ r.op = use[c].op /\ r.timed = use[c].timed
          /\ r.old = use[c].old
      BY <1>1, <3>2 DEF Use, Within
    <3> HIDE DEF r
    <3> QED
      BY <1>0, <3>1, <3>3 DEF UseTyped, Rest
  <2>2. CASE L!Reads(c)
    BY <1>0, <2>2, GoesOn DEF L!Reads, UseTyped, Within
  <2>3. CASE L!PortFails(c)
    <3> DEFINE r == [use[c] EXCEPT !.failed = TRUE, !.at = "restore"]
    <3>1. use' = [use EXCEPT ![c] = r]
      BY <2>3 DEF L!PortFails
    <3>2. r \in Use /\ r.at = "restore" /\ r.op = use[c].op /\ r.timed = use[c].timed
          /\ r.old = use[c].old /\ r.left = use[c].left
      BY <1>1 DEF Use, Within
    <3> HIDE DEF r
    <3> QED
      BY <1>0, <3>1, <3>2 DEF UseTyped, Rest
  <2> QED
    BY <2>1, <2>2, <2>3
<1>4. /\ use'[c].at \in Within /\ use'[c].at \notin {"limit", "port"}
      /\ (Bounded(c)' <=> Bounded(c))
  BY <1>1, <1>3 DEF Within, Bounded, Limited
<1>5. /\ setting' \in [L!Settings -> {L!Free} \cup L!Calls] /\ (Bounded(c)' => use'[c].old = L!Free)
      /\ \A s \in L!Settings: setting'[s] = IF Bounded(c)' /\ s = L!Limit(c) THEN c ELSE L!Free
  BY <1>0, <1>1, <1>2, <1>3, <1>4 DEF UseTyped, SetOwn, OldOwn
<1>6. UNCHANGED crossed
  <2>1. CASE L!WritePiece(c)
    <3>1. \A d \in L!Active \ {c}: ~(use[d].op = "write" /\ use[d].left = 1)
      BY <1>0, <1>2 DEF PiecesWithin, LockOwn, L!Active
    <3> QED
      BY <1>0, <2>1, <3>1 DEF L!WritePiece, L!WritesWhole, UseTyped
  <2> QED
    BY <2>1 DEF L!Reads, L!PortFails, L!history
<1>7. incoming' \in Nat /\ (UNCHANGED incoming \/ Taking(c))
  <2>1. CASE L!Reads(c)
    <3>1. Taking(c)
      BY <1>1, <2>1 DEF L!Reads, Taking, L!Active
    <3>2. incoming' \in Nat
      <4>1. incoming \in Nat /\ use[c].size \in Int
        BY <1>0, <1>1 DEF UseTyped, Use
      <4>2. incoming' = IF incoming < use[c].size THEN 0 ELSE incoming - use[c].size
        BY <2>1 DEF L!Reads
      <4> QED
        BY <4>1, <4>2
    <3> QED
      BY <3>1, <3>2
  <2> QED
    BY <1>0, <2>1 DEF L!WritePiece, L!PortFails, L!port, UseTyped
<1> QED
  BY <1>1, <1>3, <1>4, <1>5, <1>6, <1>7, InsideStep

(* A call gives the lock back.                                             *)
LEMMA OutStep ==
  ASSUME IOInv, NEW c \in L!Calls, use[c].at \in Within, L!Go(c, "over"), io' = L!Free,
         setting' \in [L!Settings -> {L!Free} \cup L!Calls],
         \A s \in L!Settings: setting'[s] = L!Free,
         UNCHANGED <<counts, settable, crossed, raced>>, incoming' \in Nat,
         UNCHANGED incoming \/ Taking(c)
  PROVE  IOInv'
<1>0. /\ UseTyped /\ LockOwn /\ SetOwn /\ OldOwn /\ PiecesWithin /\ L!WritesWhole /\ OneTakes
      /\ Uncounted /\ CountKept
  BY DEF IOInv
<1>1. use' \in [L!Calls -> Use] /\ Rest(c) /\ use'[c].at = "over" /\ use'[c].op = "none"
  BY <1>0, GoesOver DEF UseTyped
<1>2. io = c
  BY <1>0 DEF LockOwn
<1>3. UseTyped' /\ L!WritesWhole'
  BY <1>0, <1>1 DEF UseTyped, L!WritesWhole
<1>4. LockOwn' /\ SetOwn' /\ OldOwn' /\ PiecesWithin'
  BY <1>0, <1>1, <1>2, FreeKeeps DEF Within
<1>5. OneTakes' /\ Uncounted'
  BY <1>0, <1>1, TakingKeeps, UncountedKeeps
<1>6. CountKept'
  <2>1. CASE UNCHANGED incoming
    BY <1>0, <1>1, <2>1, CountKeeps
  <2>2. CASE Taking(c)
    <3> SUFFICES ASSUME ~raced', NEW d \in L!Calls, use'[d].at \in {"lock", "limit", "port"},
                        use'[d].op = "read"
                 PROVE  FALSE
      BY DEF CountKept
    <3>1. d # c
      BY <1>1
    <3>2. Taking(d)
      BY <1>1, <3>1 DEF Taking, L!Active, Rest
    <3> QED
      BY <1>0, <2>2, <3>1, <3>2 DEF OneTakes
  <2> QED
    BY <2>1, <2>2
<1> QED
  BY <1>3, <1>4, <1>5, <1>6 DEF IOInv

LEMMA RestoreStep ==
  ASSUME IOInv, NEW c \in L!Calls, L!RestoreLimit(c)
  PROVE  IOInv'
<1>0. UseTyped /\ LockOwn /\ SetOwn /\ OldOwn
  BY DEF IOInv
<1>1. /\ use[c].at = "restore" /\ use[c].at \in Within
      /\ setting' = IF use[c].timed /\ settable
                    THEN [setting EXCEPT ![L!Limit(c)] = use[c].old] ELSE setting
      /\ UNCHANGED <<counts, settable, incoming, crossed, raced>>
  BY DEF L!RestoreLimit, L!Restored, L!Now, L!history, Within
<1>2. io = c /\ c # L!Free
  BY <1>0, <1>1 DEF LockOwn, L!Calls, L!Free
<1>3. \A s \in L!Settings: setting'[s] = L!Free
  <2>1. Bounded(c) <=> use[c].timed /\ settable
    BY <1>1 DEF Bounded, Limited
  <2>2. Bounded(c) => use[c].old = L!Free
    BY <1>0 DEF OldOwn
  <2> QED
    BY <1>0, <1>1, <1>2, <2>1, <2>2 DEF SetOwn, UseTyped
<1>4. setting' \in [L!Settings -> {L!Free} \cup L!Calls]
  BY <1>0, <1>1, <1>3 DEF UseTyped, Use
<1>5. incoming' \in Nat
  BY <1>0, <1>1 DEF UseTyped
<1>6. CASE use[c].left > 0 /\ ~use[c].failed
  <2>1. L!Go(c, "limit") /\ io' = io
    BY <1>6 DEF L!RestoreLimit, L!NextPiece
  <2>2. /\ use' \in [L!Calls -> Use] /\ Rest(c) /\ use'[c].at = "limit" /\ use'[c].op = use[c].op
        /\ use'[c].left = use[c].left
    BY <1>0, <2>1, GoesOn DEF UseTyped, Within
  <2>3. use'[c].at \in Within /\ ~Bounded(c)'
    BY <2>2 DEF Within, Bounded, Limited
  <2>4. use[c].op # "read"
    BY <1>6 DEF IOInv, Uncounted
  <2> QED
    BY <1>1, <1>3, <1>4, <1>5, <2>1, <2>2, <2>3, <2>4, InsideStep
<1>7. CASE ~(use[c].left > 0 /\ ~use[c].failed)
  <2>1. L!Go(c, "over") /\ io' = L!Free
    BY <1>7 DEF L!RestoreLimit, L!NextPiece
  <2> QED
    BY <1>1, <1>3, <1>4, <1>5, <2>1, OutStep
<1> QED
  BY <1>6, <1>7

LEMMA OtherStep ==
  ASSUME IOInv, NEW c \in L!Calls, L!Other(c)
  PROVE  IOInv'
<1>0. UseTyped /\ LockOwn /\ SetOwn
  BY DEF IOInv
<1>1. /\ use[c].at = "other" /\ use[c].at \in Within /\ L!Go(c, "over") /\ io' = L!Free
      /\ UNCHANGED <<counts, settable, setting, crossed, raced>>
  BY DEF L!Other, L!Now, L!history, Within
<1>2. \A s \in L!Settings: setting[s] = L!Free
  <2>1. io = c /\ ~Bounded(c)
    BY <1>0, <1>1 DEF LockOwn, Bounded, Limited
  <2> QED
    BY <1>0, <2>1 DEF SetOwn
<1>3. setting' \in [L!Settings -> {L!Free} \cup L!Calls]
  BY <1>0, <1>1 DEF UseTyped
<1>4. incoming' \in Nat /\ (UNCHANGED incoming \/ Taking(c))
  <2>1. CASE use[c].op = "reset"
    <3>1. Taking(c)
      BY <1>1, <2>1 DEF Taking, L!Active
    <3>2. incoming' \in Nat
      BY <1>0 DEF L!Other, UseTyped
    <3> QED
      BY <3>1, <3>2
  <2>2. CASE use[c].op # "reset"
    BY <1>0, <2>2 DEF L!Other, UseTyped
  <2> QED
    BY <2>1, <2>2
<1> QED
  BY <1>1, <1>2, <1>3, <1>4, OutStep

LEMMA IOSoundFollows ==
  ASSUME IOInv
  PROVE  L!IOSound
<1>0. UseTyped /\ LockOwn /\ SetOwn /\ L!WritesWhole /\ CountKept
  BY DEF IOInv
<1>1. io = L!Free => setting = [s \in L!Settings |-> L!Free]
  BY <1>0 DEF SetOwn, UseTyped
<1>2. ASSUME NEW c \in L!Calls, L!Now(c, "port")
      PROVE  setting[L!Limit(c)] = IF use[c].timed /\ settable THEN c ELSE L!Free
  <2>1. io = c /\ c # L!Free /\ L!Limit(c) \in L!Settings
    BY <1>0, <1>2 DEF LockOwn, Within, L!Now, L!Calls, L!Free, L!Limit, L!Settings
  <2>2. Bounded(c) <=> use[c].timed /\ settable
    BY <1>2 DEF Bounded, Limited, L!Now
  <2> QED
    BY <1>0, <2>1, <2>2 DEF SetOwn
<1>3. L!LimitsOwn
  BY <1>1, <1>2 DEF L!LimitsOwn
<1>4. L!CountedThere
  BY <1>0 DEF CountKept, L!CountedThere, L!Now
<1> QED
  BY <1>0, <1>3, <1>4 DEF L!IOSound

(* However many calls two handles make of one port: whoever waits in the   *)
(* port waits under its own limit, what one call writes is whole, and what *)
(* a read counted is there, unless another read or a reset raced it.       *)
THEOREM CallsAreApart == Run => []IOSound
<1>1. L!Init => IOInv
  <2> SUFFICES ASSUME L!Init PROVE IOInv
    OBVIOUS
  <2>1. /\ counts \in BOOLEAN /\ settable \in BOOLEAN /\ crossed = FALSE /\ io = L!Free
        /\ incoming = 0 /\ setting = [s \in L!Settings |-> L!Free]
        /\ use = [c \in L!Calls |-> L!Unused]
    BY DEF L!Init
  <2>2. /\ L!Unused \in Use /\ L!Unused.at = "unused" /\ L!Unused.op = "none"
    BY DEF L!Unused, Use, L!Free
  <2>3. \A c \in L!Calls: use[c] = L!Unused
    BY <2>1
  <2>4. UseTyped /\ L!WritesWhole
    BY <2>1, <2>2 DEF UseTyped, L!WritesWhole, L!Free
  <2>5. LockOwn /\ SetOwn /\ OldOwn /\ PiecesWithin
    BY <2>1, <2>2, <2>3 DEF LockOwn, SetOwn, OldOwn, PiecesWithin, Bounded, Within, Limited
  <2>6. OneTakes /\ Uncounted /\ CountKept
    BY <2>2, <2>3 DEF OneTakes, Uncounted, CountKept, Taking
  <2> QED
    BY <2>4, <2>5, <2>6 DEF IOInv
<1>2. IOInv /\ [L!Next]_L!vars => IOInv'
  <2> SUFFICES ASSUME IOInv, [L!Next]_L!vars PROVE IOInv'
    OBVIOUS
  <2>0. /\ UseTyped /\ LockOwn /\ SetOwn /\ OldOwn /\ PiecesWithin /\ L!WritesWhole /\ OneTakes
        /\ Uncounted /\ CountKept
    BY DEF IOInv
  <2>1. CASE UNCHANGED L!vars \/ L!Arrive \/ L!Unplug \/ L!HandleEnds
    <3>1. /\ UNCHANGED <<counts, settable, setting, io, use, crossed, raced>>
          /\ incoming' \in Nat /\ incoming' >= incoming
      BY <2>0, <2>1 DEF UseTyped, L!vars, L!port, L!history, L!Arrive, L!Unplug, L!HandleEnds
    <3>2. UseTyped' /\ L!WritesWhole' /\ LockOwn' /\ PiecesWithin' /\ Uncounted'
      BY <2>0, <3>1 DEF UseTyped, L!WritesWhole, LockOwn, PiecesWithin, Uncounted
    <3>3. SetOwn' /\ OldOwn'
      BY <2>0, <3>1 DEF SetOwn, OldOwn, Bounded, L!Limit
    <3>4. OneTakes'
      BY <2>0, <3>1 DEF OneTakes, Taking, L!Active
    <3>5. CountKept'
      <4> SUFFICES ASSUME ~raced', NEW c \in L!Calls, use[c].at \in {"lock", "limit", "port"},
                          use[c].op = "read", use[c].counted
                   PROVE  incoming' >= use[c].size
        BY <3>1 DEF CountKept
      <4>1. incoming >= use[c].size /\ use[c].size \in Int /\ incoming \in Nat
        BY <2>0, <3>1 DEF CountKept, UseTyped, Use
      <4> QED
        BY <3>1, <4>1
    <3> QED
      BY <3>2, <3>3, <3>4, <3>5 DEF IOInv
  <2>2. CASE \E k \in L!Kinds: L!Begin(k)
    BY <2>2, BeginStep
  <2>3. CASE \E c \in L!Calls: L!Step(c)
    <3>1. PICK c \in L!Calls: L!Step(c)
      BY <2>3
    <3> QED
      BY <3>1, CheckStep, CountStep, LockStep, SetLimitStep, RestoreStep, AtPortStep, OtherStep
         DEF L!Step
  <2> QED
    BY <2>1, <2>2, <2>3 DEF L!Next
<1>3. RunInit => (part = "io" => IOInv)
  BY <1>1 DEF RunInit
<1>4. (part = "io" => IOInv) /\ [RunNext]_all => (part = "io" => IOInv)'
  <2> SUFFICES ASSUME part = "io", IOInv, [RunNext]_all PROVE IOInv'
    BY DEF RunNext, all
  <2>1. [L!Next]_L!vars
    BY DEF RunNext, all, lines, L!vars, L!port, L!history
  <2> QED
    BY <1>2, <2>1
<1>5. (part = "io" => IOInv) => IOSound
  BY IOSoundFollows DEF IOSound
<1> QED
  BY <1>3, <1>4, <1>5, PTL DEF Run
=============================================================================
