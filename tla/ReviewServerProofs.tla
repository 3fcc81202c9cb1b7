-------------------------- MODULE ReviewServerProofs --------------------------
(***************************************************************************)
(* For any processes, drivers and ports, and any kills, errors and foreign *)
(* programs: the types of ReviewServer, and its safety properties.         *)
(***************************************************************************)
EXTENDS ReviewServer, TLAPS

USE ServerAssumption DEF ServerAssumption

\* A process past the lock holds it.
ClaimsHold == \A s \in Servers : server[s] \in Claiming => lock = s
\* A socket is that of a process at work, or of a dead one whose child shares it.
SocketsHeld == \A n \in Ports : port[n] \in Servers =>
                  \/ server[port[n]] \in Claiming
                  \/ server[port[n]] \in Gone /\ child[port[n]]
\* A server that serves is the one server.addr names: nobody took its discovery.
AddrNamesServer == \A s \in Servers : server[s] = "serving" => addr # None /\ port[addr] = s
\* The lock is held for a process that claims it, or for a killed one's child.
NoGhostLock == lock # None => \/ server[lock] \in Claiming
                              \/ server[lock] = "killed" /\ child[lock]
ServerInv == TypeOK /\ ClaimsHold /\ SocketsHeld /\ AddrNamesServer /\ NoGhostLock

-----------------------------------------------------------------------------
(* Types *)

LEMMA TypeInit == Init => TypeOK
BY DEF Init, TypeOK, Unasked, Running, Gone

LEMMA TypeServer ==
    ASSUME TypeOK, NEW s \in Servers,
           \/ ServerStep(s) \/ Fork(s) \/ Errs(s) \/ Stop(s) \/ Kill(s) \/ Serve(s)
    PROVE  TypeOK'
<1>1. CASE TakeLock(s)
  BY <1>1 DEF TakeLock, Locks, Becomes, TypeOK, Running, Gone
<1>2. CASE Bind(s)
  BY <1>2 DEF Bind, Returns, Unlocks, Hangs, Becomes, TypeOK, Running, Gone
<1>3. CASE Truncate(s)
  BY <1>3 DEF Truncate, Becomes, TypeOK, Running, Gone
<1>4. CASE WriteAddr(s)
  BY <1>4 DEF WriteAddr, BoundPort, Becomes, TypeOK, Running, Gone
<1>5. CASE Exec(s)
  BY <1>5 DEF Exec, TypeOK
<1>6. CASE Fork(s)
  BY <1>6 DEF Fork, TypeOK
<1>7. CASE Stop(s)
  BY <1>7 DEF Stop, Returns, Unlocks, Hangs, Becomes, TypeOK, Running, Gone
<1>8. CASE Kill(s)
  BY <1>8 DEF Kill, Closes, Hangs, Becomes, TypeOK, Running, Gone
<1>9. CASE Serve(s)
  BY <1>9 DEF Serve, Becomes, TypeOK, Running, Gone
<1>10. CASE Errs(s)
  BY <1>10 DEF Errs, Returns, Unlocks, Hangs, Becomes, TypeOK, Running, Gone
<1> QED
  BY <1>1, <1>2, <1>3, <1>4, <1>5, <1>6, <1>7, <1>8, <1>9, <1>10 DEF ServerStep

LEMMA TypeDriver ==
    ASSUME TypeOK, NEW d \in Drivers, Ensure(d) \/ DriverStep(d)
    PROVE  TypeOK'
<1> USE DEF TypeOK, Running, Gone, Becomes
<1>1. CASE Ensure(d)
  BY <1>1 DEF Ensure
<1>2. CASE ReadAddr(d)
  <2>1. [driver[d] EXCEPT !.at = "connect", !.saw = addr]
           \in [at : {"idle", "read", "connect", "found", "failed"},
               saw : Ports \cup {None}, spawned : BOOLEAN]
    OBVIOUS
  <2> QED
    BY <1>2, <2>1 DEF ReadAddr
<1>3. CASE Connect(d)
  BY <1>3 DEF Connect, Answers
<1> QED
  BY <1>1, <1>2, <1>3 DEF DriverStep

LEMMA TypeNext == TypeOK /\ [Next]_vars => TypeOK'
<1> SUFFICES ASSUME TypeOK, [Next]_vars PROVE TypeOK'
  OBVIOUS
<1>1. CASE \E n \in Ports : Take(n)
  BY <1>1 DEF Take, TypeOK
<1>2. CASE UNCHANGED vars
  BY <1>2 DEF vars, TypeOK
<1> QED
  BY <1>1, <1>2, TypeServer, TypeDriver DEF Next

-----------------------------------------------------------------------------
(* The lock, the sockets and the address *)

\* What is left alone stays true, whatever the drivers do.
LEMMA ServerInvStutters ==
    ASSUME ServerInv, TypeOK', UNCHANGED <<server, child, lock, port, addr>>
    PROVE  ServerInv'
BY DEF ServerInv, ClaimsHold, SocketsHeld, AddrNamesServer, NoGhostLock

\* A process that is gone, by an exit or a kill, takes nothing with it that is another's.
LEMMA GoneKeeps ==
    ASSUME ServerInv, TypeOK', NEW s \in Servers, server[s] \in Running,
           NEW l \in {"exited", "killed"}, Becomes(s, l),
           \/ lock' = Unlocks(s)
           \/ l = "killed" /\ lock' = Closes(s),
           Hangs(s), UNCHANGED <<child, addr>>
    PROVE  ServerInv'
<1> USE DEF ServerInv, TypeOK, Becomes
<1>1. \A t \in Servers : /\ t # s => server'[t] = server[t]
                         /\ server'[s] \notin Claiming
  BY DEF Claiming, Running
<1>2. lock' # lock => lock = s /\ lock' = None
  BY DEF Unlocks, Closes
<1>3. ClaimsHold'
  BY <1>1, <1>2 DEF ClaimsHold
<1>4. \A n \in Ports : \/ port'[n] = port[n] /\ (port[n] = s => child[s])
                       \/ port[n] = s /\ port'[n] = None
  BY DEF Hangs
<1>5. SocketsHeld'
  BY <1>1, <1>4 DEF SocketsHeld, Gone
<1>6. AddrNamesServer'
  <2> SUFFICES ASSUME NEW t \in Servers, server'[t] = "serving"
               PROVE  addr' # None /\ port'[addr'] = t
    BY DEF AddrNamesServer
  <2>1. t # s /\ server[t] = "serving"
    BY <1>1 DEF Claiming, Running
  <2>2. addr # None /\ port[addr] = t
    BY <2>1 DEF AddrNamesServer
  <2> QED
    BY <1>4, <2>1, <2>2
<1>7. NoGhostLock'
  BY <1>1, <1>2 DEF NoGhostLock, Unlocks, Closes
<1> QED
  BY <1>3, <1>5, <1>6, <1>7

LEMMA InvServer ==
    ASSUME ServerInv, TypeOK', NEW s \in Servers, ServerStep(s)
    PROVE  ServerInv'
<1> USE DEF ServerInv, TypeOK, Becomes
<1>1. CASE TakeLock(s)
  <2>1. \A t \in Servers : t # s => server'[t] = server[t]
    BY <1>1 DEF TakeLock
  <2>2. CASE lock = None
    <3>1. lock' = s /\ server'[s] = "locked" /\ UNCHANGED <<child, port, addr>>
      BY <1>1, <2>2 DEF TakeLock, Free, Locks
    <3> QED
      BY <2>1, <2>2, <3>1
      DEF ClaimsHold, SocketsHeld, AddrNamesServer, NoGhostLock, Claiming, Running
  <2>3. CASE lock # None
    <3>1. server'[s] = "refused" /\ server[s] = "started" /\ UNCHANGED <<lock, child, port, addr>>
      BY <1>1, <2>3 DEF TakeLock, Free
    <3> QED
      BY <2>1, <3>1
      DEF ClaimsHold, SocketsHeld, AddrNamesServer, NoGhostLock, Claiming, Running
  <2> QED
    BY <2>2, <2>3
<1>2. CASE Bind(s)
  <2>1. CASE server'[s] = "bound"
    <3>1. PICK n \in Ports : port[n] = None /\ port' = [port EXCEPT ![n] = s]
      BY <1>2, <2>1 DEF Bind, Returns
    <3>2. server[s] = "locked" /\ UNCHANGED <<child, addr, lock>>
          /\ \A t \in Servers : t # s => server'[t] = server[t]
      BY <1>2, <2>1 DEF Bind, Returns
    <3>3. ClaimsHold' /\ NoGhostLock'
      BY <2>1, <3>2 DEF ClaimsHold, NoGhostLock, Claiming, Running
    <3>4. SocketsHeld'
      BY <2>1, <3>1, <3>2 DEF SocketsHeld, Claiming, Running
    <3>5. AddrNamesServer'
      BY <2>1, <3>1, <3>2 DEF AddrNamesServer
    <3> QED
      BY <3>3, <3>4, <3>5
  <2>2. CASE server'[s] # "bound"
    <3>1. server[s] \in Running /\ Returns(s) /\ UNCHANGED <<child, addr>>
      BY <1>2, <2>2 DEF Bind, Running
    <3> QED
      BY <3>1, GoneKeeps DEF Returns
  <2> QED
    BY <2>1, <2>2
<1>3. CASE Truncate(s)
  <2>1. /\ server[s] = "bound" /\ server'[s] = "truncated" /\ UNCHANGED <<child, lock, port>>
        /\ \A t \in Servers : t # s => server'[t] = server[t]
    BY <1>3 DEF Truncate
  <2>2. \A t \in Servers : server'[t] # "serving"
    BY <2>1 DEF ClaimsHold, Claiming, Running
  <2> QED
    BY <2>1, <2>2 DEF ClaimsHold, SocketsHeld, AddrNamesServer, NoGhostLock, Claiming, Running
<1>4. CASE WriteAddr(s)
  <2>1. /\ server[s] = "truncated" /\ server'[s] = "serving" /\ UNCHANGED <<child, lock, port>>
        /\ \A t \in Servers : t # s => server'[t] = server[t]
    BY <1>4 DEF WriteAddr
  <2>2. addr' \in Ports /\ port[addr'] = s
    BY <1>4 DEF WriteAddr, BoundPort
  <2>3. \A t \in Servers : server'[t] = "serving" => t = s
    BY <2>1 DEF ClaimsHold, Claiming, Running
  <2>4. AddrNamesServer'
    BY <2>1, <2>2, <2>3 DEF AddrNamesServer
  <2> QED
    BY <2>1, <2>4 DEF ClaimsHold, SocketsHeld, NoGhostLock, Claiming, Running
<1>5. CASE Exec(s)
  <2>1. /\ UNCHANGED <<server, addr>> /\ child' = [child EXCEPT ![s] = FALSE]
        /\ \A t \in Servers : t # s => child'[t] = child[t]
    BY <1>5 DEF Exec
  <2>2. CASE server[s] \in Gone
    <3>1. lock' = (IF lock = s THEN None ELSE lock)
          /\ port' = [n \in Ports |-> IF port[n] = s THEN None ELSE port[n]]
      BY <1>5, <2>2 DEF Exec
    <3>2. server[s] \notin Claiming
      BY <2>2 DEF Gone, Claiming, Running
    <3>3. \A n \in Ports : port'[n] = port[n] \/ (port[n] = s /\ port'[n] = None)
      BY <3>1
    <3>4. SocketsHeld'
      BY <2>1, <3>1 DEF SocketsHeld
    <3>5. AddrNamesServer'
      BY <2>1, <2>2, <3>3 DEF AddrNamesServer, Gone
    <3> QED
      BY <2>1, <3>1, <3>2, <3>4, <3>5 DEF ClaimsHold, NoGhostLock
  <2>3. CASE server[s] \notin Gone
    <3>1. UNCHANGED <<lock, port>>
      BY <1>5, <2>3 DEF Exec
    <3>2. server[s] # "killed" /\ (server[s] \in Claiming \/ server[s] \in {"none", "started"})
      BY <2>3 DEF Gone, Claiming, Running
    <3>3. SocketsHeld'
      BY <2>1, <2>3, <3>1 DEF SocketsHeld
    <3>4. ClaimsHold' /\ AddrNamesServer'
      BY <2>1, <3>1 DEF ClaimsHold, AddrNamesServer
    <3>5. NoGhostLock'
      BY <2>1, <3>1, <3>2 DEF NoGhostLock
    <3> QED
      BY <3>3, <3>4, <3>5
  <2> QED
    BY <2>2, <2>3
<1> QED
  BY <1>1, <1>2, <1>3, <1>4, <1>5 DEF ServerStep

\* A process that was not there is.
LEMMA StartKeeps ==
    ASSUME ServerInv, TypeOK', NEW s \in Servers, server[s] = "none", Becomes(s, "started"),
           UNCHANGED <<child, lock, port, addr>>
    PROVE  ServerInv'
<1> USE DEF ServerInv, TypeOK
<1>1. /\ server'[s] = "started"
      /\ \A t \in Servers : t # s => server'[t] = server[t]
  BY DEF Becomes
<1>2. "none" \notin Claiming \cup Gone /\ "started" \notin Claiming \cup Gone
  BY DEF Claiming, Gone, Running
<1>3. ClaimsHold' /\ NoGhostLock'
  BY <1>1, <1>2 DEF ClaimsHold, NoGhostLock
<1>4. \A n \in Ports : port[n] \in Servers => port[n] # s
  BY <1>2 DEF SocketsHeld
<1>5. SocketsHeld'
  BY <1>1, <1>4 DEF SocketsHeld
<1>6. AddrNamesServer'
  BY <1>1 DEF AddrNamesServer
<1> QED
  BY <1>3, <1>5, <1>6

LEMMA InvAround ==
    ASSUME ServerInv, TypeOK', NEW s \in Servers, Fork(s) \/ Errs(s) \/ Stop(s) \/ Kill(s) \/ Serve(s)
    PROVE  ServerInv'
<1> USE DEF ServerInv, TypeOK
<1>1. CASE Fork(s)
  BY <1>1 DEF Fork, ClaimsHold, SocketsHeld, AddrNamesServer, NoGhostLock
<1>2. CASE Stop(s)
  BY <1>2, GoneKeeps DEF Stop, Returns, Running
<1>3. CASE Kill(s)
  BY <1>3, GoneKeeps DEF Kill
<1>4. CASE Serve(s)
  BY <1>4, StartKeeps DEF Serve
<1>5. CASE Errs(s)
  BY <1>5, GoneKeeps DEF Errs, Returns
<1> QED
  BY <1>1, <1>2, <1>3, <1>4, <1>5

LEMMA InvTake ==
    ASSUME ServerInv, TypeOK', NEW n \in Ports, Take(n)
    PROVE  ServerInv'
<1>1. /\ UNCHANGED <<server, child, lock, addr>> /\ port[n] = None
      /\ \A m \in Ports : m # n => port'[m] = port[m]
      /\ port'[n] = Foreign
  BY DEF Take, ServerInv, TypeOK
<1>2. SocketsHeld'
  BY <1>1 DEF ServerInv, SocketsHeld
<1>3. AddrNamesServer'
  BY <1>1 DEF ServerInv, AddrNamesServer, TypeOK
<1> QED
  BY <1>1, <1>2, <1>3 DEF ServerInv, ClaimsHold, NoGhostLock

LEMMA InvInit == Init => ServerInv
<1> SUFFICES ASSUME Init PROVE ServerInv
  OBVIOUS
<1>1. TypeOK
  BY TypeInit
<1> QED
  BY <1>1 DEF Init, ServerInv, ClaimsHold, SocketsHeld, AddrNamesServer, NoGhostLock, Claiming, Running

LEMMA InvNext == ServerInv /\ [Next]_vars => ServerInv'
<1> SUFFICES ASSUME ServerInv, [Next]_vars PROVE ServerInv'
  OBVIOUS
<1>1. TypeOK'
  BY TypeNext DEF ServerInv
<1>2. CASE UNCHANGED vars
  BY <1>1, <1>2, ServerInvStutters DEF vars
<1>3. CASE \E s \in Servers : ServerStep(s) \/ Fork(s) \/ Errs(s) \/ Stop(s) \/ Kill(s) \/ Serve(s)
  BY <1>1, <1>3, InvServer, InvAround
<1>4. CASE \E d \in Drivers : Ensure(d) \/ DriverStep(d)
  <2>1. PICK d \in Drivers : Ensure(d) \/ DriverStep(d)
    BY <1>4
  <2>2. UNCHANGED <<child, lock, port, addr>>
    BY <2>1 DEF Ensure, DriverStep, ReadAddr, Connect
  <2>3. UNCHANGED server \/ \E s \in Servers : server[s] = "none" /\ Becomes(s, "started")
    BY <2>1 DEF Ensure, DriverStep, ReadAddr, Connect
  <2>4. CASE UNCHANGED server
    BY <1>1, <2>2, <2>4, ServerInvStutters
  <2>5. CASE \E s \in Servers : server[s] = "none" /\ Becomes(s, "started")
    BY <1>1, <2>2, <2>5, StartKeeps
  <2> QED
    BY <2>3, <2>4, <2>5
<1>5. CASE \E n \in Ports : Take(n)
  BY <1>1, <1>5, InvTake
<1> QED
  BY <1>2, <1>3, <1>4, <1>5 DEF Next

-----------------------------------------------------------------------------
(* The theorems *)

\* Every process, file and port holds only what the code can put there.
THEOREM TypeCorrect == Spec => []TypeOK
<1>1. Init => TypeOK
  BY TypeInit
<1>2. TypeOK /\ [Next]_vars => TypeOK'
  BY TypeNext
<1> QED
  BY <1>1, <1>2, PTL DEF Spec

\* The lock, the sockets and the address, together, are inductive.
THEOREM InvHolds == Spec => []ServerInv
<1> QED
  BY InvInit, InvNext, PTL DEF Spec

\* However many are started, one process at most is past the lock, and the lock is
\* held for it, or for the child of one that was killed.
THEOREM ServerIsOne == Spec => []OneServer
<1>1. ServerInv => OneServer
  BY DEF ServerInv, ClaimsHold, NoGhostLock, OneServer
<1> QED
  BY <1>1, InvHolds, PTL

\* The server that serves is the one server.addr names.
THEOREM AddrNames == Spec => []AddrNamesServer
<1>1. ServerInv => AddrNamesServer
  BY DEF ServerInv
<1> QED
  BY <1>1, InvHolds, PTL

\* What ensure_server finds is up, or a foreign program, or a dead one's child.
THEOREM FoundUp == Spec => FoundIsUp
<1>1. ServerInv /\ [Next]_vars =>
        [\A d \in Drivers : driver[d].at # "found" /\ driver'[d].at = "found" =>
            Up(port[driver[d].saw])]_vars
  <2> SUFFICES ASSUME ServerInv, [Next]_vars, NEW d \in Drivers,
                      driver[d].at # "found", driver'[d].at = "found"
               PROVE  Up(port[driver[d].saw])
    OBVIOUS
  <2>1. Connect(d) /\ Answers(driver[d].saw)
    <3>1. driver' # driver
      OBVIOUS
    <3>2. \E c \in Drivers : Ensure(c) \/ DriverStep(c)
      BY <3>1 DEF Next, vars, ServerStep, TakeLock, Bind, Truncate, WriteAddr, Exec, Fork,
                  Errs, Stop, Kill, Serve, Take
    <3>3. PICK c \in Drivers : Ensure(c) \/ ReadAddr(c) \/ Connect(c)
      BY <3>2 DEF DriverStep
    <3>4. \A b \in Drivers : b # c => driver'[b] = driver[b]
      BY <3>3 DEF Ensure, ReadAddr, Connect, ServerInv, TypeOK
    <3>5. c = d
      BY <3>4
    <3>6. ~ Ensure(d)
      BY DEF Ensure, ServerInv, TypeOK
    <3>7. ~ ReadAddr(d)
      BY [driver[d] EXCEPT !.at = "connect", !.saw = addr].at = "connect"
      DEF ReadAddr, ServerInv, TypeOK
    <3> QED
      BY <3>3, <3>5, <3>6, <3>7 DEF Connect, ServerInv, TypeOK
  <2> QED
    BY <2>1 DEF Up, Answers, ServerInv, TypeOK, SocketsHeld
<1> QED
  BY <1>1, InvHolds, PTL DEF Spec, FoundIsUp
=============================================================================
