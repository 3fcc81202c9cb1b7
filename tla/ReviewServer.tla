----------------------------- MODULE ReviewServer -----------------------------
(***************************************************************************)
(* The one review server of a data directory: how `drovr serve` becomes    *)
(* it, and how a driver that needs it finds or starts it (ensure_server).  *)
(* A process takes an flock on server.pid, binds its port, writes          *)
(* server.addr and serves. A driver reads server.addr, connects, and       *)
(* spawns a server when nothing answers.                                   *)
(*                                                                         *)
(* An flock belongs to the open file description. A child the process has  *)
(* forked and that has not yet reached its exec shares it, and the socket: *)
(* closing the file then releases nothing, unlocking it does. Processes    *)
(* may be killed or fail to write a file, and a program that is not drovr  *)
(* may hold a port.                                                        *)
(*                                                                         *)
(* Left out: requests, the host allow-list, file permissions, and the pid  *)
(* written to server.pid, which decides nothing.                           *)
(***************************************************************************)
EXTENDS Naturals, FiniteSets

CONSTANTS Servers,  \* processes that run `drovr serve`, each once
          Drivers,  \* commands that call ensure_server
          Ports,    \* where a server may be told to listen
          None,     \* nobody, no port
          Foreign,  \* a program that is not drovr
          MaxTrouble \* bound: kills, errors, and ports a foreign program takes

ASSUME ServerAssumption ==
    /\ None \notin Servers \cup Ports /\ Foreign \notin Servers \cup {None}
    /\ MaxTrouble \in Nat

VARIABLES
    server, \* where each process is
    child,  \* it has a forked child that has not reached its exec
    lock,   \* the process whose file description is locked
    port,   \* who listens on each port
    addr,   \* server.addr
    driver, \* each ensure_server
    trouble

vars == <<server, child, lock, port, addr, driver, trouble>>

Running == {"started", "locked", "bound", "truncated", "serving"}
Claiming == Running \ {"started"}
Gone == {"refused", "exited", "killed"}

-----------------------------------------------------------------------------
(* serve *)

Becomes(s, at) == server' = [server EXCEPT ![s] = at]

\* Mutant: an address left behind is taken for a server.
FreeAndUnclaimed == lock = None /\ addr = None
Free == lock = None
Locks(s) == lock' = s
\* acquire_pid_lock: a process that does not get the lock says who has it, and exits.
TakeLock(s) ==
    /\ server[s] = "started"
    /\ IF Free THEN Locks(s) /\ Becomes(s, "locked")
       ELSE Becomes(s, "refused") /\ UNCHANGED lock
    /\ UNCHANGED <<child, port, addr, driver, trouble>>

\* Closing the file releases the lock unless a child shares it. (Mutant of Unlocks.)
Closes(s) == IF lock = s /\ ~ child[s] THEN None ELSE lock
\* FileLock's drop unlocks, whoever shares the description.
Unlocks(s) == IF lock = s THEN None ELSE lock
\* What the process had open is closed, for good if no child shares it.
Hangs(s) == port' = [n \in Ports |-> IF port[n] = s /\ ~ child[s] THEN None ELSE port[n]]
\* serve returns, an error or not.
Returns(s) == Becomes(s, "exited") /\ lock' = Unlocks(s) /\ Hangs(s)

Bind(s) ==
    /\ server[s] = "locked"
    /\ \E n \in Ports :
          IF port[n] = None
          THEN port' = [port EXCEPT ![n] = s] /\ Becomes(s, "bound") /\ UNCHANGED lock
          ELSE Returns(s)
    /\ UNCHANGED <<child, addr, driver, trouble>>

\* fs::write truncates server.addr, then writes the address.
Truncate(s) == /\ server[s] = "bound" /\ Becomes(s, "truncated") /\ addr' = None
               /\ UNCHANGED <<child, lock, port, driver, trouble>>
BoundPort(s) == {n \in Ports : port[n] = s}
WriteAddr(s) == /\ server[s] = "truncated" /\ Becomes(s, "serving")
                /\ addr' \in BoundPort(s)
                /\ UNCHANGED <<child, lock, port, driver, trouble>>

\* A request that runs git, herdr or drovr.
Fork(s) == /\ server[s] = "serving" /\ ~ child[s] /\ child' = [child EXCEPT ![s] = TRUE]
           /\ UNCHANGED <<server, lock, port, addr, driver, trouble>>
\* Its exec closes what it shared, the last of it if the process is dead.
Exec(s) == /\ child[s] /\ child' = [child EXCEPT ![s] = FALSE]
           /\ IF server[s] \in Gone
              THEN /\ lock' = IF lock = s THEN None ELSE lock
                   /\ port' = [n \in Ports |-> IF port[n] = s THEN None ELSE port[n]]
              ELSE UNCHANGED <<lock, port>>
           /\ UNCHANGED <<server, addr, driver, trouble>>

\* A file that cannot be opened or written, on the way: server.pid, whose lock serve
\* gives back, or server.addr, which it may leave empty.
Errs(s) == /\ server[s] \in Running \ {"serving"} /\ trouble < MaxTrouble
           /\ trouble' = trouble + 1 /\ Returns(s)
           /\ UNCHANGED <<child, addr, driver>>

Stop(s) == /\ server[s] = "serving" /\ Returns(s)
           /\ UNCHANGED <<child, addr, driver, trouble>>
\* A kill drops nothing: the kernel closes what the process had open.
Kill(s) == /\ server[s] \in Running /\ trouble < MaxTrouble /\ trouble' = trouble + 1
           /\ Becomes(s, "killed") /\ lock' = Closes(s) /\ Hangs(s)
           /\ UNCHANGED <<child, addr, driver>>

-----------------------------------------------------------------------------
(* ensure_server *)

Unasked == [at |-> "idle", saw |-> None, spawned |-> FALSE]
Ensure(d) == /\ driver[d].at = "idle"
             /\ driver' = [driver EXCEPT ![d].at = "read"]
             /\ UNCHANGED <<server, child, lock, port, addr, trouble>>

\* live_server_addr reads server.addr, then connects to what it read.
ReadAddr(d) == /\ driver[d].at = "read"
               /\ driver' = [driver EXCEPT ![d] = [@ EXCEPT !.at = "connect", !.saw = addr]]
               /\ UNCHANGED <<server, child, lock, port, addr, trouble>>

\* Mutant: what server.addr names is taken for live.
AnyAddr(n) == n # None
Answers(n) == n # None /\ port[n] # None
\* Nothing answers: a server is spawned, once, and waited for until the deadline.
\* The spawn may fail, and what it starts may die before it does anything.
Connect(d) ==
    /\ driver[d].at = "connect"
    /\ LET n == driver[d].saw IN
       \/ /\ Answers(n)
          /\ driver' = [driver EXCEPT ![d].at = "found"]
          /\ UNCHANGED server
       \/ /\ ~ Answers(n) /\ ~ driver[d].spawned
          /\ \/ \E s \in Servers : server[s] = "none" /\ Becomes(s, "started")
             \/ UNCHANGED server
          /\ driver' = [driver EXCEPT ![d].at = "read", ![d].spawned = TRUE]
       \/ /\ ~ Answers(n)
          /\ \/ driver' = [driver EXCEPT ![d].at = "failed"]
             \/ driver[d].spawned /\ driver' = [driver EXCEPT ![d].at = "read"]
          /\ UNCHANGED server
    /\ UNCHANGED <<child, lock, port, addr, trouble>>

-----------------------------------------------------------------------------
(* Around them *)

\* A human starts one.
Serve(s) == /\ server[s] = "none" /\ Becomes(s, "started")
            /\ UNCHANGED <<child, lock, port, addr, driver, trouble>>
Take(n) == /\ port[n] = None /\ trouble < MaxTrouble /\ trouble' = trouble + 1
           /\ port' = [port EXCEPT ![n] = Foreign]
           /\ UNCHANGED <<server, child, lock, addr, driver>>

Init == /\ server = [s \in Servers |-> "none"] /\ child = [s \in Servers |-> FALSE]
        /\ lock = None /\ port = [n \in Ports |-> None] /\ addr = None
        /\ driver = [d \in Drivers |-> Unasked] /\ trouble = 0

ServerStep(s) == TakeLock(s) \/ Bind(s) \/ Truncate(s) \/ WriteAddr(s) \/ Exec(s)
DriverStep(d) == ReadAddr(d) \/ Connect(d)
Next == \/ \E s \in Servers : ServerStep(s) \/ Fork(s) \/ Errs(s) \/ Stop(s) \/ Kill(s) \/ Serve(s)
        \/ \E d \in Drivers : Ensure(d) \/ DriverStep(d)
        \/ \E n \in Ports : Take(n)
Spec == Init /\ [][Next]_vars
\* A process that runs goes on; nobody has to ask, stop, kill, fail or be killed.
FairSpec == /\ Spec
            /\ \A s \in Servers : WF_vars(ServerStep(s))

-----------------------------------------------------------------------------
(* What the server's life promises *)

\* Every process is where the code can be, and every file and port holds what it may.
TypeOK == /\ server \in [Servers -> Running \cup Gone \cup {"none"}]
          /\ child \in [Servers -> BOOLEAN]
          /\ lock \in Servers \cup {None}
          /\ port \in [Ports -> Servers \cup {Foreign, None}]
          /\ addr \in Ports \cup {None}
          /\ driver \in [Drivers -> [at : {"idle", "read", "connect", "found", "failed"},
                                     saw : Ports \cup {None}, spawned : BOOLEAN]]
          /\ trouble \in Nat

\* However many are started, on whatever ports, and however they end, at most one
\* process is past the lock, and the lock is never held for nobody: only by a
\* process that is past it, or, for the instant between fork and exec, by the
\* child of one that was killed.
OneServer ==
    /\ \A s, t \in Servers : server[s] \in Claiming /\ server[t] \in Claiming => s = t
    /\ lock # None => server[lock] \in Claiming \/ (server[lock] = "killed" /\ child[lock])

Up(s) == s = Foreign \/ (s \in Servers /\ (server[s] \in Claiming \/ child[s]))
\* ensure_server returns the address of a server that is up, unless a foreign
\* program took the port a dead server had recorded, or, for the instant between
\* fork and exec, a dead one's child still has the socket.
FoundIsUp ==
    [][\A d \in Drivers : driver[d].at # "found" /\ driver'[d].at = "found" =>
          Up(port[driver[d].saw])]_vars

InTheWay == \E n \in Ports : \/ port[n] = Foreign
                             \/ port[n] \in Servers /\ server[port[n]] \in Gone
\* However the servers before it ended, a start leads to a server, its own or the
\* one it lost the lock to, while nobody is killed, no file fails to be written and
\* no port is in use. (Whether the driver that asked finds it in time is not said.)
StartLeadsToServer ==
    \A k \in 0..MaxTrouble :
       (trouble = k /\ \E s \in Servers : server[s] = "started")
          ~> (trouble > k \/ InTheWay \/ \E s \in Servers : server[s] = "serving")
=============================================================================
