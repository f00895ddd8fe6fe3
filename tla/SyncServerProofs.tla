--------------------------- MODULE SyncServerProofs ---------------------------
(* Theorems about SyncServer, for every value of its constants. *)
EXTENDS SyncServer, FiniteSetTheorems, TLAPS

-----------------------------------------------------------------------------
(* The inductive invariant behind type correctness and the wake-up pipe. *)

\* A bit select has returned and the loop has not handled yet is still true: the
\* pipes are read, and accept is called, by the main thread alone.
EventsPending ==
    /\ "control" \in events => control > 0
    /\ "control2" \in events /\ main # "closing" => control2 > 0
    /\ "listen" \in events => backlog > 0
    /\ main = "select" => events = {}

\* A thread that is working holds a conn_meta.
ClientHeld ==
    \A t \in Threads : stage[t] \in {"handshake", "request", "handle", "release", "closing"}
                        => client[t] \in Fds

WakeupInv == TypeOK /\ EventsPending /\ ClientHeld /\ OneWakeupByte /\ NoLostWakeup

LEMMA WakeupInit == Init => WakeupInv
<1> SUFFICES ASSUME Init PROVE WakeupInv
  OBVIOUS
<1>1. read_fds_called \in BOOLEAN
  BY Zenon DEF Init
<1>2. TypeOK
  BY <1>1, ConstantsAssumption DEF ConstantsAssumption, Init, TypeOK, Stages
<1> QED
  BY <1>2 DEF Init, WakeupInv, EventsPending, ClientHeld, OneWakeupByte, NoLostWakeup

LEMMA WakeupNext == WakeupInv /\ [Next]_vars => WakeupInv'
<1> SUFFICES ASSUME WakeupInv, [Next]_vars PROVE WakeupInv'
  OBVIOUS
<1> USE ConstantsAssumption
    DEF ConstantsAssumption, WakeupInv, TypeOK, EventsPending, ClientHeld, OneWakeupByte,
        NoLostWakeup, Stages, kernelVars, mapVars, fdsVars, closeVars, mainVars, managerVars,
        workerVars
<1>1. CASE ClientConnects
  BY <1>1 DEF ClientConnects
<1>2. ASSUME NEW fd \in Fds, ClientSends(fd) PROVE WakeupInv'
  BY <1>2 DEF ClientSends
<1>3. ASSUME NEW fd \in Fds, ClientHangsUp(fd) PROVE WakeupInv'
  BY <1>3 DEF ClientHangsUp
<1>4. ASSUME NEW fd \in Fds, KeepAliveExpires(fd) PROVE WakeupInv'
  BY <1>4 DEF KeepAliveExpires
<1>5. CASE Snapshot
  BY <1>5 DEF Snapshot
<1>6. CASE SelectReturns
  BY <1>6 DEF SelectReturns, SelectBits, Readable
<1>7. CASE SelectFails
  BY <1>7 DEF SelectFails
<1>8. CASE HandleControl
  <2> USE <1>8 DEF HandleControl
  <2>1. control = 1 /\ control' = 0 /\ read_fds_called' = FALSE
    OBVIOUS
  <2>2. TypeOK'
    <3>1. read_fds_called' \in BOOLEAN
      BY Zenon
    <3> QED
      BY <2>1, <3>1
  <2>3. EventsPending'
    BY <2>1
  <2>4. ClientHeld'
    OBVIOUS
  <2> QED
    BY <2>1, <2>2, <2>3, <2>4
<1>9. CASE HandleControl2
  BY <1>9 DEF HandleControl2
<1>10. ASSUME NEW fd \in Fds, CloseOne(fd) PROVE WakeupInv'
  BY <1>10 DEF CloseOne, DropClient
<1>11. CASE CloseDone
  BY <1>11 DEF CloseDone
<1>12. ASSUME NEW fd \in Fds, Accept(fd) PROVE WakeupInv'
  BY <1>12 DEF Accept, Free, Open
<1>13. CASE Reject
  BY <1>13 DEF Reject
<1>14. ASSUME NEW fd \in Fds, ScanActive(fd) PROVE WakeupInv'
  BY <1>14 DEF ScanActive, Scanning
<1>15. ASSUME NEW fd \in Fds, ScanEmpty(fd) PROVE WakeupInv'
  BY <1>15 DEF ScanEmpty, Scanning, DropClient
<1>16. ASSUME NEW fd \in Fds, ScanData(fd) PROVE WakeupInv'
  BY <1>16 DEF ScanData, Scanning
<1>17. ASSUME NEW t \in Threads, Take(t) PROVE WakeupInv'
  BY <1>17 DEF Take, MoveTo
<1>18. ASSUME NEW t \in Threads, Handshake(t) PROVE WakeupInv'
  BY <1>18 DEF Handshake, MoveTo
<1>19. ASSUME NEW t \in Threads, ReadRequest(t) PROVE WakeupInv'
  BY <1>19 DEF ReadRequest, MoveTo
<1>20. ASSUME NEW t \in Threads, ReadFails(t) PROVE WakeupInv'
  BY <1>20 DEF ReadFails, MoveTo
<1>21. ASSUME NEW t \in Threads, RequestFails(t) PROVE WakeupInv'
  BY <1>21 DEF RequestFails, MoveTo
<1>22. ASSUME NEW t \in Threads, RequestDone(t) PROVE WakeupInv'
  BY <1>22 DEF RequestDone, MoveTo
<1>23. ASSUME NEW t \in Threads, Release(t) PROVE WakeupInv'
  BY <1>23 DEF Release, MoveTo, PutBack
<1>24. ASSUME NEW t \in Threads, CloseSocket(t) PROVE WakeupInv'
  BY <1>24 DEF CloseSocket, MoveTo
<1>25. ASSUME NEW t \in Threads, CountOff(t) PROVE WakeupInv'
  BY <1>25 DEF CountOff, MoveTo
<1>26. CASE StartScan
  BY <1>26 DEF StartScan
<1>27. ASSUME NEW fd \in Fds, ScanOne(fd) PROVE WakeupInv'
  BY <1>27 DEF ScanOne, Idle
<1>28. CASE EndScan
  BY <1>28 DEF EndScan
<1>29. CASE UNCHANGED vars
  BY <1>29 DEF vars
<1> QED
  BY <1>1, <1>2, <1>3, <1>4, <1>5, <1>6, <1>7, <1>8, <1>9, <1>10, <1>11, <1>12, <1>13, <1>14,
     <1>15, <1>16, <1>17, <1>18, <1>19, <1>20, <1>21, <1>22, <1>23, <1>24, <1>25, <1>26, <1>27,
     <1>28, <1>29
  DEF Next, Environment, Main, Worker, SessionManager

\* Every value a variable takes is one the code can hold: in particular no pipe is
\* read more often than it is written, so the select loop never blocks in fgets
\* while it holds connection_fds_mutex.
THEOREM TypeCorrect == Spec => []TypeOK
<1>1. WakeupInv => TypeOK
  BY DEF WakeupInv
<1> QED
  BY WakeupInit, WakeupNext, <1>1, PTL DEF Spec

\* The flag read_fds_called and the byte in the pipe agree, with and without the
\* session manager (service_thread's last lines against the pipe handler).
THEOREM WakeupByte == Spec => []OneWakeupByte
<1>1. WakeupInv => OneWakeupByte
  BY DEF WakeupInv
<1> QED
  BY WakeupInit, WakeupNext, <1>1, PTL DEF Spec

\* A connection put back while the select loop is blocked always has a wake-up
\* byte on its way, with and without the session manager.
THEOREM Wakeup == Spec => []NoLostWakeup
<1>1. WakeupInv => NoLostWakeup
  BY DEF WakeupInv
<1> QED
  BY WakeupInit, WakeupNext, <1>1, PTL DEF Spec

-----------------------------------------------------------------------------
(* The session manager's pipe. *)

\* While close_clients walks the list the manager sleeps and its pipe is empty.
CloseInv ==
    /\ OneCloseByte
    /\ main = "closing" => control2 = 0 /\ manager = "sleep"

LEMMA CloseNext ==
  ASSUME WakeupInv, CloseInv, [Next]_vars PROVE CloseInv'
<1> USE DEF WakeupInv, TypeOK, EventsPending, CloseInv, OneCloseByte, mainVars, managerVars, closeVars
<1>1. CASE Environment
  BY <1>1 DEF Environment, ClientConnects, ClientSends, ClientHangsUp, KeepAliveExpires
<1>2. CASE Main
  BY <1>2
  DEF Main, Snapshot, SelectReturns, SelectFails, HandleControl, HandleControl2, CloseDone, Reject,
      CloseOne, Accept, ScanActive, ScanEmpty, ScanData, Scanning
<1>3. ASSUME NEW t \in Threads, Worker(t) PROVE CloseInv'
  BY <1>3
  DEF Worker, Take, Handshake, ReadRequest, ReadFails, RequestFails, RequestDone, Release,
      CloseSocket, CountOff
<1>4. CASE SessionManager
  BY <1>4 DEF SessionManager, StartScan, ScanOne, EndScan
<1>5. CASE UNCHANGED vars
  BY <1>5 DEF vars
<1> QED
  BY <1>1, <1>2, <1>3, <1>4, <1>5 DEF Next

\* The session manager never has two bytes in its pipe, and has one only while a
\* list waits for close_clients (no flag guards this pipe; the list does).
THEOREM CloseByte == Spec => []OneCloseByte
<1>1. Init => CloseInv
  BY DEF Init, CloseInv, OneCloseByte
<1>2. WakeupInv /\ CloseInv /\ [Next]_vars => CloseInv'
  BY CloseNext
<1>3. CloseInv => OneCloseByte
  BY DEF CloseInv
<1> QED
  BY WakeupInit, WakeupNext, <1>1, <1>2, <1>3, PTL DEF Spec

-----------------------------------------------------------------------------
(* Facts about queues of descriptors. *)

Elems(q) == {q[i] : i \in 1 .. Len(q)}
Distinct(q) == \A i, j \in 1 .. Len(q) : q[i] = q[j] => i = j

LEMMA AppendElems ==
  ASSUME NEW S, NEW q \in Seq(S), NEW x \in S
  PROVE  /\ Elems(Append(q, x)) = Elems(q) \cup {x}
         /\ Distinct(q) /\ x \notin Elems(q) => Distinct(Append(q, x))
<1>1. /\ Len(Append(q, x)) = Len(q) + 1
      /\ \A i \in 1 .. Len(q) : Append(q, x)[i] = q[i]
      /\ Append(q, x)[Len(q) + 1] = x
      /\ Len(q) \in Nat
  OBVIOUS
<1>2. Elems(Append(q, x)) = Elems(q) \cup {x}
  BY <1>1 DEF Elems
<1>3. ASSUME Distinct(q), x \notin Elems(q) PROVE Distinct(Append(q, x))
  BY <1>1, <1>3 DEF Elems, Distinct
<1> QED
  BY <1>2, <1>3

LEMMA TailElems ==
  ASSUME NEW S, NEW q \in Seq(S), q # <<>>, Distinct(q)
  PROVE  /\ Head(q) \in Elems(q)
         /\ Elems(Tail(q)) = Elems(q) \ {Head(q)}
         /\ Distinct(Tail(q))
<1>1. /\ Len(q) \in Nat /\ Len(q) > 0
      /\ Len(Tail(q)) = Len(q) - 1
      /\ \A i \in 1 .. Len(q) - 1 : Tail(q)[i] = q[i + 1]
      /\ Head(q) = q[1]
  OBVIOUS
<1>2. Head(q) \in Elems(q)
  BY <1>1 DEF Elems
<1>3. Distinct(Tail(q))
  BY <1>1 DEF Distinct
<1>4. Elems(Tail(q)) \subseteq Elems(q) \ {Head(q)}
  BY <1>1 DEF Elems, Distinct
<1>5. ASSUME NEW x \in Elems(q), x # Head(q) PROVE x \in Elems(Tail(q))
  <2>1. PICK i \in 1 .. Len(q) : q[i] = x
    BY DEF Elems
  <2>2. i - 1 \in 1 .. Len(q) - 1 /\ Tail(q)[i - 1] = x
    BY <1>1, <1>5, <2>1
  <2> QED
    BY <1>1, <2>2 DEF Elems
<1> QED
  BY <1>2, <1>3, <1>4, <1>5

-----------------------------------------------------------------------------
(* Ownership of connections, when no session manager runs. *)

\* Nothing the session manager would do has happened.
NoManager ==
    /\ manager = "sleep" /\ control2 = 0
    /\ clients_to_close = {} /\ closing = {}
    /\ main # "closing" /\ "control2" \notin events
    /\ dangling = {}

\* The stages between taking a connection and lowering its active flag.
Working == {"handshake", "request", "handle", "closing"}

\* What the select loop watches is open, mapped and not being served.
WatchedOk ==
    /\ WatchedOpen
    /\ connection_fds \subseteq conn_map \ active
    /\ read_fds \subseteq connection_fds

\* What waits in the queue is open and flagged.
QueueOk ==
    /\ Distinct(service_q)
    /\ Elems(service_q) \subseteq conn_map \cap active \cap Open

\* What a thread works on is open and out of the queue and of select's sight, and
\* flagged until the thread is about to put it back.
ServedOk ==
    \A t \in Threads :
        /\ stage[t] \in {"wait", "closed"} => client[t] = NoFd
        /\ stage[t] \in Working =>
               client[t] \in (conn_map \cap active \cap Open) \ Elems(service_q)
        /\ stage[t] = "release" =>
               client[t] \in ((conn_map \cap Open) \ active) \ connection_fds

OneThreadEach == \A t, u \in Threads : client[t] = client[u] /\ client[t] # NoFd => t = u

OwnerInv ==
    /\ NoManager /\ WatchedOk /\ QueueOk /\ ServedOk /\ OneThreadEach

LEMMA OwnerInit == Init => OwnerInv
  BY DEF Init, OwnerInv, NoManager, WatchedOk, WatchedOpen, QueueOk, Distinct, Elems, ServedOk,
      OneThreadEach, Working

LEMMA OwnerNext ==
  ASSUME ~UseCleaner PROVE TypeOK /\ OwnerInv /\ [Next]_vars => OwnerInv'
<1> SUFFICES ASSUME TypeOK, OwnerInv, [Next]_vars PROVE OwnerInv'
  OBVIOUS
<1> USE ConstantsAssumption
    DEF ConstantsAssumption, TypeOK, Stages, OwnerInv, NoManager, WatchedOk, WatchedOpen, QueueOk,
        ServedOk, OneThreadEach, Working, Open, kernelVars, mapVars, fdsVars, closeVars,
        mainVars, managerVars, workerVars
<1>1. CASE ClientConnects
  BY <1>1 DEF ClientConnects
<1>2. ASSUME NEW fd \in Fds, ClientSends(fd) PROVE OwnerInv'
  BY <1>2 DEF ClientSends
<1>3. ASSUME NEW fd \in Fds, ClientHangsUp(fd) PROVE OwnerInv'
  BY <1>3 DEF ClientHangsUp
<1>4. ASSUME NEW fd \in Fds, KeepAliveExpires(fd) PROVE OwnerInv'
  BY <1>4 DEF KeepAliveExpires
<1>5. CASE Snapshot
  BY <1>5 DEF Snapshot
<1>6. CASE SelectReturns
  BY <1>6 DEF SelectReturns, SelectBits
<1>7. CASE SelectFails
  BY <1>7 DEF SelectFails
<1>8. CASE HandleControl
  BY <1>8 DEF HandleControl
<1>9. CASE HandleControl2
  BY <1>9 DEF HandleControl2
<1>10. ASSUME NEW fd \in Fds, CloseOne(fd) PROVE OwnerInv'
  BY <1>10 DEF CloseOne
<1>11. CASE CloseDone
  BY <1>11 DEF CloseDone
<1>12. ASSUME NEW fd \in Fds, Accept(fd) PROVE OwnerInv'
  BY <1>12, AppendElems DEF Accept, Free
<1>13. CASE Reject
  BY <1>13 DEF Reject
<1>14. ASSUME NEW fd \in Fds, ScanActive(fd) PROVE OwnerInv'
  BY <1>14 DEF ScanActive, Scanning
<1>15. ASSUME NEW fd \in Fds, ScanEmpty(fd) PROVE OwnerInv'
  BY <1>15 DEF ScanEmpty, Scanning, DropClient
<1>16. ASSUME NEW fd \in Fds, ScanData(fd) PROVE OwnerInv'
  BY <1>16, AppendElems DEF ScanData, Scanning
<1>17. ASSUME NEW t \in Threads, Take(t) PROVE OwnerInv'
  BY <1>17, TailElems DEF Take, MoveTo
<1>18. ASSUME NEW t \in Threads, Handshake(t) PROVE OwnerInv'
  BY <1>18 DEF Handshake, MoveTo
<1>19. ASSUME NEW t \in Threads, ReadRequest(t) PROVE OwnerInv'
  BY <1>19 DEF ReadRequest, MoveTo
<1>20. ASSUME NEW t \in Threads, ReadFails(t) PROVE OwnerInv'
  BY <1>20 DEF ReadFails, MoveTo
<1>21. ASSUME NEW t \in Threads, RequestFails(t) PROVE OwnerInv'
  BY <1>21 DEF RequestFails, MoveTo
<1>22. ASSUME NEW t \in Threads, RequestDone(t) PROVE OwnerInv'
  BY <1>22 DEF RequestDone, MoveTo
<1>23. ASSUME NEW t \in Threads, Release(t) PROVE OwnerInv'
  BY <1>23 DEF Release, MoveTo, PutBack
<1>24. ASSUME NEW t \in Threads, CloseSocket(t) PROVE OwnerInv'
  BY <1>24 DEF CloseSocket, MoveTo
<1>25. ASSUME NEW t \in Threads, CountOff(t) PROVE OwnerInv'
  BY <1>25 DEF CountOff, MoveTo
<1>26. CASE StartScan
  BY <1>26 DEF StartScan
<1>27. ASSUME NEW fd \in Fds, ScanOne(fd) PROVE OwnerInv'
  BY <1>27 DEF ScanOne
<1>28. CASE EndScan
  BY <1>28 DEF EndScan
<1>29. CASE UNCHANGED vars
  BY <1>29 DEF vars
<1> QED
  BY <1>1, <1>2, <1>3, <1>4, <1>5, <1>6, <1>7, <1>8, <1>9, <1>10, <1>11, <1>12, <1>13, <1>14,
     <1>15, <1>16, <1>17, <1>18, <1>19, <1>20, <1>21, <1>22, <1>23, <1>24, <1>25, <1>26, <1>27,
     <1>28, <1>29
  DEF Next, Environment, Main, Worker, SessionManager

LEMMA OwnerAlways == ASSUME ~UseCleaner PROVE Spec => []OwnerInv
<1>1. TypeOK /\ OwnerInv /\ [Next]_vars => OwnerInv'
  BY OwnerNext
<1> QED
  BY OwnerInit, TypeCorrect, <1>1, PTL DEF Spec

\* Without the session manager a connection is in at most one place: watched by
\* select, once in the service queue, or worked on by one thread.
THEOREM Ownership == ASSUME ~UseCleaner PROVE Spec => []SingleOwner
<1>1. OwnerInv /\ TypeOK => SingleOwner
  <2> SUFFICES ASSUME OwnerInv, TypeOK PROVE SingleOwner
    OBVIOUS
  <2>1. InQueue = Elems(service_q)
    BY DEF InQueue, Elems
  <2>2. ASSUME NEW t \in Threads, client[t] # NoFd
        PROVE  client[t] \notin InQueue \cup connection_fds
    <3>1. stage[t] \in Working \cup {"release"}
      BY <2>2 DEF OwnerInv, ServedOk, TypeOK, Stages, Working
    <3> QED
      BY <2>1, <3>1 DEF OwnerInv, ServedOk, QueueOk, WatchedOk
  <2>3. connection_fds \cap InQueue = {}
    BY <2>1 DEF OwnerInv, QueueOk, WatchedOk
  <2> QED
    BY <2>2, <2>3 DEF SingleOwner, Served, OwnerInv, QueueOk, Distinct, OneThreadEach
<1> QED
  BY OwnerAlways, TypeCorrect, <1>1, PTL

\* Without the session manager select is never given a closed descriptor, so it
\* never fails with EBADF.
THEOREM OnlyOpenWatched == ASSUME ~UseCleaner PROVE Spec => []WatchedOpen
<1>1. OwnerInv => WatchedOpen
  BY DEF OwnerInv, WatchedOk
<1> QED
  BY OwnerAlways, <1>1, PTL

-----------------------------------------------------------------------------
(* The connection counter, when no session manager runs. *)

CountInv == CountExact /\ LimitKept

LEMMA OpenFinite == IsFiniteSet(Open) /\ IsFiniteSet(CountingOff)
<1>1. Open \subseteq Fds /\ CountingOff \subseteq Threads
  BY DEF Open, CountingOff
<1> QED
  BY <1>1, ConstantsAssumption, FS_Subset DEF ConstantsAssumption

LEMMA CountInit == Init => CountInv
<1> SUFFICES ASSUME Init PROVE CountInv
  OBVIOUS
<1>1. Open = {} /\ CountingOff = {}
  BY DEF Init, Open, CountingOff
<1> QED
  BY <1>1, FS_EmptySet, ConstantsAssumption
  DEF Init, CountInv, CountExact, LimitKept, ConstantsAssumption

\* A step that closes no socket, opens none and moves no thread in or out of the
\* stage between close and the decrement.
LEMMA CountSame ==
  ASSUME CountInv, Open' = Open, CountingOff' = CountingOff,
         current_connections' = current_connections
  PROVE  CountInv'
  BY DEF CountInv, CountExact, LimitKept

LEMMA CountNext ==
  ASSUME ~UseCleaner, TypeOK, OwnerInv, CountInv, [Next]_vars PROVE CountInv'
<1> USE DEF TypeOK, OwnerInv, NoManager
<1>0. /\ Cardinality(Open) \in Nat /\ Cardinality(CountingOff) \in Nat
      /\ IsFiniteSet(Open) /\ IsFiniteSet(CountingOff)
  BY OpenFinite, FS_CardinalityType
<1>1. ASSUME NEW fd \in Fds, Accept(fd) PROVE CountInv'
  <2>1. fd \notin Open /\ Open' = Open \cup {fd} /\ CountingOff' = CountingOff
    BY <1>1 DEF Accept, Free, Open, CountingOff, workerVars
  <2>2. Cardinality(Open') = Cardinality(Open) + 1
    BY <1>0, <2>1, FS_AddElement
  <2>3. current_connections' = current_connections + 1 /\ current_connections < MaxConnections
    BY <1>1, ConstantsAssumption DEF Accept, Busy, ConstantsAssumption
  <2> QED
    BY <1>0, <2>1, <2>2, <2>3, ConstantsAssumption
    DEF CountInv, CountExact, LimitKept, ConstantsAssumption
<1>2. ASSUME NEW fd \in Fds, ScanEmpty(fd) PROVE CountInv'
  <2>1. fd \in Open /\ Open' = Open \ {fd} /\ CountingOff' = CountingOff
    BY <1>2 DEF ScanEmpty, Scanning, DropClient, WatchedOk, WatchedOpen, Open, CountingOff
  <2>2. Cardinality(Open') = Cardinality(Open) - 1
    BY <1>0, <2>1, FS_RemoveElement
  <2>3. current_connections' = current_connections - 1
    BY <1>2 DEF ScanEmpty, DropClient
  <2> QED
    BY <1>0, <2>1, <2>2, <2>3, ConstantsAssumption
    DEF CountInv, CountExact, LimitKept, ConstantsAssumption
<1>3. ASSUME NEW t \in Threads, CloseSocket(t) PROVE CountInv'
  <2>1. client[t] \in Open /\ Open' = Open \ {client[t]}
    BY <1>3 DEF CloseSocket, ServedOk, Working, Open
  <2>2. t \notin CountingOff /\ CountingOff' = CountingOff \cup {t}
    BY <1>3 DEF CloseSocket, MoveTo, CountingOff
  <2>3. /\ Cardinality(Open') = Cardinality(Open) - 1
        /\ Cardinality(CountingOff') = Cardinality(CountingOff) + 1
    BY <1>0, <2>1, <2>2, FS_RemoveElement, FS_AddElement
  <2>4. current_connections' = current_connections
    BY <1>3 DEF CloseSocket
  <2> QED
    BY <1>0, <2>3, <2>4, ConstantsAssumption
    DEF CountInv, CountExact, LimitKept, ConstantsAssumption
<1>4. ASSUME NEW t \in Threads, CountOff(t) PROVE CountInv'
  <2>1. t \in CountingOff /\ CountingOff' = CountingOff \ {t} /\ Open' = Open
    BY <1>4 DEF CountOff, MoveTo, CountingOff, Open, kernelVars
  <2>2. Cardinality(CountingOff') = Cardinality(CountingOff) - 1
    BY <1>0, <2>1, FS_RemoveElement
  <2>3. current_connections' = current_connections - 1
    BY <1>4 DEF CountOff
  <2> QED
    BY <1>0, <2>1, <2>2, <2>3 DEF CountInv, CountExact, LimitKept
<1>5. ASSUME \/ \E fd \in Fds : ClientSends(fd) \/ ClientHangsUp(fd)
             \/ \E t \in Threads : ReadRequest(t)
      PROVE  CountInv'
  <2>1. Open' = Open
    BY <1>5 DEF ClientSends, ClientHangsUp, ReadRequest, Open
  <2>2. CountingOff' = CountingOff
    BY <1>5 DEF ClientSends, ClientHangsUp, ReadRequest, MoveTo, CountingOff, workerVars, Stages
  <2>3. current_connections' = current_connections
    BY <1>5 DEF ClientSends, ClientHangsUp, ReadRequest
  <2> QED
    BY <2>1, <2>2, <2>3, CountSame
<1>6. ASSUME \/ ClientConnects \/ \E fd \in Fds : KeepAliveExpires(fd)
             \/ Snapshot \/ SelectReturns \/ SelectFails \/ HandleControl \/ HandleControl2
             \/ CloseDone \/ Reject
             \/ \E fd \in Fds : CloseOne(fd) \/ ScanActive(fd) \/ ScanData(fd)
             \/ SessionManager \/ UNCHANGED vars
      PROVE  CountInv'
  <2>1. Open' = Open /\ CountingOff' = CountingOff /\ current_connections' = current_connections
    BY <1>6
    DEF ClientConnects, KeepAliveExpires, Snapshot, SelectReturns, SelectFails, HandleControl,
        HandleControl2, CloseDone, Reject, CloseOne, ScanActive, ScanData, Scanning,
        SessionManager, StartScan, ScanOne, EndScan, Open, CountingOff, vars, kernelVars, workerVars
  <2> QED
    BY <2>1, CountSame
<1>7. ASSUME \E t \in Threads : \/ Take(t) \/ Handshake(t) \/ ReadFails(t) \/ RequestFails(t)
                               \/ RequestDone(t) \/ Release(t)
      PROVE  CountInv'
  <2>1. Open' = Open /\ current_connections' = current_connections
    BY <1>7
    DEF Take, Handshake, ReadFails, RequestFails, RequestDone, Release, Open, kernelVars
  <2>2. CountingOff' = CountingOff
    BY <1>7
    DEF Take, Handshake, ReadFails, RequestFails, RequestDone, Release, MoveTo, CountingOff, Stages
  <2> QED
    BY <2>1, <2>2, CountSame
<1> QED
  BY <1>1, <1>2, <1>3, <1>4, <1>5, <1>6, <1>7 DEF Next, Environment, Main, Worker

LEMMA CountAlways == ASSUME ~UseCleaner PROVE Spec => []CountInv
<1>1. TypeOK /\ OwnerInv /\ CountInv /\ [Next]_vars => CountInv'
  BY CountNext
<1> QED
  BY CountInit, TypeCorrect, OwnerAlways, <1>1, PTL DEF Spec

\* Without the session manager the counter is exact: every close is counted once.
THEOREM CounterExact == ASSUME ~UseCleaner PROVE Spec => []CountExact
<1>1. CountInv => CountExact
  BY DEF CountInv
<1> QED
  BY CountAlways, <1>1, PTL

\* Without the session manager no more than server_max_connections are open.
THEOREM ConnectionLimit == ASSUME ~UseCleaner PROVE Spec => []LimitKept
<1>1. CountInv => LimitKept
  BY DEF CountInv
<1> QED
  BY CountAlways, <1>1, PTL

-----------------------------------------------------------------------------
(* The front end implements Connections, when no session manager runs.             *)

LEMMA QueueElems == InQueue = Elems(service_q)
BY DEF InQueue, Elems

\* The instance has its own copy of the operator.
LEMMA FrontCardinality == ASSUME NEW S PROVE Front!Cardinality(S) = Cardinality(S)
BY Zenon DEF Front!Cardinality, Cardinality

LEMMA FrontInit == Init => Front!Init
BY DEF Init, Front!Init, Open, InQueue

\* Steps that hand no connection over.
LEMMA FrontSame ==
  ASSUME Open' = Open, UNCHANGED <<connection_fds, service_q, client>>
  PROVE  UNCHANGED Front!connVars
BY DEF Front!connVars, InQueue

LEMMA FrontNext ==
  ASSUME ~UseCleaner, TypeOK, OwnerInv, CountInv, [Next]_vars
  PROVE  [Front!Next]_(Front!connVars)
<1>1. ASSUME \/ ClientConnects \/ \E fd \in Fds : KeepAliveExpires(fd)
             \/ Snapshot \/ SelectReturns \/ SelectFails \/ HandleControl
             \/ CloseDone \/ Reject \/ \E fd \in Fds : ScanActive(fd)
             \/ \E t \in Threads :
                   \/ Handshake(t) \/ ReadFails(t) \/ RequestFails(t) \/ RequestDone(t)
                   \/ CountOff(t)
             \/ SessionManager \/ UNCHANGED vars
      PROVE  UNCHANGED Front!connVars
  <2>1. Open' = Open /\ UNCHANGED <<connection_fds, service_q, client>>
    BY <1>1
    DEF ClientConnects, KeepAliveExpires, Snapshot, SelectReturns, SelectFails, HandleControl,
        CloseDone, Reject, ScanActive, Scanning, Handshake, ReadFails, RequestFails, RequestDone,
        CountOff, SessionManager, StartScan, ScanOne, EndScan, Open, vars, kernelVars, fdsVars,
        workerVars
  <2> QED
    BY <2>1, FrontSame
<1>2. ASSUME NEW fd \in Fds, ClientSends(fd) \/ ClientHangsUp(fd)
      PROVE  UNCHANGED Front!connVars
  <2>1. Open' = Open /\ UNCHANGED <<connection_fds, service_q, client>>
    BY <1>2 DEF ClientSends, ClientHangsUp, Open, TypeOK, fdsVars, workerVars
  <2> QED
    BY <2>1, FrontSame
<1>3. ASSUME NEW t \in Threads, ReadRequest(t) PROVE UNCHANGED Front!connVars
  <2>1. Open' = Open /\ UNCHANGED <<connection_fds, service_q, client>>
    BY <1>3 DEF ReadRequest, Open, TypeOK, fdsVars
  <2> QED
    BY <2>1, FrontSame
<1>4. ~HandleControl2 /\ \A fd \in Fds : ~CloseOne(fd)
  BY DEF HandleControl2, CloseOne, OwnerInv, NoManager
<1>5. ASSUME NEW fd \in Fds, Accept(fd) PROVE Front!Admit(fd)
  <2>1. fd \notin Open /\ Open' = Open \cup {fd} /\ UNCHANGED <<connection_fds, client>>
    BY <1>5 DEF Accept, Free, Open, TypeOK, fdsVars, workerVars
  <2>2. Cardinality(Open) < MaxConnections
    <3>1. current_connections < MaxConnections
      BY <1>5, ConstantsAssumption DEF Accept, Busy, ConstantsAssumption, TypeOK
    <3>2. Cardinality(Open) \in Nat /\ Cardinality(CountingOff) \in Nat
      BY OpenFinite, FS_CardinalityType
    <3> QED
      BY <3>1, <3>2, ConstantsAssumption DEF CountInv, CountExact, ConstantsAssumption
  <2>3. InQueue' = InQueue \cup {fd}
    <3>1. service_q' = Append(service_q, fd)
      BY <1>5 DEF Accept
    <3> QED
      BY <3>1, AppendElems, QueueElems DEF TypeOK, InQueue, Elems
  <2> QED
    BY <2>1, <2>2, <2>3, FrontCardinality DEF Front!Admit
<1>6. ASSUME NEW fd \in Fds, ScanEmpty(fd) PROVE Front!HangUp(fd)
  <2>1. /\ fd \in connection_fds /\ connection_fds' = connection_fds \ {fd}
        /\ UNCHANGED <<service_q, client>>
    BY <1>6 DEF ScanEmpty, Scanning, OwnerInv, WatchedOk
  <2>2. Open' = Open \ {fd}
    BY <1>6 DEF ScanEmpty, DropClient, Open, TypeOK
  <2> QED
    BY <2>1, <2>2 DEF Front!HangUp, InQueue
<1>7. ASSUME NEW fd \in Fds, ScanData(fd) PROVE Front!HandOver(fd)
  <2>1. /\ fd \in connection_fds /\ connection_fds' = connection_fds \ {fd}
        /\ Open' = Open /\ client' = client /\ service_q' = Append(service_q, fd)
    BY <1>7 DEF ScanData, Scanning, OwnerInv, WatchedOk, Open
  <2>2. InQueue' = InQueue \cup {fd}
    BY <2>1, AppendElems, QueueElems DEF TypeOK, InQueue, Elems
  <2> QED
    BY <2>1, <2>2 DEF Front!HandOver
<1>8. ASSUME NEW t \in Threads, Take(t) PROVE \E fd \in Fds : Front!Begin(t, fd)
  <2>1. /\ service_q # <<>> /\ service_q' = Tail(service_q)
        /\ client' = [client EXCEPT ![t] = Head(service_q)]
        /\ Open' = Open /\ connection_fds' = connection_fds /\ client[t] = NoFd
    BY <1>8 DEF Take, Open, kernelVars, fdsVars, OwnerInv, ServedOk
  <2>2. Head(service_q) \in InQueue /\ InQueue' = InQueue \ {Head(service_q)}
    BY <2>1, TailElems, QueueElems DEF TypeOK, OwnerInv, QueueOk, InQueue, Elems
  <2>3. Front!Begin(t, Head(service_q))
    BY <2>1, <2>2 DEF Front!Begin
  <2> QED
    BY <2>1, <2>3 DEF TypeOK
<1>9. ASSUME NEW t \in Threads, Release(t) PROVE Front!GiveBack(t)
  <2>1. /\ client[t] # NoFd /\ connection_fds' = connection_fds \cup {client[t]}
        /\ client' = [client EXCEPT ![t] = NoFd] /\ Open' = Open /\ service_q' = service_q
    BY <1>9, ConstantsAssumption
    DEF Release, PutBack, Open, kernelVars, OwnerInv, NoManager, ServedOk, TypeOK,
        ConstantsAssumption
  <2> QED
    BY <2>1 DEF Front!GiveBack, InQueue
<1>10. ASSUME NEW t \in Threads, CloseSocket(t) PROVE Front!Close(t)
  <2>1. /\ client[t] # NoFd /\ client' = [client EXCEPT ![t] = NoFd]
        /\ UNCHANGED <<connection_fds, service_q>>
    BY <1>10, ConstantsAssumption
    DEF CloseSocket, fdsVars, OwnerInv, ServedOk, Working, TypeOK, Open, ConstantsAssumption
  <2>2. Open' = Open \ {client[t]}
    BY <1>10 DEF CloseSocket, Open, TypeOK
  <2> QED
    BY <2>1, <2>2 DEF Front!Close, InQueue
<1> QED
  BY <1>1, <1>2, <1>3, <1>4, <1>5, <1>6, <1>7, <1>8, <1>9, <1>10
  DEF Next, Environment, Main, Worker, Front!Next

\* The flags, the copies of the descriptor set, the counter and the pipe of
\* server::start and service_thread together implement Connections: what an open
\* connection is handed over with never loses or doubles it, and never lets in one
\* too many, for any number of threads and descriptors.
THEOREM Implementation == ASSUME ~UseCleaner PROVE Spec => KeepsConnections
<1>1. TypeOK /\ OwnerInv /\ CountInv /\ [Next]_vars => [Front!Next]_(Front!connVars)
  BY FrontNext
<1> QED
  BY FrontInit, TypeCorrect, OwnerAlways, CountAlways, <1>1, PTL
  DEF Spec, Front!Spec, KeepsConnections

\* What Connections promises is an invariant of it, whatever implements it.
FrontInv ==
    /\ IsFiniteSet(Open) /\ client \in [Threads -> Fds \cup {NoFd}]
    /\ Front!OnePlace

LEMMA FrontInvInit == Front!Init => FrontInv
<1> SUFFICES ASSUME Front!Init PROVE FrontInv
  OBVIOUS
<1>1. Open = {} /\ connection_fds = {} /\ InQueue = {} /\ client = [s \in Threads |-> NoFd]
  BY DEF Front!Init
<1>2. IsFiniteSet(Open) /\ Front!Cardinality(Open) = 0
  BY <1>1, FS_EmptySet, FrontCardinality
<1> QED
  BY <1>1, <1>2, ConstantsAssumption
  DEF FrontInv, Front!OnePlace, Front!Served, ConstantsAssumption

LEMMA FrontInvNext == FrontInv /\ [Front!Next]_(Front!connVars) => FrontInv'
<1> SUFFICES ASSUME FrontInv, [Front!Next]_(Front!connVars) PROVE FrontInv'
  OBVIOUS
<1>0. IsFiniteSet(Open) /\ Cardinality(Open) \in Nat
  BY FS_CardinalityType DEF FrontInv
<1> USE DEF FrontInv, Front!OnePlace, Front!Served
<1>1. CASE UNCHANGED Front!connVars
  <2>1. Open' = Open /\ connection_fds' = connection_fds /\ InQueue' = InQueue /\ client' = client
    BY <1>1 DEF Front!connVars
  <2> QED
    BY <2>1
<1>2. ASSUME NEW c \in Fds, Front!Admit(c) PROVE FrontInv'
  <2>1. /\ c \notin Open /\ Open' = Open \cup {c} /\ InQueue' = InQueue \cup {c}
        /\ UNCHANGED <<connection_fds, client>>
        /\ Cardinality(Open) < MaxConnections
    BY <1>2, FrontCardinality DEF Front!Admit
  <2>2. /\ IsFiniteSet(Open') /\ Cardinality(Open') = Cardinality(Open) + 1
        /\ Cardinality(Open) \in Nat
    BY <1>0, <2>1, FS_AddElement
  <2>3. Front!Cardinality(Open') <= MaxConnections
    BY <2>1, <2>2, FrontCardinality, ConstantsAssumption DEF ConstantsAssumption
  <2> QED
    BY <2>1, <2>2, <2>3
<1>3. ASSUME NEW c \in Fds, Front!HandOver(c) PROVE FrontInv'
  BY <1>3 DEF Front!HandOver
<1>4. ASSUME NEW c, Open' = Open \ {c}
      PROVE  IsFiniteSet(Open') /\ Front!Cardinality(Open') <= MaxConnections
  <2>1. /\ IsFiniteSet(Open') /\ Cardinality(Open') \in Nat /\ Cardinality(Open) \in Nat
        /\ Cardinality(Open') <= Cardinality(Open)
    BY <1>4, FS_Subset, FS_CardinalityType
  <2> QED
    BY <2>1, FrontCardinality, ConstantsAssumption DEF ConstantsAssumption
<1>5. ASSUME NEW c \in Fds, Front!HangUp(c) PROVE FrontInv'
  <2>1. /\ c \in connection_fds /\ Open' = Open \ {c}
        /\ connection_fds' = connection_fds \ {c} /\ InQueue' = InQueue /\ client' = client
    BY <1>5 DEF Front!HangUp
  <2> QED
    BY <1>4, <2>1
<1>6. ASSUME NEW s \in Threads, NEW c \in Fds, Front!Begin(s, c) PROVE FrontInv'
  BY <1>6, ConstantsAssumption DEF Front!Begin, ConstantsAssumption
<1>7. ASSUME NEW s \in Threads, Front!GiveBack(s) PROVE FrontInv'
  BY <1>7 DEF Front!GiveBack
<1>8. ASSUME NEW s \in Threads, Front!Close(s) PROVE FrontInv'
  <2>1. /\ client[s] # NoFd /\ Open' = Open \ {client[s]}
        /\ client' = [client EXCEPT ![s] = NoFd]
        /\ connection_fds' = connection_fds /\ InQueue' = InQueue
    BY <1>8 DEF Front!Close
  <2> QED
    BY <1>4, <2>1
<1> QED
  BY <1>1, <1>2, <1>3, <1>5, <1>6, <1>7, <1>8 DEF Front!Next

LEMMA FrontPlaces == KeepsConnections => []Front!OnePlace
<1>1. FrontInv => Front!OnePlace
  BY DEF FrontInv
<1> QED
  BY FrontInvInit, FrontInvNext, <1>1, PTL DEF Front!Spec, KeepsConnections

\* Without the session manager no open connection is ever forgotten: select watches
\* it, or it is in the queue, or a thread has it, and only one of these.
THEOREM OnePlaceEach == ASSUME ~UseCleaner PROVE Spec => []Front!OnePlace
BY Implementation, FrontPlaces, PTL

-----------------------------------------------------------------------------
(* Capacity, with and without the session manager. *)

\* Taking one element from a finite set takes at most one from its size.
LEMMA RemoveAtMostOne ==
  ASSUME NEW S, IsFiniteSet(S), NEW x
  PROVE  /\ Cardinality(S) \in Nat /\ Cardinality(S \ {x}) \in Nat
         /\ Cardinality(S) - 1 <= Cardinality(S \ {x})
<1>1. Cardinality(S) \in Nat
  BY FS_CardinalityType
<1>2. CASE x \in S
  <2>1. IsFiniteSet(S \ {x}) /\ Cardinality(S \ {x}) = Cardinality(S) - 1
    BY <1>2, FS_RemoveElement
  <2> QED
    BY <1>1, <2>1, FS_CardinalityType
<1>3. CASE x \notin S
  <2>1. S \ {x} = S
    BY <1>3
  <2> QED
    BY <1>1, <2>1
<1> QED
  BY <1>2, <1>3, <1>1

LEMMA CapacityNext ==
  ASSUME WakeupInv, NoCapacityLost, [Next]_vars PROVE NoCapacityLost'
<1> USE DEF WakeupInv, TypeOK
<1>0. /\ Cardinality(Open) \in Nat /\ Cardinality(CountingOff) \in Nat
      /\ IsFiniteSet(Open) /\ IsFiniteSet(CountingOff)
  BY OpenFinite, FS_CardinalityType
<1>1. ASSUME Open' = Open, CountingOff' = CountingOff, current_connections' = current_connections
      PROVE  NoCapacityLost'
  BY <1>1 DEF NoCapacityLost
<1>2. ASSUME NEW fd \in Fds, Accept(fd) PROVE NoCapacityLost'
  <2>1. fd \notin Open /\ Open' = Open \cup {fd} /\ CountingOff' = CountingOff
    BY <1>2 DEF Accept, Free, Open, CountingOff, workerVars
  <2>2. Cardinality(Open') = Cardinality(Open) + 1
    BY <1>0, <2>1, FS_AddElement
  <2> QED
    BY <1>0, <1>2, <2>1, <2>2 DEF Accept, NoCapacityLost
<1>3. ASSUME NEW fd \in Fds, DropClient(fd), CountingOff' = CountingOff PROVE NoCapacityLost'
  <2>1. Open' = Open \ {fd}
    BY <1>3 DEF DropClient, Open
  <2>2. Cardinality(Open') \in Nat /\ Cardinality(Open) - 1 <= Cardinality(Open')
    BY <1>0, <2>1, RemoveAtMostOne
  <2> QED
    BY <1>0, <1>3, <2>2 DEF DropClient, NoCapacityLost
<1>4. ASSUME NEW t \in Threads, CloseSocket(t) PROVE NoCapacityLost'
  <2>1. Open' = Open \ {client[t]}
    BY <1>4 DEF CloseSocket, Open, WakeupInv, ClientHeld
  <2>2. t \notin CountingOff /\ CountingOff' = CountingOff \cup {t}
    BY <1>4 DEF CloseSocket, MoveTo, CountingOff
  <2>3. /\ Cardinality(Open') \in Nat /\ Cardinality(Open) - 1 <= Cardinality(Open')
        /\ Cardinality(CountingOff') = Cardinality(CountingOff) + 1
    BY <1>0, <2>1, <2>2, RemoveAtMostOne, FS_AddElement
  <2> QED
    BY <1>0, <1>4, <2>3 DEF CloseSocket, NoCapacityLost
<1>5. ASSUME NEW t \in Threads, CountOff(t) PROVE NoCapacityLost'
  <2>1. t \in CountingOff /\ CountingOff' = CountingOff \ {t} /\ Open' = Open
    BY <1>5 DEF CountOff, MoveTo, CountingOff, Open, kernelVars
  <2>2. Cardinality(CountingOff') = Cardinality(CountingOff) - 1
    BY <1>0, <2>1, FS_RemoveElement
  <2> QED
    BY <1>0, <1>5, <2>1, <2>2 DEF CountOff, NoCapacityLost
<1>6. ASSUME NEW fd \in Fds, CloseOne(fd) PROVE NoCapacityLost'
  <2>1. CountingOff' = CountingOff
    BY <1>6 DEF CloseOne, CountingOff
  <2>2. CASE fd \in conn_map \ active
    BY <1>3, <1>6, <2>1, <2>2 DEF CloseOne
  <2>3. CASE fd \notin conn_map \ active
    BY <1>1, <1>6, <2>1, <2>3 DEF CloseOne, Open
  <2> QED
    BY <2>2, <2>3
<1>7. ASSUME NEW fd \in Fds, ScanEmpty(fd) PROVE NoCapacityLost'
  BY <1>3, <1>7 DEF ScanEmpty, Scanning, CountingOff
<1>8. ASSUME \/ \E fd \in Fds : ClientSends(fd) \/ ClientHangsUp(fd)
             \/ \E t \in Threads : ReadRequest(t)
      PROVE  NoCapacityLost'
  <2>1. Open' = Open
    BY <1>8 DEF ClientSends, ClientHangsUp, ReadRequest, Open
  <2>2. CountingOff' = CountingOff /\ current_connections' = current_connections
    BY <1>8 DEF ClientSends, ClientHangsUp, ReadRequest, MoveTo, CountingOff, workerVars, Stages
  <2> QED
    BY <1>1, <2>1, <2>2
<1>9. ASSUME \/ ClientConnects \/ \E fd \in Fds : KeepAliveExpires(fd)
             \/ Snapshot \/ SelectReturns \/ SelectFails \/ HandleControl \/ HandleControl2
             \/ CloseDone \/ Reject \/ \E fd \in Fds : ScanActive(fd) \/ ScanData(fd)
             \/ SessionManager \/ UNCHANGED vars
      PROVE  NoCapacityLost'
  <2>1. Open' = Open /\ CountingOff' = CountingOff /\ current_connections' = current_connections
    BY <1>9
    DEF ClientConnects, KeepAliveExpires, Snapshot, SelectReturns, SelectFails, HandleControl,
        HandleControl2, CloseDone, Reject, ScanActive, ScanData, Scanning, SessionManager,
        StartScan, ScanOne, EndScan, Open, CountingOff, vars, kernelVars, workerVars
  <2> QED
    BY <1>1, <2>1
<1>10. ASSUME \E t \in Threads : \/ Take(t) \/ Handshake(t) \/ ReadFails(t) \/ RequestFails(t)
                                \/ RequestDone(t) \/ Release(t)
       PROVE  NoCapacityLost'
  <2>1. Open' = Open /\ current_connections' = current_connections
    BY <1>10
    DEF Take, Handshake, ReadFails, RequestFails, RequestDone, Release, Open, kernelVars
  <2>2. CountingOff' = CountingOff
    BY <1>10
    DEF Take, Handshake, ReadFails, RequestFails, RequestDone, Release, MoveTo, CountingOff, Stages
  <2> QED
    BY <1>1, <2>1, <2>2
<1> QED
  BY <1>2, <1>4, <1>5, <1>6, <1>7, <1>8, <1>9, <1>10 DEF Next, Environment, Main, Worker

\* A closed connection never stays counted, so the server cannot run out of
\* capacity with no client connected; the session manager's races only undercount.
THEOREM Capacity == Spec => []NoCapacityLost
<1>1. Init => NoCapacityLost
  <2> SUFFICES ASSUME Init PROVE NoCapacityLost
    OBVIOUS
  <2>1. Open = {} /\ CountingOff = {}
    BY DEF Init, Open, CountingOff
  <2> QED
    BY <2>1, FS_EmptySet DEF Init, NoCapacityLost
<1>2. WakeupInv /\ NoCapacityLost /\ [Next]_vars => NoCapacityLost'
  BY CapacityNext
<1> QED
  BY WakeupInit, WakeupNext, <1>1, <1>2, PTL DEF Spec

-----------------------------------------------------------------------------
(* The use of a TLS session, with and without the session manager. *)

\* What waits or is worked on is open and flagged, and in one place only.  Nothing is
\* said of a connection whose flag is lowered, nor of the map and the watched
\* descriptors: there the session manager interferes.
SessionInv ==
    /\ Distinct(service_q)
    /\ Elems(service_q) \subseteq active \cap Open
    /\ \A t \in Threads :
          stage[t] \in Working => client[t] \in (active \cap Open) \ Elems(service_q)
    /\ \A t, u \in Threads :
          stage[t] \in Working /\ stage[u] \in Working /\ client[t] = client[u] => t = u
    /\ \A t \in Threads : stage[t] \in {"wait", "closed"} => client[t] = NoFd

LEMMA SessionInit == Init => SessionInv
  BY DEF Init, SessionInv, Distinct, Elems, Working

\* The main thread closes only what is not flagged.
LEMMA SessionDrop ==
  ASSUME TypeOK, SessionInv, NEW fd \in Fds, fd \notin active, DropClient(fd),
         UNCHANGED <<active, stage, client, service_q>>
  PROVE  SessionInv'
<1>1. Open' = Open \ {fd}
  BY DEF DropClient, TypeOK, Open
<1> QED
  BY <1>1 DEF SessionInv

\* Steps that open and close no descriptor and touch neither flags nor queue.
LEMMA SessionSame ==
  ASSUME SessionInv, Open' = Open, UNCHANGED <<active, stage, client, service_q>>
  PROVE  SessionInv'
BY DEF SessionInv

\* A descriptor whose flag was not raised, or was not open, joins the queue.
LEMMA SessionJoin ==
  ASSUME TypeOK, SessionInv, NEW fd \in Fds, fd \notin active \cap Open,
         active' = active \cup {fd}, Open' = Open \cup {fd},
         service_q' = Append(service_q, fd), UNCHANGED <<stage, client>>
  PROVE  SessionInv'
<1>1. Elems(service_q') = Elems(service_q) \cup {fd} /\ Distinct(service_q')
  BY AppendElems DEF TypeOK, SessionInv
<1> QED
  BY <1>1 DEF SessionInv

\* A thread moves on with the connection it has.
LEMMA SessionStage ==
  ASSUME TypeOK, SessionInv, NEW t \in Threads, NEW s \in Working, stage[t] \in Working,
         stage' = [stage EXCEPT ![t] = s], Open' = Open,
         UNCHANGED <<active, client, service_q>>
  PROVE  SessionInv'
BY DEF TypeOK, SessionInv, Working

LEMMA SessionNext == TypeOK /\ SessionInv /\ [Next]_vars => SessionInv'
<1> SUFFICES ASSUME TypeOK, SessionInv, [Next]_vars PROVE SessionInv'
  OBVIOUS
<1>1. ASSUME \/ ClientConnects \/ \E fd \in Fds : KeepAliveExpires(fd)
             \/ Snapshot \/ SelectReturns \/ SelectFails \/ HandleControl \/ HandleControl2
             \/ CloseDone \/ Reject \/ \E fd \in Fds : ScanActive(fd)
             \/ SessionManager \/ UNCHANGED vars
      PROVE  SessionInv'
  <2>1. Open' = Open /\ UNCHANGED <<active, stage, client, service_q>>
    BY <1>1
    DEF ClientConnects, KeepAliveExpires, Snapshot, SelectReturns, SelectFails, HandleControl,
        HandleControl2, CloseDone, Reject, ScanActive, Scanning, SessionManager, StartScan,
        ScanOne, EndScan, Open, vars, kernelVars, mapVars, workerVars
  <2> QED
    BY <2>1, SessionSame
<1>2. ASSUME NEW fd \in Fds, ClientSends(fd) \/ ClientHangsUp(fd) PROVE SessionInv'
  <2>1. Open' = Open /\ UNCHANGED <<active, stage, client, service_q>>
    BY <1>2 DEF ClientSends, ClientHangsUp, Open, TypeOK, mapVars, workerVars
  <2> QED
    BY <2>1, SessionSame
<1>3. ASSUME NEW fd \in Fds, CloseOne(fd) PROVE SessionInv'
  <2>1. UNCHANGED <<active, stage, client, service_q>>
    BY <1>3 DEF CloseOne
  <2>2. CASE fd \in conn_map \ active
    BY <1>3, <2>1, <2>2, SessionDrop DEF CloseOne
  <2>3. CASE fd \notin conn_map \ active
    BY <1>3, <2>1, <2>3, SessionSame DEF CloseOne, Open
  <2> QED
    BY <2>2, <2>3
<1>4. ASSUME NEW fd \in Fds, Accept(fd) PROVE SessionInv'
  <2>1. fd \notin Open /\ Open' = Open \cup {fd}
    BY <1>4 DEF Accept, Free, Open, TypeOK
  <2> QED
    BY <1>4, <2>1, SessionJoin DEF Accept, workerVars
<1>5. ASSUME NEW fd \in Fds, ScanEmpty(fd) PROVE SessionInv'
  BY <1>5, SessionDrop DEF ScanEmpty, Scanning
<1>6. ASSUME NEW fd \in Fds, ScanData(fd) PROVE SessionInv'
  <2>1. fd \notin active /\ Open' = Open \cup {fd}
    BY <1>6 DEF ScanData, Open
  <2> QED
    BY <1>6, <2>1, SessionJoin DEF ScanData, Scanning
<1>7. ASSUME NEW t \in Threads, Take(t) PROVE SessionInv'
  <2> DEFINE s == IF Head(service_q) \in ssl THEN "request" ELSE "handshake"
  <2>1. /\ service_q # <<>> /\ service_q' = Tail(service_q) /\ Open' = Open /\ active' = active
        /\ client' = [client EXCEPT ![t] = Head(service_q)]
        /\ stage' = [stage EXCEPT ![t] = s]
    BY <1>7 DEF Take, MoveTo, kernelVars, mapVars, Open
  <2>2. s \in Working
    BY DEF Working
  <2> HIDE DEF s
  <2>3. /\ Head(service_q) \in Elems(service_q) /\ Distinct(service_q')
        /\ Elems(service_q') = Elems(service_q) \ {Head(service_q)}
    BY <2>1, TailElems DEF TypeOK, SessionInv
  <2>4. /\ stage'[t] = s /\ client'[t] = Head(service_q)
        /\ \A u \in Threads \ {t} : stage'[u] = stage[u] /\ client'[u] = client[u]
    BY <2>1 DEF TypeOK
  <2> QED
    BY <2>1, <2>2, <2>3, <2>4 DEF SessionInv, Working
<1>8. ASSUME NEW t \in Threads, Handshake(t) PROVE SessionInv'
  <2>1. /\ stage[t] \in Working /\ Open' = Open /\ UNCHANGED <<active, client, service_q>>
        /\ \E s \in Working : stage' = [stage EXCEPT ![t] = s]
    BY <1>8 DEF Handshake, MoveTo, Working, Open, kernelVars
  <2> QED
    BY <2>1, SessionStage
<1>9. ASSUME NEW t \in Threads, ReadRequest(t) PROVE SessionInv'
  <2>1. /\ stage[t] \in Working /\ UNCHANGED <<active, client, service_q>>
        /\ \E s \in Working : stage' = [stage EXCEPT ![t] = s]
    BY <1>9 DEF ReadRequest, MoveTo, Working, mapVars
  <2>2. Open' = Open
    BY <1>9 DEF ReadRequest, Open, TypeOK
  <2> QED
    BY <2>1, <2>2, SessionStage
<1>10. ASSUME NEW t \in Threads, ReadFails(t) \/ RequestFails(t) PROVE SessionInv'
  <2>1. /\ stage[t] \in Working /\ Open' = Open /\ UNCHANGED <<active, client, service_q>>
        /\ \E s \in Working : stage' = [stage EXCEPT ![t] = s]
    BY <1>10 DEF ReadFails, RequestFails, MoveTo, Working, Open, kernelVars, mapVars
  <2> QED
    BY <2>1, SessionStage
<1>11. ASSUME NEW t \in Threads, RequestDone(t) PROVE SessionInv'
  <2>1. /\ stage[t] \in Working /\ Open' = Open /\ UNCHANGED <<client, service_q>>
        /\ active' = active \ {client[t]} /\ stage' = [stage EXCEPT ![t] = "release"]
    BY <1>11 DEF RequestDone, MoveTo, Working, Open, kernelVars
  <2> QED
    BY <2>1 DEF TypeOK, SessionInv, Working
<1>12. ASSUME NEW t \in Threads, Release(t) PROVE SessionInv'
  <2>1. /\ Open' = Open /\ UNCHANGED <<active, service_q>>
        /\ client' = [client EXCEPT ![t] = NoFd] /\ stage' = [stage EXCEPT ![t] = "wait"]
    BY <1>12 DEF Release, MoveTo, Open, kernelVars, mapVars
  <2> QED
    BY <2>1 DEF TypeOK, SessionInv, Working
<1>13. ASSUME NEW t \in Threads, CloseSocket(t) PROVE SessionInv'
  <2>1. /\ stage[t] \in Working /\ UNCHANGED <<active, service_q>>
        /\ client' = [client EXCEPT ![t] = NoFd] /\ stage' = [stage EXCEPT ![t] = "closed"]
    BY <1>13 DEF CloseSocket, MoveTo, mapVars, Working
  <2>2. Open' = Open \ {client[t]}
    BY <1>13 DEF CloseSocket, Open, TypeOK
  <2> QED
    BY <2>1, <2>2 DEF TypeOK, SessionInv, Working
<1>14. ASSUME NEW t \in Threads, CountOff(t) PROVE SessionInv'
  <2>1. /\ stage[t] = "closed" /\ Open' = Open /\ UNCHANGED <<active, client, service_q>>
        /\ stage' = [stage EXCEPT ![t] = "wait"]
    BY <1>14 DEF CountOff, MoveTo, Open, kernelVars, mapVars
  <2> QED
    BY <2>1 DEF TypeOK, SessionInv, Working
<1> QED
  BY <1>1, <1>2, <1>3, <1>4, <1>5, <1>6, <1>7, <1>8, <1>9, <1>10, <1>11, <1>12, <1>13, <1>14
  DEF Next, Environment, Main, Worker

\* No two threads use one TLS session (SSL_read, SSL_write, SSL_shutdown) at a time,
\* with and without the session manager, whatever descriptors it closes behind their
\* backs.  (That no thread is suspended for server_keep_alive seconds, which
\* KeepAliveExpires assumes, is not used.)
THEOREM SessionsApart == Spec => []NoSharedSession
<1>1. TypeOK /\ SessionInv => NoSharedSession
  <2> SUFFICES ASSUME TypeOK, SessionInv, NEW t \in Threads, NEW u \in Threads,
                      client[t] = client[u], client[t] # NoFd,
                      stage[t] # "release", stage[u] # "release"
               PROVE  t = u
    BY DEF NoSharedSession
  <2>1. stage[t] \in Working /\ stage[u] \in Working
    BY DEF TypeOK, SessionInv, Stages, Working
  <2> QED
    BY <2>1 DEF SessionInv
<1>2. TypeOK /\ SessionInv /\ [Next]_vars => SessionInv'
  BY SessionNext
<1> QED
  BY SessionInit, TypeCorrect, <1>1, <1>2, PTL DEF Spec

=============================================================================
