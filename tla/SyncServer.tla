------------------------------ MODULE SyncServer ------------------------------
(***************************************************************************)
(* The network front end of the sync server (server.cpp): the select loop  *)
(* of server::start, the service threads, and the client session manager   *)
(* that closes idle connections.  They share conn_map, connection_fds, the *)
(* service queue, the connection counter and two self-pipes.               *)
(*                                                                         *)
(* A conn_meta is represented by memberships: fd \in conn_map is the map   *)
(* key, fd \in active its "active" field, fd \in ssl a non-null "ssl", and *)
(* fd \in stale says that server_keep_alive seconds have passed since      *)
(* "last_used".  Requests, replies and handlers are abstracted to their    *)
(* outcome: the connection is kept, or it is closed.                       *)
(***************************************************************************)
EXTENDS Integers, Sequences, FiniteSets

CONSTANTS
    Fds,            \* descriptors the kernel hands out for client sockets
    NoFd,           \* a null conn_meta pointer
    Threads,        \* the service threads
    MaxConnections, \* server_max_connections
    Backlog,        \* server_tcp_back_log
    UseCleaner,     \* server_use_keep_alive_cleaner
    MaxDrift        \* bound: how far below zero current_connections is followed

ASSUME ConstantsAssumption ==
    /\ IsFiniteSet(Fds)
    /\ IsFiniteSet(Threads)
    /\ NoFd \notin Fds
    /\ MaxConnections \in Nat
    /\ Backlog \in Nat
    /\ UseCleaner \in BOOLEAN
    /\ MaxDrift \in Nat

VARIABLES
    \* the kernel and the clients
    sock,                \* sock[fd]: closed, or open and quiet / data / eof
    backlog,             \* completed connections waiting in accept's queue
    control,             \* bytes in the pipe service threads write
    control2,            \* bytes in the pipe the session manager writes
    \* server members
    conn_map, active, ssl, stale,
    connection_fds,      \* the master descriptor set
    read_fds,            \* select's copy; after select, the bits not yet handled
    read_fds_called,     \* the wake-up byte has been written and not yet read
    service_q,
    current_connections,
    clients_to_close,
    \* control state of the threads
    main,                \* the select loop: serve / select / closing
    events,              \* select's bits for the two pipes and the listener
    closing,             \* close_clients' argument, not yet walked
    manager, scan,       \* the session manager and what its pass has left to visit
    stage, client,       \* each service thread and the conn_meta it works for
    dangling             \* threads whose conn_meta the main thread has erased

kernelVars == <<sock, backlog>>
mapVars    == <<conn_map, active, ssl, stale>>
fdsVars    == <<connection_fds, read_fds_called, control>>
closeVars  == <<clients_to_close, control2>>
mainVars   == <<main, events, closing, read_fds>>
managerVars == <<manager, scan>>
workerVars == <<stage, client, dangling>>
vars == <<kernelVars, mapVars, fdsVars, closeVars, mainVars, managerVars,
          workerVars, service_q, current_connections>>

Stages == {"wait", "handshake", "request", "handle", "release", "closing", "closed"}

TypeOK ==
    /\ sock \in [Fds -> {"closed", "quiet", "data", "eof"}]
    /\ backlog \in 0 .. Backlog
    /\ control \in Nat /\ control2 \in Nat
    /\ conn_map \subseteq Fds /\ active \subseteq Fds
    /\ ssl \subseteq Fds /\ stale \subseteq Fds
    /\ connection_fds \subseteq Fds /\ read_fds \subseteq Fds
    /\ read_fds_called \in BOOLEAN
    /\ service_q \in Seq(Fds)
    /\ current_connections \in Int
    /\ clients_to_close \subseteq Fds /\ closing \subseteq Fds
    /\ main \in {"serve", "select", "closing"}
    /\ events \subseteq {"control", "control2", "listen"}
    /\ manager \in {"sleep", "scan"} /\ scan \subseteq Fds
    /\ stage \in [Threads -> Stages]
    /\ client \in [Threads -> Fds \cup {NoFd}]
    /\ dangling \subseteq Threads

Open == {fd \in Fds : sock[fd] # "closed"}
Free == Fds \ Open

Init ==
    /\ sock = [fd \in Fds |-> "closed"]
    /\ backlog = 0 /\ control = 0 /\ control2 = 0
    /\ conn_map = {} /\ active = {} /\ ssl = {} /\ stale = {}
    /\ connection_fds = {} /\ read_fds = {} /\ read_fds_called = FALSE
    /\ service_q = <<>>
    /\ current_connections = 0
    /\ clients_to_close = {} /\ closing = {}
    /\ main = "serve" /\ events = {}
    /\ manager = "sleep" /\ scan = {}
    /\ stage = [t \in Threads |-> "wait"]
    /\ client = [t \in Threads |-> NoFd]
    /\ dangling = {}

-----------------------------------------------------------------------------
(* The environment: clients and the clock. *)

\* A client completes a TCP connection.  The bound Cardinality(Free) keeps the
\* descriptor table from being exhausted, MaxDrift the counter finite.
ClientConnects ==
    /\ backlog < Backlog /\ backlog < Cardinality(Free)
    /\ current_connections >= -MaxDrift
    /\ backlog' = backlog + 1
    /\ UNCHANGED <<sock, mapVars, fdsVars, closeVars, mainVars, managerVars,
                   workerVars, service_q, current_connections>>

\* At most one unread request per connection: a later one changes nothing the
\* server can tell apart.
ClientSends(fd) ==
    /\ sock[fd] = "quiet"
    /\ sock' = [sock EXCEPT ![fd] = "data"]
    /\ UNCHANGED <<backlog, mapVars, fdsVars, closeVars, mainVars, managerVars,
                   workerVars, service_q, current_connections>>

ClientHangsUp(fd) ==
    /\ sock[fd] \in {"quiet", "data"}
    /\ sock' = [sock EXCEPT ![fd] = "eof"]
    /\ UNCHANGED <<backlog, mapVars, fdsVars, closeVars, mainVars, managerVars,
                   workerVars, service_q, current_connections>>

\* server_keep_alive seconds pass since the connection was last used.  Only the
\* session manager reads the age, and only of connections that are not active.  A
\* thread is assumed not to be suspended that long between lowering the active
\* flag and putting the descriptor back.
KeepAliveExpires(fd) ==
    /\ UseCleaner
    /\ fd \in conn_map \ (active \cup stale)
    /\ \A t \in Threads : client[t] # fd
    /\ stale' = stale \cup {fd}
    /\ UNCHANGED <<kernelVars, conn_map, active, ssl, fdsVars, closeVars, mainVars,
                   managerVars, workerVars, service_q, current_connections>>

-----------------------------------------------------------------------------
(* server::start, the select loop. *)

\* read_fds = connection_fds under the mutex, then block in select.
Snapshot ==
    /\ main = "serve" /\ events = {} /\ read_fds = {}
    /\ read_fds' = connection_fds
    /\ main' = "select"
    /\ UNCHANGED <<kernelVars, mapVars, fdsVars, closeVars, events, closing,
                   managerVars, workerVars, service_q, current_connections>>

Readable(fd) == sock[fd] \in {"data", "eof"}

SelectBits ==
    {e \in {"control", "control2", "listen"} :
        \/ e = "control"  /\ control > 0
        \/ e = "control2" /\ control2 > 0
        \/ e = "listen"   /\ backlog > 0}

SelectReturns ==
    /\ main = "select"
    /\ read_fds \subseteq Open
    /\ events' = SelectBits
    /\ read_fds' = {fd \in read_fds : Readable(fd)}
    /\ events' # {} \/ read_fds' # {}
    /\ main' = "serve"
    /\ UNCHANGED <<kernelVars, mapVars, fdsVars, closeVars, closing,
                   managerVars, workerVars, service_q, current_connections>>

\* A closed descriptor in the set: select returns -1 (EBADF) and the loop
\* prints the error and starts over.
SelectFails ==
    /\ main = "select"
    /\ ~(read_fds \subseteq Open)
    /\ read_fds' = {}
    /\ main' = "serve"
    /\ UNCHANGED <<kernelVars, mapVars, fdsVars, closeVars, events, closing,
                   managerVars, workerVars, service_q, current_connections>>

\* Mutant: the flag stays up, so no thread writes another byte.
HandleControl_FlagKept ==
    /\ main = "serve" /\ "control" \in events
    /\ control' = control - 1
    /\ events' = events \ {"control"}
    /\ UNCHANGED <<kernelVars, mapVars, connection_fds, read_fds_called, closeVars, main,
                   closing, read_fds, managerVars, workerVars, service_q, current_connections>>

\* The wake-up byte is read and the flag lowered under connection_fds_mutex.
HandleControl ==
    /\ main = "serve" /\ "control" \in events
    /\ control' = control - 1
    /\ read_fds_called' = FALSE
    /\ events' = events \ {"control"}
    /\ UNCHANGED <<kernelVars, mapVars, connection_fds, closeVars, main, closing, read_fds,
                   managerVars, workerVars, service_q, current_connections>>

\* clients_to_close_mux is held from here to CloseDone; the first loop of
\* close_clients clears the bits of every listed descriptor.
HandleControl2 ==
    /\ main = "serve" /\ "control" \notin events /\ "control2" \in events
    /\ manager # "scan"
    /\ control2' = control2 - 1
    /\ closing' = clients_to_close
    /\ connection_fds' = connection_fds \ clients_to_close
    /\ main' = "closing"
    /\ UNCHANGED <<kernelVars, mapVars, read_fds_called, control, clients_to_close, events,
                   read_fds, managerVars, workerVars, service_q, current_connections>>

\* Mutant: the connection is not counted off.
DropClient_NotCounted(fd) ==
    /\ sock' = [sock EXCEPT ![fd] = "closed"]
    /\ conn_map' = conn_map \ {fd}
    /\ ssl' = ssl \ {fd}
    /\ stale' = stale \ {fd}
    /\ dangling' = dangling \cup {t \in Threads : client[t] = fd}
    /\ UNCHANGED current_connections

\* Free the SSL session, close the descriptor, count it off and erase its map
\* node; a thread that still holds the node's address is left dangling.
DropClient(fd) ==
    /\ sock' = [sock EXCEPT ![fd] = "closed"]
    /\ current_connections' = current_connections - 1
    /\ conn_map' = conn_map \ {fd}
    /\ ssl' = ssl \ {fd}
    /\ stale' = stale \ {fd}
    /\ dangling' = dangling \cup {t \in Threads : client[t] = fd}

\* close_clients' second loop, one descriptor.
CloseOne(fd) ==
    /\ main = "closing" /\ fd \in closing
    /\ closing' = closing \ {fd}
    /\ IF fd \in conn_map \ active
       THEN DropClient(fd)
       ELSE UNCHANGED <<sock, current_connections, conn_map, ssl, stale, dangling>>
    /\ UNCHANGED <<backlog, active, fdsVars, closeVars, main, events, read_fds,
                   managerVars, stage, client, service_q>>

CloseDone ==
    /\ main = "closing" /\ closing = {}
    /\ clients_to_close' = {}
    /\ events' = events \ {"control2"}
    /\ main' = "serve"
    /\ UNCHANGED <<kernelVars, mapVars, fdsVars, control2, closing, read_fds,
                   managerVars, workerVars, service_q, current_connections>>

\* Mutant: off by one.
Busy_OffByOne == current_connections > MaxConnections

Busy == current_connections >= MaxConnections

\* accept is taken to succeed: what a descriptor of -1 would do is left out.
Accept(fd) ==
    /\ main = "serve" /\ events = {"listen"}
    /\ ~Busy
    /\ fd \in Free
    /\ backlog' = backlog - 1
    /\ sock' = [sock EXCEPT ![fd] = "quiet"]
    /\ conn_map' = conn_map \cup {fd}
    /\ active' = active \cup {fd}
    /\ ssl' = ssl \ {fd}
    /\ stale' = stale \ {fd}
    /\ current_connections' = current_connections + 1
    /\ service_q' = Append(service_q, fd)
    /\ events' = {}
    /\ UNCHANGED <<fdsVars, closeVars, main, closing, read_fds, managerVars, workerVars>>

\* handleServerBusy answers 503 and closes; the loop restarts and leaves the
\* other bits to the next select.
Reject ==
    /\ main = "serve" /\ events = {"listen"}
    /\ Busy
    /\ backlog' = backlog - 1
    /\ events' = {}
    /\ read_fds' = {}
    /\ UNCHANGED <<sock, mapVars, fdsVars, closeVars, main, closing, managerVars,
                   workerVars, service_q, current_connections>>

\* The descriptor loop: one set bit that is not a pipe or the listener.
Scanning(fd) ==
    /\ main = "serve" /\ events = {} /\ fd \in read_fds
    /\ read_fds' = read_fds \ {fd}
    /\ UNCHANGED <<backlog, read_fds_called, control, closeVars, main, events, closing,
                   managerVars, stage, client>>

ScanActive(fd) ==
    /\ Scanning(fd)
    /\ fd \in active
    /\ UNCHANGED <<sock, mapVars, connection_fds, service_q, current_connections, dangling>>

\* Mutant: the descriptor is closed without FD_CLR.
ScanEmpty_StillWatched(fd) ==
    /\ Scanning(fd)
    /\ fd \notin active /\ sock[fd] # "data"
    /\ DropClient(fd)
    /\ UNCHANGED <<active, connection_fds, service_q>>

\* FIONREAD finds nothing to read (or fails, the descriptor being closed).
\* conn_map[i] creates a missing entry, which close_client's caller erases.
ScanEmpty(fd) ==
    /\ Scanning(fd)
    /\ fd \notin active /\ sock[fd] # "data"
    /\ connection_fds' = connection_fds \ {fd}
    /\ DropClient(fd)
    /\ UNCHANGED <<active, service_q>>

\* Mutant: the descriptor stays in the master set while a thread works on it.
ScanData_StillWatched(fd) ==
    /\ Scanning(fd)
    /\ fd \notin active /\ sock[fd] = "data"
    /\ conn_map' = conn_map \cup {fd}
    /\ active' = active \cup {fd}
    /\ service_q' = Append(service_q, fd)
    /\ UNCHANGED <<sock, ssl, stale, connection_fds, current_connections, dangling>>

\* Mutant: the active flag is neither tested nor raised.
ScanData_NoFlag(fd) ==
    /\ Scanning(fd)
    /\ sock[fd] = "data"
    /\ connection_fds' = connection_fds \ {fd}
    /\ conn_map' = conn_map \cup {fd}
    /\ service_q' = Append(service_q, fd)
    /\ UNCHANGED <<sock, active, ssl, stale, current_connections, dangling>>

\* Hand the connection to the service threads.
ScanData(fd) ==
    /\ Scanning(fd)
    /\ fd \notin active /\ sock[fd] = "data"
    /\ connection_fds' = connection_fds \ {fd}
    /\ conn_map' = conn_map \cup {fd}
    /\ active' = active \cup {fd}
    /\ service_q' = Append(service_q, fd)
    /\ UNCHANGED <<sock, ssl, stale, current_connections, dangling>>

Main ==
    \/ Snapshot \/ SelectReturns \/ SelectFails
    \/ HandleControl \/ HandleControl2 \/ CloseDone \/ Reject
    \/ \E fd \in Fds : CloseOne(fd) \/ Accept(fd)
                       \/ ScanActive(fd) \/ ScanEmpty(fd) \/ ScanData(fd)

-----------------------------------------------------------------------------
(* service_thread. *)

MoveTo(t, s) == stage' = [stage EXCEPT ![t] = s]

\* Pop a connection under service_mutex (a waiting thread needs a non-empty queue).
Take(t) ==
    /\ stage[t] = "wait" /\ service_q # <<>>
    /\ client' = [client EXCEPT ![t] = Head(service_q)]
    /\ service_q' = Tail(service_q)
    /\ MoveTo(t, IF Head(service_q) \in ssl THEN "request" ELSE "handshake")
    /\ UNCHANGED <<kernelVars, mapVars, fdsVars, closeVars, mainVars, managerVars,
                   dangling, current_connections>>

Handshake(t) ==
    /\ stage[t] = "handshake"
    /\ \/ ssl' = ssl \cup {client[t]} /\ MoveTo(t, "request")
       \/ ssl' = ssl /\ MoveTo(t, "closing")
    /\ UNCHANGED <<kernelVars, conn_map, active, stale, fdsVars, closeVars, mainVars,
                   managerVars, client, dangling, service_q, current_connections>>

ReadRequest(t) ==
    /\ stage[t] = "request" /\ sock[client[t]] = "data"
    /\ sock' = [sock EXCEPT ![client[t]] = "quiet"]
    /\ MoveTo(t, "handle")
    /\ UNCHANGED <<backlog, mapVars, fdsVars, closeVars, mainVars, managerVars,
                   client, dangling, service_q, current_connections>>

\* No header bytes: read_incoming_bytes returned NULL.  If SSL_read returned -1 before
\* anything had come, it returns what its new buffer happens to hold, which is taken
\* for a request (see HttpSession).
ReadFails(t) ==
    /\ stage[t] = "request"
    /\ MoveTo(t, "closing") \/ (sock[client[t]] # "data" /\ MoveTo(t, "handle"))
    /\ UNCHANGED <<kernelVars, mapVars, fdsVars, closeVars, mainVars, managerVars,
                   client, dangling, service_q, current_connections>>

\* The handler threw register_server_exception: an error reply, then close.
RequestFails(t) ==
    /\ stage[t] = "handle"
    /\ MoveTo(t, "closing")
    /\ UNCHANGED <<kernelVars, mapVars, fdsVars, closeVars, mainVars, managerVars,
                   client, dangling, service_q, current_connections>>

\* The reply is written, or parse_header returned false and nothing is written:
\* last_used is refreshed and the active flag lowered.
RequestDone(t) ==
    /\ stage[t] = "handle"
    /\ stale' = stale \ {client[t]}
    /\ active' = active \ {client[t]}
    /\ MoveTo(t, "release")
    /\ UNCHANGED <<kernelVars, conn_map, ssl, fdsVars, closeVars, mainVars, managerVars,
                   client, dangling, service_q, current_connections>>

\* Mutant: a byte for every descriptor put back.
PutBack_AlwaysWrites(fd) ==
    /\ connection_fds' = connection_fds \cup {fd}
    /\ read_fds_called' = TRUE
    /\ control' = control + 1

\* Mutant: without FD_SET.
PutBack_NotSet(fd) ==
    /\ connection_fds' = connection_fds
    /\ read_fds_called' = TRUE
    /\ control' = IF read_fds_called THEN control ELSE control + 1

\* FD_SET and, unless a wake-up is already on its way, a byte for select.
PutBack(fd) ==
    /\ connection_fds' = connection_fds \cup {fd}
    /\ read_fds_called' = TRUE
    /\ control' = IF read_fds_called THEN control ELSE control + 1

\* client->socket is read here.  If the main thread has erased the map node, the
\* freed memory holds the old number or that of a node allocated in its place.
Release(t) ==
    /\ stage[t] = "release"
    /\ \E fd \in {client[t]} \cup (IF t \in dangling THEN conn_map ELSE {}) : PutBack(fd)
    /\ client' = [client EXCEPT ![t] = NoFd]
    /\ dangling' = dangling \ {t}
    /\ MoveTo(t, "wait")
    /\ UNCHANGED <<kernelVars, mapVars, closeVars, mainVars, managerVars,
                   service_q, current_connections>>

\* close_client of a service thread: the node stays in conn_map, marked active,
\* until accept is given the same descriptor and overwrites it.
CloseSocket(t) ==
    /\ stage[t] = "closing"
    /\ sock' = [sock EXCEPT ![client[t]] = "closed"]
    /\ client' = [client EXCEPT ![t] = NoFd]
    /\ MoveTo(t, "closed")
    /\ UNCHANGED <<backlog, mapVars, fdsVars, closeVars, mainVars, managerVars,
                   dangling, service_q, current_connections>>

\* Mutant: close_client without connections--.
CountOff_Forgotten(t) ==
    /\ stage[t] = "closed"
    /\ MoveTo(t, "wait")
    /\ UNCHANGED <<kernelVars, mapVars, fdsVars, closeVars, mainVars, managerVars,
                   client, dangling, service_q, current_connections>>

\* connections--, after the descriptor is already closed.
CountOff(t) ==
    /\ stage[t] = "closed"
    /\ current_connections' = current_connections - 1
    /\ MoveTo(t, "wait")
    /\ UNCHANGED <<kernelVars, mapVars, fdsVars, closeVars, mainVars, managerVars,
                   client, dangling, service_q>>

Worker(t) ==
    \/ Take(t) \/ Handshake(t) \/ ReadRequest(t) \/ ReadFails(t)
    \/ RequestFails(t) \/ RequestDone(t) \/ Release(t)
    \/ CloseSocket(t) \/ CountOff(t)

-----------------------------------------------------------------------------
(* The client session manager. *)

\* Mutant: the test that the list is empty is dropped.
StartScan_AnyList ==
    /\ UseCleaner
    /\ manager = "sleep" /\ main # "closing"
    /\ manager' = "scan"
    /\ scan' = Fds
    /\ UNCHANGED <<kernelVars, mapVars, fdsVars, closeVars, mainVars,
                   workerVars, service_q, current_connections>>

\* The size of clients_to_close is read without the mutex, which is then taken.
StartScan ==
    /\ UseCleaner
    /\ manager = "sleep" /\ clients_to_close = {} /\ main # "closing"
    /\ manager' = "scan"
    /\ scan' = Fds
    /\ UNCHANGED <<kernelVars, mapVars, fdsVars, closeVars, mainVars,
                   workerVars, service_q, current_connections>>

Idle(fd) == fd \in (conn_map \ active) \cap stale

\* Each entry is read as the pass reaches it, without the mutex that guards it.
ScanOne(fd) ==
    /\ manager = "scan" /\ fd \in scan
    /\ scan' = scan \ {fd}
    /\ clients_to_close' = IF Idle(fd) THEN clients_to_close \cup {fd} ELSE clients_to_close
    /\ UNCHANGED <<kernelVars, mapVars, fdsVars, control2, mainVars, manager,
                   workerVars, service_q, current_connections>>

EndScan ==
    /\ manager = "scan" /\ scan = {}
    /\ manager' = "sleep"
    /\ control2' = IF clients_to_close = {} THEN control2 ELSE control2 + 1
    /\ UNCHANGED <<kernelVars, mapVars, fdsVars, clients_to_close, mainVars, scan,
                   workerVars, service_q, current_connections>>

SessionManager == StartScan \/ EndScan \/ \E fd \in Fds : ScanOne(fd)

-----------------------------------------------------------------------------
Environment ==
    \/ ClientConnects
    \/ \E fd \in Fds : ClientSends(fd) \/ ClientHangsUp(fd) \/ KeepAliveExpires(fd)

Next ==
    \/ Environment
    \/ Main
    \/ \E t \in Threads : Worker(t)
    \/ SessionManager

Spec == Init /\ [][Next]_vars

\* Every thread of the server keeps running; clients need not do anything.
FairSpec ==
    /\ Spec
    /\ WF_vars(Main)
    /\ \A t \in Threads : WF_vars(Worker(t))
    /\ WF_vars(SessionManager)

-----------------------------------------------------------------------------
(* Properties. *)

InQueue == {service_q[i] : i \in 1 .. Len(service_q)}
Served  == {client[t] : t \in Threads} \ {NoFd}

\* A connection is in at most one place: watched by select, once in the service
\* queue, or worked on by one thread.  This is what the active flag and the
\* removal from connection_fds are for: two threads must never read one SSL
\* session, and the main thread must never queue a connection twice.
SingleOwner ==
    /\ \A i, j \in 1 .. Len(service_q) : service_q[i] = service_q[j] => i = j
    /\ \A t, u \in Threads : client[t] = client[u] /\ client[t] # NoFd => t = u
    /\ InQueue \cap Served = {}
    /\ connection_fds \cap (InQueue \cup Served) = {}

\* No two threads ever use one connection between taking it from the queue and
\* lowering its active flag: the SSL session is used by one thread at a time.
NoSharedSession ==
    \A t, u \in Threads :
        /\ client[t] = client[u] /\ client[t] # NoFd
        /\ stage[t] # "release" /\ stage[u] # "release"
        => t = u

\* While the select loop is blocked, a connection a thread has put back and
\* select does not watch yet has a wake-up byte on its way.
NoLostWakeup ==
    main = "select" /\ ~(connection_fds \subseteq read_fds) => control > 0

\* read_fds_called is up exactly while one byte is in the pipe.  More than one
\* byte would be swallowed by the stdio buffer behind control_file.
OneWakeupByte == control = IF read_fds_called THEN 1 ELSE 0

\* The same for the session manager's pipe, which no flag guards: there is a
\* byte only while there is a list, and never two.
OneCloseByte ==
    /\ control2 <= 1
    /\ control2 = 1 => clients_to_close # {} /\ manager = "sleep"

CountingOff == {t \in Threads : stage[t] = "closed"}

\* The connection counter is the number of open client sockets, plus the ones a
\* thread has closed and is about to count off.
CountExact == current_connections = Cardinality(Open) + Cardinality(CountingOff)

\* Weaker: no closed connection stays counted, so capacity is never lost.
NoCapacityLost == current_connections <= Cardinality(Open) + Cardinality(CountingOff)

\* Never more than server_max_connections clients are connected.
LimitKept == Cardinality(Open) <= MaxConnections

\* Select never watches a descriptor that has been closed, which would make it
\* fail with EBADF on every turn of the loop.
WatchedOpen == connection_fds \subseteq Open

\* A connection of Connections is an open socket; the main thread has those in the
\* master set, those to be served are in service_q.
Front == INSTANCE Connections WITH
    Conns <- Fds, Servers <- Threads, Nobody <- NoFd, Limit <- MaxConnections,
    open <- Open, watched <- connection_fds, waiting <- InQueue, serving <- client

\* Without the session manager the front end keeps what Connections promises: the
\* master set, the queue and the threads have every open connection between them,
\* each once, and no more than server_max_connections, and hand it over in one step.
KeepsConnections == Front!Spec

\* A request that reaches an open connection is read by a service thread, or the
\* connection is closed, unless clients are turned away again and again: the loop
\* leaves the readable descriptors to the next select after each rejection.
RequestTaken ==
    \A fd \in Fds :
        (sock[fd] = "data" ~> sock[fd] # "data") \/ []<><<Reject>>_vars

\* A connection request is accepted or turned away with 503.
ConnectAnswered == backlog = Backlog ~> backlog < Backlog

=============================================================================
