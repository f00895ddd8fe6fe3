-------------------------------- MODULE PgPool --------------------------------
(***************************************************************************)
(* The connection pool of data_store_connection (Postgres): initialize,    *)
(* get_connection, release_connection, the two wrappers that try a         *)
(* statement three times, and the connection manager of IDataStore.        *)
(*                                                                         *)
(* It differs from RedisPool in how connections are counted: a connection  *)
(* is counted before it is opened, outside the mutex, and a broken one is  *)
(* counted off before it is closed.                                        *)
(***************************************************************************)
EXTENDS Integers, Sequences, FiniteSets

CONSTANTS
    Conns,          \* libpq connections there can be
    NoConn,
    Procs,          \* service threads and the data cleaner
    MinConnections, \* db_min_connections
    MaxConnections, \* db_max_connections
    Tries,          \* tries of PQexec_wrapper and PQexecPrepared_wrapper
    Magic,          \* CONNECTION_THREAD_MAGIC
    MaxDoubled      \* bound: connections counted off twice

ASSUME PgPoolAssumption ==
    /\ NoConn \notin Conns /\ IsFiniteSet(Procs)
    /\ MinConnections \in Nat /\ MaxConnections \in Nat
    /\ Tries \in Nat \ {0} /\ Magic \in Nat /\ MaxDoubled \in Nat

VARIABLES
    server,             \* whether Postgres runs
    health,             \* of each connection: none, good or dead
    connections,        \* the idle ones, last in first out
    currentConnections,
    waiting,            \* threads asleep in connections_cv.wait
    stage, held, attempt,
    counter,            \* of the connection manager
    conns_to_close,
    doubled             \* history: connections that were counted off twice

procVars == <<stage, held, attempt>>
managerVars == <<counter, conns_to_close>>
vars == <<server, health, connections, currentConnections, waiting, procVars, managerVars,
          doubled>>

Stages == {"ready", "get", "wait", "connect", "thrown", "execute", "finish"}

TypeOK ==
    /\ server \in {"up", "down"}
    /\ health \in [Conns -> {"none", "good", "dead"}]
    /\ connections \in Seq(Conns)
    /\ currentConnections \in Int
    /\ waiting \subseteq Procs
    /\ stage \in [Procs -> Stages]
    /\ held \in [Procs -> Conns \cup {NoConn}]
    /\ attempt \in [Procs -> Nat]
    /\ counter \in Nat /\ conns_to_close \subseteq Conns
    /\ doubled \in Nat

Idle == {connections[i] : i \in 1 .. Len(connections)}

\* initialize counts all it wants to open and counts off the ones that failed; the
\* server also starts without any.
Init ==
    /\ server = "up"
    /\ \E q \in UNION {[1 .. k -> Conns] : k \in 0 .. MinConnections} :
          /\ \A i, j \in DOMAIN q : q[i] = q[j] => i = j
          /\ connections = q /\ currentConnections = Len(q)
          /\ health = [c \in Conns |-> IF \E i \in DOMAIN q : q[i] = c THEN "good" ELSE "none"]
    /\ waiting = {}
    /\ stage = [p \in Procs |-> "ready"] /\ held = [p \in Procs |-> NoConn]
    /\ attempt = [p \in Procs |-> 1]
    /\ counter = 0 /\ conns_to_close = {} /\ doubled = 0

-----------------------------------------------------------------------------
(* Postgres. *)

Stops ==
    /\ server = "up" /\ server' = "down"
    /\ health' = [c \in Conns |-> IF health[c] = "good" THEN "dead" ELSE health[c]]
    /\ UNCHANGED <<connections, currentConnections, waiting, procVars, managerVars, doubled>>

Starts ==
    /\ server = "down" /\ server' = "up"
    /\ UNCHANGED <<health, connections, currentConnections, waiting, procVars, managerVars,
                   doubled>>

-----------------------------------------------------------------------------
(* Helpers. *)

\* Mutant: nobody is notified.
NotifyOne_Nobody == UNCHANGED waiting

NotifyOne ==
    IF waiting = {} THEN UNCHANGED waiting ELSE \E w \in waiting : waiting' = waiting \ {w}

Goto(p, s) == stage' = [stage EXCEPT ![p] = s]
Hold(p, c) == held' = [held EXCEPT ![p] = c]

\* Mutant: the connection is not removed from the pool.
Take_Kept(p) ==
    /\ Hold(p, connections[Len(connections)])
    /\ UNCHANGED connections
    /\ Goto(p, "execute")

\* The connection used last.
Take(p) ==
    /\ Hold(p, connections[Len(connections)])
    /\ connections' = SubSeq(connections, 1, Len(connections) - 1)
    /\ Goto(p, "execute")

\* The wrapper's loop.
TryAgain(p) ==
    IF attempt[p] < Tries
    THEN Goto(p, "get") /\ attempt' = [attempt EXCEPT ![p] = @ + 1]
    ELSE Goto(p, "ready") /\ attempt' = [attempt EXCEPT ![p] = 1]

Done(p) == Goto(p, "ready") /\ attempt' = [attempt EXCEPT ![p] = 1]

-----------------------------------------------------------------------------
(* get_connection. *)

\* A statement is to be executed.
Begin(p) ==
    /\ stage[p] = "ready" /\ Goto(p, "get")
    /\ UNCHANGED <<server, health, connections, currentConnections, waiting, held, attempt,
                   managerVars, doubled>>

GetIdle(p) ==
    /\ stage[p] = "get" /\ connections # <<>>
    /\ Take(p)
    /\ NotifyOne
    /\ UNCHANGED <<server, health, currentConnections, attempt, managerVars, doubled>>

\* Counted first; the mutex is released before the connection is opened.
GetNew(p) ==
    /\ stage[p] = "get" /\ connections = <<>> /\ currentConnections < MaxConnections
    /\ currentConnections' = currentConnections + 1
    /\ Goto(p, "connect")
    /\ UNCHANGED <<server, health, connections, waiting, held, attempt, managerVars, doubled>>

Wait(p) ==
    /\ stage[p] = "get" /\ connections = <<>> /\ currentConnections >= MaxConnections
    /\ Goto(p, "wait")
    /\ waiting' = waiting \cup {p}
    /\ UNCHANGED <<server, health, connections, currentConnections, held, attempt,
                   managerVars, doubled>>

\* Notified: the wait ends only if there is an idle connection.
Woken(p) ==
    /\ stage[p] = "wait" /\ p \notin waiting
    /\ \/ connections # <<>> /\ Take(p) /\ NotifyOne
       \/ /\ connections = <<>>
          /\ waiting' = waiting \cup {p}
          /\ UNCHANGED <<connections, stage, held>>
    /\ UNCHANGED <<server, health, currentConnections, attempt, managerVars, doubled>>

\* connect and createPreparedStatements succeed.
Connects(p) ==
    /\ stage[p] = "connect" /\ server = "up"
    /\ \E c \in Conns :
          /\ health[c] = "none"
          /\ health' = [health EXCEPT ![c] = "good"] /\ Hold(p, c)
    /\ Goto(p, "execute")
    /\ NotifyOne
    /\ UNCHANGED <<server, connections, currentConnections, attempt, managerVars, doubled>>

\* connect gives up, whether or not the server runs, and throws: counted off, and the
\* statement fails without another try.
ConnectFails(p) ==
    /\ stage[p] = "connect"
    /\ currentConnections' = currentConnections - 1
    /\ NotifyOne
    /\ Done(p)
    /\ UNCHANGED <<server, health, connections, held, managerVars, doubled>>

\* The statements cannot be prepared: the new connection is closed and counted
\* off, and an error thrown ...
PrepareFails(p) ==
    /\ stage[p] = "connect" /\ doubled < MaxDoubled
    /\ currentConnections' = currentConnections - 1
    /\ NotifyOne
    /\ Goto(p, "thrown")
    /\ UNCHANGED <<server, health, connections, held, attempt, managerVars, doubled>>

\* ... that is caught by the handler for connect, which counts off once more.
CountsTwice(p) ==
    /\ stage[p] = "thrown"
    /\ currentConnections' = currentConnections - 1
    /\ doubled' = doubled + 1
    /\ NotifyOne
    /\ Done(p)
    /\ UNCHANGED <<server, health, connections, held, managerVars>>

-----------------------------------------------------------------------------
(* The wrappers and release_connection. *)

Release(p) ==
    /\ connections' = Append(connections, held[p])
    /\ Hold(p, NoConn)
    /\ NotifyOne

Succeeds(p) ==
    /\ stage[p] = "execute" /\ health[held[p]] = "good"
    /\ Release(p)
    /\ Done(p)
    /\ UNCHANGED <<server, health, currentConnections, managerVars, doubled>>

\* An error of the statement; the connection is good.
Errs(p) ==
    /\ stage[p] = "execute" /\ health[held[p]] = "good"
    /\ Release(p)
    /\ TryAgain(p)
    /\ UNCHANGED <<server, health, currentConnections, managerVars, doubled>>

\* Mutant: the broken connection stays counted.
Breaks_Counted(p) ==
    /\ stage[p] = "execute" /\ health[held[p]] = "dead"
    /\ NotifyOne
    /\ Goto(p, "finish")
    /\ UNCHANGED <<server, health, connections, currentConnections, held, attempt,
                   managerVars, doubled>>

\* The connection is found broken: counted off ...
Breaks(p) ==
    /\ stage[p] = "execute" /\ health[held[p]] = "dead"
    /\ currentConnections' = currentConnections - 1
    /\ NotifyOne
    /\ Goto(p, "finish")
    /\ UNCHANGED <<server, health, connections, held, attempt, managerVars, doubled>>

\* ... and closed.
Finishes(p) ==
    /\ stage[p] = "finish"
    /\ health' = [health EXCEPT ![held[p]] = "none"]
    /\ Hold(p, NoConn)
    /\ TryAgain(p)
    /\ UNCHANGED <<server, connections, currentConnections, waiting, managerVars, doubled>>

-----------------------------------------------------------------------------
(* The connection manager. *)

\* in_use > 0.2 * curr.
InUseShare == 5 * (currentConnections - Len(connections)) > currentConnections

\* Two fifths of what is above the minimum, at least one.
ToClose ==
    LET part == (2 * (currentConnections - MinConnections)) \div 5
    IN  IF part < 1 THEN currentConnections - MinConnections ELSE part

\* Below the minimum nothing is done; at it, or in use, the counter starts over.
Shrinkable == currentConnections > MinConnections /\ ~InUseShare

ManagerWaits ==
    /\ conns_to_close = {} /\ ~(Shrinkable /\ counter + 1 >= Magic)
    /\ counter' = CASE currentConnections < MinConnections -> counter
                    [] Shrinkable -> counter + 1
                    [] OTHER -> 0
    /\ NotifyOne
    /\ UNCHANGED <<server, health, connections, currentConnections, procVars, conns_to_close,
                   doubled>>

ManagerShrinks ==
    /\ conns_to_close = {} /\ Shrinkable /\ counter + 1 >= Magic
    /\ LET rest == Len(connections) - ToClose IN
          /\ conns_to_close' = {connections[i] : i \in rest + 1 .. Len(connections)}
          /\ connections' = SubSeq(connections, 1, rest)
    /\ currentConnections' = currentConnections - ToClose
    /\ counter' = counter + 1
    /\ NotifyOne
    /\ UNCHANGED <<server, health, procVars, doubled>>

ManagerCloses ==
    /\ conns_to_close # {}
    /\ health' = [c \in Conns |-> IF c \in conns_to_close THEN "none" ELSE health[c]]
    /\ conns_to_close' = {} /\ counter' = 0
    /\ UNCHANGED <<server, connections, currentConnections, waiting, procVars, doubled>>

-----------------------------------------------------------------------------
Step(p) ==
    \/ Begin(p) \/ GetIdle(p) \/ GetNew(p) \/ Wait(p) \/ Woken(p)
    \/ Connects(p) \/ ConnectFails(p) \/ PrepareFails(p) \/ CountsTwice(p)
    \/ Succeeds(p) \/ Errs(p) \/ Breaks(p) \/ Finishes(p)

Next ==
    \/ Stops \/ Starts
    \/ \E p \in Procs : Step(p)
    \/ ManagerWaits \/ ManagerShrinks \/ ManagerCloses

Spec == Init /\ [][Next]_vars

-----------------------------------------------------------------------------
(* Properties. *)

\* Every open connection is in exactly one place: once among the idle ones, with
\* one thread, or about to be closed; and a connection in a place is open.
Placed ==
    /\ \A i, j \in 1 .. Len(connections) : connections[i] = connections[j] => i = j
    /\ \A p, q \in Procs : held[p] = held[q] => p = q \/ held[p] = NoConn
    /\ \A p \in Procs : held[p] \notin Idle \cup conns_to_close
    /\ Idle \cap conns_to_close = {}
    /\ \A c \in Conns :
          health[c] # "none" <=> c \in Idle \cup conns_to_close \cup {held[p] : p \in Procs}

Counting == {p \in Procs : stage[p] \in {"connect", "execute"}}

\* The count is the number of idle connections, of those in use and of those
\* being opened, within the maximum, less those counted off twice: by as many
\* the pool may exceed its maximum.
Counted ==
    /\ currentConnections + doubled = Len(connections) + Cardinality(Counting)
    /\ currentConnections <= MaxConnections \/ currentConnections <= MinConnections

\* No thread sleeps beside an idle connection, unless one that was woken is on
\* its way and will wake the next.
NoLostNotify ==
    waiting # {} /\ connections # <<>> => \E p \in Procs \ waiting : stage[p] = "wait"

Pool == INSTANCE ConnectionPool WITH
    Users <- Procs, Nothing <- NoConn, open <- {c \in Conns : health[c] # "none"},
    idle <- Idle, lent <- held, retired <- conns_to_close

\* The pool is a ConnectionPool: although a connection is opened and closed outside
\* the mutex, before a thread has it or after it was counted off, the others see it
\* come into one place, go from one to another, and leave from one.
KeepsPool == Pool!Spec

=============================================================================
