------------------------------- MODULE RedisPool -------------------------------
(***************************************************************************)
(* The connection pool of RedisStore (RedisStore.cpp) with the connection  *)
(* manager of IDataStore.h, the retry loop every store operation runs on   *)
(* top of it, and the account cleaner, which takes a second connection     *)
(* while it holds one.                                                     *)
(*                                                                         *)
(* What a command does to the data is left out: it succeeds, the server    *)
(* answers an error, or the connection breaks.  Every unlock is followed   *)
(* by notify_one, which is taken with the critical section before it.      *)
(***************************************************************************)
EXTENDS Integers, Sequences, FiniteSets

CONSTANTS
    Conns,          \* redisContext objects
    NoConn,         \* NULL
    Workers,        \* threads that run store operations
    Cleaner,        \* the data cleaner thread, in deleteOldUsers
    Call,           \* the operation deleteOldUsers is calling
    RequestOps,     \* operations that requests lead to, of WorkerOps
    MinConnections, \* redis_min_connections
    MaxConnections, \* redis_max_connections
    MaxAttempts,    \* REDIS_MAX_ATTEMPS
    Magic,          \* CONNECTION_THREAD_MAGIC
    UseCleaner,     \* redis_cleaner
    MayLoad,        \* a restarted server answers errors while it loads its data
    MaxOldUsers,    \* bound: users the cleaner finds old in one pass
    MaxFrames,      \* bound: how deep testConnection's recursion is followed
    MaxDrift        \* bound: how far below zero currentConnections is followed

\* The operations differ in how they use the pool.
WorkerOps == {"createUser", "delete_user", "get_accounts", "upsert", "update_last_sync"}
Ops == WorkerOps \cup {"getAllUsers", "deleteOldUsers"}

Procs == Workers \cup {Cleaner, Call}

ASSUME PoolAssumption ==
    /\ IsFiniteSet(Conns) /\ NoConn \notin Conns
    /\ IsFiniteSet(Workers)
    /\ Cleaner \notin Workers /\ Call \notin Workers /\ Cleaner # Call
    /\ MinConnections \in Nat /\ MaxConnections \in Nat
    /\ MaxAttempts \in Nat /\ Magic \in Nat
    /\ MaxOldUsers \in Nat /\ MaxFrames \in Nat /\ MaxDrift \in Nat
    /\ RequestOps \subseteq WorkerOps
    /\ UseCleaner \in BOOLEAN /\ MayLoad \in BOOLEAN

VARIABLES
    redis,              \* the server: up, down, or loading
    health,             \* health[c]: none (not open), good, dead (c->err not set yet), err
    connections,        \* idle connections, the last one is taken first
    currentConnections,
    waiting,            \* threads in connections_cv's wait set
    stage, op, held,    \* each thread: where it is, its operation, its c
    attempt, testConn, success,
    frames,             \* calls of testConnection on the thread's stack
    old_users,          \* users deleteOldUsers has still to handle
    manager,            \* the manager started (initialize got a connection)
    counter, conns_to_close

threadVars == <<stage, op, held, attempt, testConn, success, frames>>
managerVars == <<manager, counter, conns_to_close, old_users>>
poolVars == <<health, connections, currentConnections, waiting>>
vars == <<redis, poolVars, threadVars, managerVars>>

Stages == {"ready", "get", "wait", "test", "command", "release",
           "users", "listing", "accounts", "fetching"}
Idle == {connections[i] : i \in 1 .. Len(connections)}
Held == {held[p] : p \in Procs} \ {NoConn}
Unopened == {c \in Conns : health[c] = "none"}

TypeOK ==
    /\ redis \in {"up", "down", "loading"}
    /\ health \in [Conns -> {"none", "good", "dead", "err"}]
    /\ connections \in Seq(Conns)
    /\ currentConnections \in Int
    /\ waiting \subseteq Procs
    /\ stage \in [Procs -> Stages] /\ op \in [Procs -> Ops]
    /\ held \in [Procs -> Conns \cup {NoConn}]
    /\ attempt \in [Procs -> Nat]
    /\ testConn \in [Procs -> BOOLEAN] /\ success \in [Procs -> BOOLEAN]
    /\ frames \in [Procs -> Nat] /\ old_users \in Nat
    /\ manager \in BOOLEAN /\ counter \in Nat /\ conns_to_close \subseteq Conns

-----------------------------------------------------------------------------
(* initialize: the connections that could be opened; the manager is started *)
(* only if there is one. *)

Init ==
    /\ \E k \in 0 .. MinConnections :
          \E q \in [1 .. k -> Conns] :
             /\ \A i, j \in 1 .. k : q[i] = q[j] => i = j
             /\ connections = q
             /\ currentConnections = k
             /\ health = [c \in Conns |-> IF \E i \in 1 .. k : q[i] = c THEN "good" ELSE "none"]
             /\ manager = (k > 0)
    /\ redis = "up"
    /\ waiting = {}
    /\ stage = [p \in Procs |-> "ready"]
    /\ op = [p \in Procs |-> "getAllUsers"]
    /\ held = [p \in Procs |-> NoConn]
    /\ attempt = [p \in Procs |-> 1]
    /\ testConn = [p \in Procs |-> FALSE] /\ success = [p \in Procs |-> TRUE]
    /\ frames = [p \in Procs |-> 0] /\ old_users = 0
    /\ counter = 0 /\ conns_to_close = {}

-----------------------------------------------------------------------------
(* The Redis server. *)

\* MaxFrames: the server does not break connections under a deeper recursion.
RedisStops ==
    /\ redis # "down" /\ redis' = "down"
    /\ \A p \in Procs : frames[p] <= MaxFrames
    /\ health' = [c \in Conns |-> IF health[c] = "good" THEN "dead" ELSE health[c]]
    /\ UNCHANGED <<connections, currentConnections, waiting, threadVars, managerVars>>

RedisStarts ==
    /\ \/ redis = "down" /\ redis' \in IF MayLoad THEN {"up", "loading"} ELSE {"up"}
       \/ redis = "loading" /\ redis' = "up"
    /\ UNCHANGED <<poolVars, threadVars, managerVars>>

-----------------------------------------------------------------------------
(* Helpers: condition variable, pool, control flow. *)

\* Mutant: nobody is notified.
NotifyOne_Nobody(waiters) == waiting' = waiters

NotifyOne(waiters) ==
    IF waiters = {} THEN waiting' = {} ELSE \E w \in waiters : waiting' = waiters \ {w}

Goto(p, s) == stage' = [stage EXCEPT ![p] = s]

\* What p does once it has a connection: deleteOldUsers goes to its user loop.
Use(p) == IF p = Cleaner THEN "accounts" ELSE "command"

\* An operation sets testConn once getConnection has returned; getAllUsers only
\* after a failure.
TestNext(p) == IF op[p] = "getAllUsers" THEN testConn[p] ELSE TRUE

\* getConnection hands a pooled connection to testConnection if asked to.
Check(p) ==
    IF testConn[p]
    THEN /\ Goto(p, "test")
         /\ frames' = [frames EXCEPT ![p] = @ + 1]
         /\ UNCHANGED testConn
    ELSE /\ Goto(p, Use(p))
         /\ testConn' = [testConn EXCEPT ![p] = TestNext(p)]
         /\ UNCHANGED frames

\* Mutant: the connection is not removed from the pool.
Pop_Kept(p) ==
    /\ held' = [held EXCEPT ![p] = connections[Len(connections)]]
    /\ UNCHANGED connections
    /\ Check(p)

\* Take the connection used last.
Pop(p) ==
    /\ held' = [held EXCEPT ![p] = connections[Len(connections)]]
    /\ connections' = SubSeq(connections, 1, Len(connections) - 1)
    /\ Check(p)

\* Mutant: the test for NULL is dropped.
GiveBack_Null(c) ==
    /\ connections' = Append(connections, c)
    /\ UNCHANGED <<health, currentConnections>>

\* Mutant: the error flag is not looked at.
GiveBack_Broken(c) ==
    \/ /\ c # NoConn
       /\ connections' = Append(connections, c)
       /\ UNCHANGED <<health, currentConnections>>
    \/ /\ c = NoConn
       /\ currentConnections' = currentConnections - 1
       /\ UNCHANGED <<connections, health>>

\* Mutant: a freed connection stays counted.
GiveBack_StillCounted(c) ==
    \/ /\ c # NoConn /\ health[c] # "err"
       /\ connections' = Append(connections, c)
       /\ UNCHANGED <<health, currentConnections>>
    \/ /\ c # NoConn /\ health[c] = "err"
       /\ health' = [health EXCEPT ![c] = "none"]
       /\ UNCHANGED <<connections, currentConnections>>
    \/ /\ c = NoConn
       /\ UNCHANGED <<connections, health, currentConnections>>

\* releaseConnection: back to the pool, or freed when its error flag is set.
GiveBack(c) ==
    \/ /\ c # NoConn /\ health[c] # "err"
       /\ connections' = Append(connections, c)
       /\ UNCHANGED <<health, currentConnections>>
    \/ /\ c # NoConn /\ health[c] = "err"
       /\ health' = [health EXCEPT ![c] = "none"]
       /\ currentConnections' = currentConnections - 1
       /\ UNCHANGED connections
    \/ /\ c = NoConn
       /\ currentConnections' = currentConnections - 1
       /\ UNCHANGED <<connections, health>>

-----------------------------------------------------------------------------
(* One store operation: do { get; commands; release } while (it failed). *)

Begin(p, o) ==
    /\ op' = [op EXCEPT ![p] = o]
    /\ attempt' = [attempt EXCEPT ![p] = 1]
    /\ testConn' = [testConn EXCEPT ![p] = FALSE]
    /\ success' = [success EXCEPT ![p] = TRUE]

\* A request reaches the store.  MaxDrift keeps the counter finite.
Start(p, o) ==
    /\ p \in Workers /\ stage[p] = "ready"
    /\ currentConnections >= -MaxDrift
    /\ Begin(p, o)
    /\ Goto(p, "get")
    /\ UNCHANGED <<redis, poolVars, held, frames, managerVars>>

GetIdle(p) ==
    /\ stage[p] = "get" /\ connections # <<>>
    /\ Pop(p)
    /\ NotifyOne(waiting)
    /\ UNCHANGED <<redis, health, currentConnections, op, attempt, success, managerVars>>

\* createConnection runs with the mutex held.
GetNew(p) ==
    /\ stage[p] = "get" /\ connections = <<>> /\ currentConnections < MaxConnections
    /\ redis # "down"
    /\ \E c \in Unopened :
          /\ health' = [health EXCEPT ![c] = "good"]
          /\ held' = [held EXCEPT ![p] = c]
    /\ currentConnections' = currentConnections + 1
    /\ NotifyOne(waiting)
    /\ IF frames[p] > 0
       THEN Goto(p, "test") /\ UNCHANGED testConn
       ELSE Goto(p, Use(p)) /\ testConn' = [testConn EXCEPT ![p] = TestNext(p)]
    /\ UNCHANGED <<redis, connections, op, attempt, success, frames, managerVars>>

\* createConnection returns NULL and getConnection throws: c stays NULL, and
\* upsert and update_last_sync leave success as it was.
GetThrows(p) ==
    /\ stage[p] = "get" /\ connections = <<>> /\ currentConnections < MaxConnections
    /\ redis = "down"
    /\ NotifyOne(waiting)
    /\ Goto(p, "release")
    /\ success' = [success EXCEPT ![p] = op[p] \in {"upsert", "update_last_sync"}]
    /\ testConn' = [testConn EXCEPT ![p] = @ \/ op[p] \in {"getAllUsers", "deleteOldUsers"}]
    /\ frames' = [frames EXCEPT ![p] = 0]
    /\ UNCHANGED <<redis, health, connections, currentConnections, op, held, attempt, managerVars>>

Wait(p) ==
    /\ stage[p] = "get" /\ connections = <<>> /\ currentConnections >= MaxConnections
    /\ Goto(p, "wait")
    /\ waiting' = waiting \cup {p}
    /\ UNCHANGED <<redis, health, connections, currentConnections, op, held, attempt,
                   testConn, success, frames, managerVars>>

\* Notified: the wait ends only if there is an idle connection.
Woken(p) ==
    /\ stage[p] = "wait" /\ p \notin waiting
    /\ \/ connections # <<>> /\ Pop(p) /\ NotifyOne(waiting)
       \/ /\ connections = <<>>
          /\ waiting' = waiting \cup {p}
          /\ UNCHANGED <<connections, stage, held, testConn, frames>>
    /\ UNCHANGED <<redis, health, currentConnections, op, attempt, success, managerVars>>

\* testConnection: PING.  An inner call returns to the loop of an outer one,
\* which sends PING again.
TestPasses(p) ==
    /\ stage[p] = "test" /\ redis = "up" /\ health[held[p]] = "good"
    /\ frames' = [frames EXCEPT ![p] = IF @ > 0 THEN @ - 1 ELSE 0]
    /\ \/ frames[p] > 1 /\ UNCHANGED <<stage, testConn>>
       \/ /\ frames[p] <= 1
          /\ Goto(p, Use(p))
          /\ testConn' = [testConn EXCEPT ![p] = TestNext(p)]
    /\ UNCHANGED <<redis, poolVars, op, held, attempt, success, managerVars>>

\* A broken connection sets c->err; an error reply does not.
TestBreaks(p) ==
    /\ stage[p] = "test" /\ health[held[p]] = "dead"
    /\ health' = [health EXCEPT ![held[p]] = "err"]
    /\ UNCHANGED <<redis, connections, currentConnections, waiting, threadVars, managerVars>>

\* Mutant: the tested connection is dropped without releaseConnection.
TestFails_Dropped(p) ==
    /\ stage[p] = "test"
    /\ \/ health[held[p]] = "err"
       \/ redis = "loading" /\ health[held[p]] = "good" /\ frames[p] < MaxFrames
    /\ NotifyOne(waiting)
    /\ held' = [held EXCEPT ![p] = NoConn]
    /\ Goto(p, "get")
    /\ UNCHANGED <<redis, health, connections, currentConnections, op, attempt, testConn, success,
                   frames, managerVars>>

\* releaseConnection(c), then getConnection(true) once more, which may call
\* testConnection again: while the server loads, on the same connection.
TestFails(p) ==
    /\ stage[p] = "test"
    /\ \/ health[held[p]] = "err"
       \/ redis = "loading" /\ health[held[p]] = "good" /\ frames[p] < MaxFrames
    /\ GiveBack(held[p])
    /\ NotifyOne(waiting)
    /\ held' = [held EXCEPT ![p] = NoConn]
    /\ Goto(p, "get")
    /\ UNCHANGED <<redis, op, attempt, testConn, success, frames, managerVars>>

\* Pipelined commands count as done whatever the server answers
\* (eatPipelineReplies); the others check the reply (areReplyErrors).
Accepted(o) ==
    redis = "up" \/ o \in {"createUser", "upsert", "update_last_sync", "deleteOldUsers"}

\* After a failure the next connection is tested; getAllUsers forgets to when
\* it is one of the later replies that fails.
TestAfter(p) == IF op[p] = "getAllUsers" THEN {TRUE, testConn[p]} ELSE {TRUE}

\* deleteOldUsers goes on with the next old user, the others are done.
Command(p) ==
    /\ stage[p] = "command"
    /\ \/ /\ health[held[p]] = "good"
          /\ success' = [success EXCEPT ![p] = Accepted(op[p])]
          /\ testConn' = [testConn EXCEPT ![p] = @ \/ ~Accepted(op[p])]
          /\ IF p = Cleaner
             THEN old_users' = (IF old_users > 0 THEN old_users - 1 ELSE 0) /\ Goto(p, "accounts")
             ELSE UNCHANGED old_users /\ Goto(p, "release")
          /\ UNCHANGED health
       \/ /\ health[held[p]] = "dead"
          /\ health' = [health EXCEPT ![held[p]] = "err"]
          /\ success' = [success EXCEPT ![p] = FALSE]
          /\ \E t \in TestAfter(p) : testConn' = [testConn EXCEPT ![p] = t]
          /\ Goto(p, "release")
          /\ UNCHANGED old_users
    /\ UNCHANGED <<redis, connections, currentConnections, waiting, op, held, attempt, frames,
                   manager, counter, conns_to_close>>

\* createUser gives up one attempt before the other operations.
TryAgain(p) ==
    /\ ~success[p]
    /\ attempt[p] <= IF op[p] = "createUser" THEN MaxAttempts - 1 ELSE MaxAttempts

Release(p) ==
    /\ stage[p] = "release"
    /\ GiveBack(held[p])
    /\ NotifyOne(waiting)
    /\ held' = [held EXCEPT ![p] = NoConn]
    /\ \/ /\ TryAgain(p)
          /\ attempt' = [attempt EXCEPT ![p] = @ + 1]
          /\ success' = [success EXCEPT ![p] = TRUE]
          /\ Goto(p, IF p = Cleaner THEN "users" ELSE "get")
       \/ /\ ~TryAgain(p)
          /\ Goto(p, "ready")
          /\ UNCHANGED <<attempt, success>>
    /\ UNCHANGED <<redis, op, testConn, frames, managerVars>>

-----------------------------------------------------------------------------
(* deleteOldUsers: getAllUsers(false) takes and returns a connection, then    *)
(* the cleaner takes its own and calls get_accounts_for_user while holding it. *)

CleanerStarts ==
    /\ UseCleaner /\ manager
    /\ stage[Cleaner] = "ready"
    /\ currentConnections >= -MaxDrift
    /\ Begin(Cleaner, "deleteOldUsers")
    /\ Goto(Cleaner, "users")
    /\ UNCHANGED <<redis, poolVars, held, frames, managerVars>>

\* The call runs as a thread of its own while its caller stands still.
CallStarts(o, during) ==
    /\ Begin(Call, o)
    /\ stage' = [stage EXCEPT ![Cleaner] = during, ![Call] = "get"]
    /\ UNCHANGED <<redis, poolVars, held, frames, managerVars>>

\* getAllUsers(false): some of the users are old.
ListUsers == stage[Cleaner] = "users" /\ CallStarts("getAllUsers", "listing")

Listed ==
    /\ stage[Cleaner] = "listing" /\ stage[Call] = "ready"
    /\ Goto(Cleaner, "get")
    /\ old_users' \in 0 .. MaxOldUsers
    /\ UNCHANGED <<redis, poolVars, op, held, attempt, testConn, success, frames,
                   manager, counter, conns_to_close>>

FetchAccounts ==
    /\ stage[Cleaner] = "accounts" /\ old_users > 0
    /\ CallStarts("get_accounts", "fetching")

Fetched ==
    /\ stage[Cleaner] = "fetching" /\ stage[Call] = "ready"
    /\ Goto(Cleaner, "command")
    /\ UNCHANGED <<redis, poolVars, op, held, attempt, testConn, success, frames, managerVars>>

NoneLeft ==
    /\ stage[Cleaner] = "accounts" /\ old_users = 0
    /\ Goto(Cleaner, "release")
    /\ UNCHANGED <<redis, poolVars, op, held, attempt, testConn, success, frames, managerVars>>

DataCleaner == CleanerStarts \/ ListUsers \/ Listed \/ FetchAccounts \/ Fetched \/ NoneLeft

-----------------------------------------------------------------------------
(* The connection manager, once a minute. *)

InUse == currentConnections - Len(connections)

\* in_use > 0.2 * curr, and int(0.4 * (curr - minConn)), at least one of them.
Busy == 5 * InUse > currentConnections

ToClose ==
    LET part == (2 * (currentConnections - MinConnections)) \div 5
    IN  IF part < 1 THEN currentConnections - MinConnections ELSE part

Quiet == currentConnections > MinConnections /\ ~Busy

\* Below the minimum the counter is left alone; at it, or busy, it is reset.
ManagerChecks ==
    /\ manager /\ conns_to_close = {}
    /\ \/ /\ currentConnections < MinConnections
          /\ UNCHANGED <<counter, connections, currentConnections, conns_to_close>>
       \/ /\ currentConnections >= MinConnections /\ ~Quiet
          /\ counter' = 0
          /\ UNCHANGED <<connections, currentConnections, conns_to_close>>
       \/ /\ Quiet /\ counter + 1 < Magic
          /\ counter' = counter + 1
          /\ UNCHANGED <<connections, currentConnections, conns_to_close>>
       \/ /\ Quiet /\ counter + 1 >= Magic
          /\ counter' = counter + 1
          /\ conns_to_close' = {connections[i] : i \in Len(connections) - ToClose + 1 .. Len(connections)}
          /\ connections' = SubSeq(connections, 1, Len(connections) - ToClose)
          /\ currentConnections' = currentConnections - ToClose
    /\ NotifyOne(waiting)
    /\ UNCHANGED <<redis, health, threadVars, manager, old_users>>

\* After the unlock.
ManagerCloses ==
    /\ conns_to_close # {}
    /\ health' = [c \in Conns |-> IF c \in conns_to_close THEN "none" ELSE health[c]]
    /\ conns_to_close' = {}
    /\ counter' = 0
    /\ UNCHANGED <<redis, connections, currentConnections, waiting, threadVars, manager, old_users>>

-----------------------------------------------------------------------------
Step(p) ==
    \/ GetIdle(p) \/ GetNew(p) \/ GetThrows(p) \/ Wait(p) \/ Woken(p)
    \/ TestPasses(p) \/ TestBreaks(p) \/ TestFails(p) \/ Command(p) \/ Release(p)

Next ==
    \/ RedisStops \/ RedisStarts
    \/ \E p \in Procs : Step(p) \/ \E o \in RequestOps : Start(p, o)
    \/ DataCleaner
    \/ ManagerChecks \/ ManagerCloses

Spec == Init /\ [][Next]_vars

\* Threads keep running; nothing makes a request arrive or the server come back.
FairSpec ==
    /\ Spec
    /\ \A p \in Procs : WF_vars(Step(p))
    /\ WF_vars(DataCleaner)
    /\ WF_vars(ManagerCloses)

-----------------------------------------------------------------------------
(* Properties. *)

\* A connection is in one place: idle once, held by one thread, or about to be
\* closed by the manager, and it is open as long as it is in any of them.  Two
\* threads writing commands to one redisContext would read each other's replies.
Exclusive ==
    /\ \A i, j \in 1 .. Len(connections) : connections[i] = connections[j] => i = j
    /\ \A p, q \in Procs : held[p] = held[q] /\ held[p] # NoConn => p = q
    /\ Idle \cap Held = {} /\ (Idle \cup Held) \cap conns_to_close = {}
    /\ (Idle \cup Held \cup conns_to_close) \cap Unopened = {}

\* A connection whose error flag is set never goes back to the pool.
NoBrokenIdle == \A c \in Idle \cup conns_to_close : health[c] # "err"

\* Every open connection is idle, held or about to be closed: none leaks.
NoLeak == Conns \ Unopened = Idle \cup Held \cup conns_to_close

\* No thread sleeps on connections_cv beside an idle connection unless another
\* waiter has been woken for it.
NoLostNotify ==
    connections # <<>> /\ waiting # {} => \E p \in Procs : stage[p] = "wait" /\ p \notin waiting

\* The counter never counts a connection that is gone, so capacity is never lost.
NoOvercount == currentConnections <= Len(connections) + Cardinality(Held)

\* Never more than redis_max_connections connections are in use or idle.
PoolLimit == Cardinality(Idle \cup Held) <= MaxConnections

Pool == INSTANCE ConnectionPool WITH
    Users <- Procs, Nothing <- NoConn,
    open <- Conns \ Unopened, idle <- Idle, lent <- held, retired <- conns_to_close

\* The pool is a ConnectionPool: a thread gets a connection from the pool or opens
\* one, keeps it until it returns or frees it itself, and the manager closes only
\* what it has taken out of the pool before, however deep testConnection recurses.
KeepsPool == Pool!Spec

\* Once the server stays up, or stays down, every operation ends.
OperationEnds ==
    <>[](redis = "up") \/ <>[](redis = "down") =>
        \A p \in Procs : stage[p] # "ready" ~> stage[p] = "ready"

=============================================================================
