# Formal models of sync_server

TLA+ models of `sync_server`, a C++ server that keeps the password-vault
accounts of its users in step between their devices, with the model-checking
runs that exercise them and the proofs about them.

All paths and line numbers are relative to the repository (`src/`). The
repository has no tests and an empty README: the source is the only reference,
together with its comments.

## 1. The system

A process reads a configuration file, opens a store (Redis or Postgres), starts
service threads and runs a `select` loop on the main thread. A client connects
over TLS, sends HTTP requests with JSON bodies and keeps the connection open.

```
 clients --TCP/TLS--> select loop --service_q--> service threads --> sync_handler
                        ^    ^                        |                |      |
                        |    +---- pipe `control` ----+            user map  store
                        +--------- pipe `control2` -- session manager      (pool)
                                                                     ^        ^
                                              connection manager, data cleaner
```

### 1.1 Components

| Component | Source | State | Operations | Interacts with |
|---|---|---|---|---|
| Network front end | `server.cpp`, `server.h` | `conn_map`, `connection_fds`, `read_fds`, `read_fds_called`, `service_q`, `current_connections`, `clients_to_close`, two pipes | `start` (select, accept, close, hand over), `close_client`, `close_clients`, `handleServerBusy`, `service_thread`, session manager | kernel and clients, request handlers (outcome only) |
| Service thread pool | `server.cpp` 120-143, 437-525, 572-596 | `current_thread_count`, `active_threads`, poison entries in `service_q` | growth in `start`, thread manager, `shutdown` | front end (same queue), store (deleted by `shutdown`) |
| Request reading and parsing | `server.cpp` 728-853 | buffer of one request | `read_incoming_bytes`, `parse_header`, `verify_request`, `e_strtok` | service thread |
| User registry | `sync_handler.cpp` 12-201, 581-683 | `user_infos` (shared by all threads), one mutex per handler | load at startup, `handle_register`, `handle_delete`, `verify_password`, `verify_email` | store: users |
| Account synchronisation | `sync_handler.cpp` 204-372, both stores | accounts in the store, last sync time, the round of each device | `sync_initial`, `sync_final`, `get_accounts_for_user`, `upsert_accounts_for_user`, `update_last_sync_for_user` | devices, store, pool |
| Redis connection pool | `RedisStore.cpp`, `IDataStore.h` 118-186 | `connections`, `currentConnections`, wait set of `connections_cv`, retry loop of each operation | `initialize`, `getConnection`, `testConnection`, `releaseConnection`, connection manager | every store operation, Redis server |
| Postgres connection pool | `data_store_connection.cpp` 33-145, 345-497 | the same members, counted differently | `get_connection`, `release_connection`, the two exec wrappers | every store operation, Postgres server |
| Data cleaner | `IDataStore.h` 190-237, `deleteOldUsers`, `deleteHistory` | next run | schedule, deletion of old accounts | pool, accounts |
| HTTP replies | `config_http.*` | none | `build_reply` | service thread |
| Configuration | `Config.*`, `server.config` | read once | getters | all |
| Startup and signals | `main.cpp`, `register_server_exception.*` | none of their own | `main`, `signalHandler` | front end |

### 1.2 What is hard, and what makes each component correct

*Network front end.* Four kinds of threads share a map of connections, most of
it without a lock. A connection must be in one place at a time (watched by
`select`, in the queue, or served by one thread); every descriptor that is put
back must reach `select` although `select` is already blocked on an older copy;
the connection counter is changed by three threads at different moments of a
close; descriptors are closed and handed out again by the kernel while old
numbers are still in a list, in a bit set or in a freed map node.

*Thread pool.* Threads leave by poison entries in the queue they take requests
from; the counts the growth and shrink rules read are changed by several
threads; shutdown deletes the store.

*Request reading.* Lengths are mixed signed and unsigned and `SSL_read` returns
-1; buffers grow by blocks.

*User registry.* The map of users is shared by all threads, but each handler has
a mutex of its own. The map and the store are two copies of the same fact, each
operation changes both, one after the other, and either change may fail.

*Account synchronisation.* A round is two requests. What the second one sends was
decided on a snapshot the first one took, and other devices write in between. No
version of an account may be lost to an older one, and a client that was
answered 200 must be able to forget what it sent. Redis writes are pipelines
that may break off anywhere; either store may fail after a command took effect.

*Connection pools.* No connection may be used by two threads; none may leak or
be returned broken; the counter must neither run away from the truth nor lose
capacity; every waiting thread must be woken; the shrink rule must close only
idle connections; every operation, nested or retried, must come to an end.

*Data cleaner.* Which users it may delete, when it runs next, and what happens to
an account that is synchronised while it is deleted.

The hazards, each at its line, are in `PROJECT.json`.

## 2. The modules

| Module | What it is |
|---|---|
| `Connections` | abstract specification: what the front end promises of the connections it accepted |
| `SyncServer` | the network front end; without the session manager it refines `Connections` |
| `ConnectionPool` | abstract specification: what either store's pool promises of its connections; `RedisPool` and `PgPool` refine it |
| `RedisPool` | the Redis connection pool, the retry loops, the connection manager and the cleaner as its users |
| `LastWriterWins` | abstract specification: what synchronisation promises to devices |
| `AccountSync` | `sync_initial` and `sync_final` on both stores; refines `LastWriterWins` for Postgres |
| `ThreadPool` | how many service threads there are: growth, the thread manager, `shutdown` |
| `PgPool` | the Postgres connection pool and the wrappers that try a statement again |
| `UserRegistry` | the shared user map, the users in the store, registration, deletion, the data cleaner, restarts |
| `HttpSession` | how a service thread reads and frames the requests of one connection |
| `MC*` | constant values, small sets and symmetry for TLC; nothing else |
| `*Proofs` | theorems about the module they are named after |
| `PoolSequences` | lemmas about sequences the two pools' proofs share |

Each module is one part at the grain its hazards need, and leaves the others at
the outcome that matters to it. `SyncServer` says who serves a connection and
takes a request as one step; `HttpSession` is what is in that step; `ThreadPool`
is how many threads there are to take it. `AccountSync` and `UserRegistry` take a
pool as something that yields a connection or throws; `RedisPool` and `PgPool` say
when it does. `AccountSync` has the versions of accounts of a user who stays;
`UserRegistry` has users who come and go, with an account that is there or not.

A definition that models code is in the `map` of `PROJECT.json` with its lines.
Definitions named `X_Something` are deliberately broken versions of `X`: each
property of a passing run is violated when `X` is replaced by one of them, which
shows that the property depends on that piece of the code.

### 2.1 SyncServer

A `conn_meta` is spread over sets: `fd \in conn_map` is the key,
`fd \in active` the field `active`, `fd \in ssl` a non-null `ssl`,
`fd \in stale` an expired `last_used`. `Main` is the `select` loop. One turn is
`Snapshot` (copy the master set), `SelectReturns` or `SelectFails`, then the
handlers in the order of the code: `HandleControl`, `HandleControl2` with
`CloseOne` for each listed descriptor, `Accept` or `Reject`, and the scan
(`ScanActive`, `ScanEmpty`, `ScanData`). A service thread goes through `Take`,
`Handshake`, `ReadRequest` or `ReadFails`, `RequestDone` or `RequestFails`, and
then `Release` (put the descriptor back, write the wake-up byte) or
`CloseSocket` and `CountOff`. The session manager is `StartScan`, `ScanOne`,
`EndScan`. Steps are cut where another thread can see the middle: `active` is
lowered in one step and the descriptor put back in the next (708, 712); a socket
is closed in one and counted off in the next (858-873).

Requests and replies are reduced to their outcome: the connection is kept or
closed. A read that fails ends in `closing`, or, as its buffer is not initialised,
goes on as a request nobody sent (`ReadFails`). The kernel picks any free descriptor, so numbers are reused as early as
possible. A freed `conn_meta` a thread still points to (`dangling`) reads as its
old number or that of any entry that may have been allocated in its place.

`Connections` has none of the flags, copies of bit sets, pipes and counters: a
connection is admitted below the limit, handed over, served by one thread, given
back or closed. Of `SyncServer`, `open` is the set of open sockets (`Open`),
`watched` the master set (`connection_fds`), `waiting` what is in `service_q`
(`InQueue`) and `serving` the connection of each thread (`client`). That every
step is one of these, or changes none of the four, holds without the session
manager only, which closes connections that others have.

| Run | Instance | What it shows |
|---|---|---|
| `ServerSafety` | 3 descriptors, 2 threads, limit 2, no session manager | `KeepsConnections`: refinement of `Connections`; `SingleOwner`: a connection is in one place; `NoLostWakeup`, `OneWakeupByte`: the flag and the pipe wake `select` exactly when needed; `CountExact`, `LimitKept`: the counter is the number of open sockets and the limit holds; `WatchedOpen`: `select` never watches a closed descriptor; `RequestTaken`, `ConnectAnswered`: every request is read or its connection closed, unless clients are turned away again and again, and every connection attempt is answered |
| `ServerCleaner` | 1 descriptor (so that its number is reused at once), 2 threads, session manager | `OneCloseByte`: the unguarded pipe never holds two bytes; `NoCapacityLost`: no closed connection stays counted; `NoSharedSession`: no two threads in one TLS session |
| `ServerEbadf` | 1 descriptor, 1 thread, session manager | *violated:* `ConnectAnswered`, see section 3 |

*Bounds.* Three descriptors with a limit of two let the limit be reached, one
connection be rejected and one closed and reused; two threads are enough for
every pairwise race of threads; the backlog of one is enough to ask whether a
connection attempt is answered. `MaxDrift` bounds how far the counter is
followed below zero, which happens with the session manager only: two is enough
for both ways of counting off twice.

*Fairness.* Weak fairness of the `select` loop, of each service thread and of the
session manager: operating-system threads that are runnable do run. Nothing is
assumed of clients.

*What holds only in part.* With the session manager `CountExact`, `LimitKept` and
`WatchedOpen` fail: a stale list makes `close_clients` close a descriptor that
has been closed or handed out again (376), and a bit of a descriptor closed
earlier in the same turn makes the scan insert and count off an entry that is
gone (218-226). It may also close a connection that has just been used, and free
the map node a thread still uses (383). At the limit a request may starve: the
loop starts over after a rejection without looking at the other descriptors
(188). `RequestTaken` therefore excepts the behaviours in which `Reject` happens
for ever.

### 2.2 RedisPool

`connections` is the sequence used as a stack, `waiting` the wait set of
`connections_cv`; `notify_one` moves any one waiter out of it. Each process has
`stage`, `op`, `held` (its `c`), `attempt`, `testConn`, `success`. `Start` begins
one of the store operations, `GetIdle`, `GetNew`, `GetThrows`, `Wait` and `Woken`
are the branches of `getConnection`, `TestPasses`, `TestBreaks` and `TestFails`
those of `testConnection` with its recursion (`frames`), `Command` is what the
commands of an operation come to, `Release` is `releaseConnection` and the end of
the retry loop. `createUser` and `delete_user` lose what they hold on a throw,
`getAllUsers` sleeps and tests only after a failure; such differences are in
`TestNext`, `TestAfter` and `TryAgain`. `deleteOldUsers` is a process of its own
(`Cleaner`) that calls `getAllUsers` and `get_accounts_for_user` while it holds a
connection; the called operation runs as the process `Call`. `ManagerChecks` is
one pass of the connection manager, with the percentages as integer arithmetic,
and `ManagerCloses` what it does after the unlock. The server stops, starts, and
after a start may answer errors while it loads its data.

`ConnectionPool` says who may do what with a connection: a user opens one or is lent
an idle one, and nobody else can take it, return it or close it; the manager
retires idle ones and closes only these. It says nothing of the stack, the
counter, the condition variable or the tests. Open are the connections that are
not `Unopened`, `idle` is `Idle`, `lent` is `held`, `retired` is `conns_to_close`.

| Run | Instance | What it shows |
|---|---|---|
| `PoolSafety` | 3 connections, minimum 1, maximum 2, one request thread, cleaner, manager, server that stops and loads | `KeepsPool`: refinement of `ConnectionPool`; `Exclusive`: one owner per connection; `NoBrokenIdle`; `NoLeak`; `NoLostNotify`; `NoOvercount`: capacity is never lost |
| `PoolLiveness` | 3 connections, minimum and maximum 3, one request thread and the cleaner | `OperationEnds`: every operation ends once the server stays up or down |
| `PoolLimit` | 2 request threads, maximum 1, server that stops | *violated:* the pool exceeds `redis_max_connections` |

*Bounds.* One more connection object than the maximum, so that exceeding it is
possible; a request thread and the cleaner's two levels give three users of a
pool of two; one retry, since the loops treat all retries alike; one old user.
`MaxDrift` is 0 in the passing runs: it stops the server from failing once the
counter is below zero, where `PoolLimit` is already known to fail.

*Fairness.* Weak fairness of each thread's steps and of the manager's closing;
none of the arrival of requests, and none of the server.

*What holds only in part.* `OperationEnds` needs a connection for every holder:
with `redis_max_connections` 1 the cleaner waits for the connection it holds.
While the server is loading the recursion of `getConnection` and
`testConnection` has no bound. A thread that waits does not wait for room in the
pool but for an idle connection (492): if the one it waits for breaks, it is
freed (541-549), and the waiter, though notified, sleeps until somebody else
returns one.

### 2.3 AccountSync and LastWriterWins

One registered user, several devices, several accounts. A version of an account
is its `update_time`, 0 if there is none. A device's round is `Initial`, the read
of the store, `Answer` (the two lists of `handle_sync_initial`, and the device
takes over what it was sent), `Final`, the upsert, `Touch`
(`update_last_sync_for_user`). The read is one `Select` in Postgres; in Redis it
is `FetchNames` followed by one `FetchAccount` for each name, and what was found
survives a retry. The upsert is one statement in Postgres (`Merged` is its ON
CONFLICT clause); in Redis each account is two commands, `ListAccount` and
`SetAccount`, between which other devices run and the connection may break.
Failures: no connection, a broken connection before or after a command took
effect, an error reply; each with the code's own reaction (throw, retry, ignored).
`store_type` is the configured store and never changes.

`LastWriterWins` has a table and the copies of the devices, and three steps:
`Change` on a device, `Pull` (a device takes over some of what it lacks from the
table, never losing what it has), `Push` (the table takes over, in one step, what
is newer on the device). `AccountSync` maps `stored` and `copy` to them when the
store is Postgres. Nothing is claimed of Redis, for which the mapped state stands
still: Redis replaces whatever is stored.

| Run | Instance | What it shows |
|---|---|---|
| `SyncStores` | 2 devices, 2 accounts, update times 1 and 2, 2 failures, one retry, either store | `ListedFirst` (Redis): no stored account is missing from the list; `RoundAlone` (both): an undisturbed round makes device and store equal; `PgSyncedUp`: 200 means stored, or something newer is; `PgNewestKept`: no version is replaced by an older one; `PgLastWriterWins`: refinement |
| `SyncFalseAck` | 1 device, Redis, 1 failure | *violated:* `SyncedUp`, see section 3 |

*Bounds.* Two devices give every race of two rounds, two accounts a partial
pipeline, two times a conflict. Two failures are enough to use up the retries.
The real limits (3 attempts of Postgres, 4 of Redis) differ only in how often the
same branch is taken; the theorems hold for every value.

`alone` is a history variable: it is lowered when another device writes an account
or a command of the round fails. The program does not have it.

*External behaviour.* The device is modelled from how the two handlers use it: it
sends all its accounts, takes what it is sent, and sends what it is asked for,
without changing an account in the middle of a round. The server refuses either
both commands of an account or none.

### 2.4 ThreadPool

The threads are detached and alike, so the model keeps how many sleep in
`cv.wait` (`waiting`), are about to look at the queue (`ready`), work (`working`),
wait for `connection_fds_mutex` for ever (`blocked`) and have left. `Sleep`,
`TakeRequest` and `TakePoison` are what a thread does under `service_mutex`;
`RequestEnds` is the end of a request, whatever it was: the thread comes back
(`Finish`), or it has a connection to put back and the interrupted main thread
holds the mutex it needs (`Blocks`, 708-711). The
`select` loop is `SelectReturns`, `Divide` (the quotient of 138, with
`active_threads` read twice), `LoadUp`, `StoreUp` and `CreateThread` for each new
thread, then the requests are queued and one thread is notified. `ManagerChecks`
is a pass of the thread manager, `LoadDown`, `StoreDown`, `PushPoison` and
`ManagerNotifies` what it does for each thread it stops. `Signal` interrupts the
main thread wherever it is, which then runs only `shutdown` and keeps whichever
mutex it held: none, `service_mutex` (`mutex`) or `connection_fds_mutex`
(`fds_mutex`; 126-128, 154-157, 232-234 and in `close_client` and
`close_clients`). `shutdown` is one poison entry for each counted thread, the wait for an empty queue, half a second, and the end of
the store. `current_thread_count` is a plain `int`: its changes are a load and a
store, and `lost` records that one overwrote another.

| Run | Instance | What it shows |
|---|---|---|
| `ThreadPool` | 2 threads at first, maximum 5, queue up to 5 entries | `Accounted`: threads, poison entries and both counters agree, and `active_threads` drifts by exactly the threads that left; `NoLostNotify`: one notification for several entries still wakes enough threads; `WithinLimits`; `StoreOutlives`: no thread is left when the store is deleted; `ShutdownEnds`: a shutdown that finds the main thread with no mutex held ends |

*Bounds.* The pool grows from two threads to three, to four and past the maximum to six, so
growth, two sizes to shrink from and the limit are reached; five entries are
more than the threads there are. `Patience` is 1 (20 in the code) and
`CalmFactor` 2 (5 in the code): both only say when the manager may act. `MaxLeft`
bounds how often a thread is stopped.

*Fairness.* Weak fairness of the threads' look at the queue, of the manager's
steps and of the shutdown: threads that can run do run. Weak fairness of
`RequestEnds` is an assumption about requests: `ThreadReturns` of `HttpSession` is
why none waits for its client for ever, but one may wait for a connection of the
store, which has no timeout (`RedisStore.cpp` 490, `data_store_connection.cpp`
486), and then the shutdown waits with it. Nothing is assumed of the arrival of
requests or of the signal.

*What holds only in part.* The signal may interrupt the main thread with
`service_mutex` held, which the handler then waits for (443); with
`connection_fds_mutex` held, on which every thread that puts a connection back
blocks (711), so that its poison entry is never taken and the loop at 448-459 never
sees an empty queue; or between counting and starting a thread, which leaves a
poison entry nobody takes. In these three cases the shutdown does not end:
`ShutdownEnds` excepts them, and fails in the model without any one of the exceptions. A lost update of the count has the same
effect. If the manager has counted a thread off but not yet pushed its poison
entry, `shutdown` dismisses one thread too few, and that thread may work on a
deleted store: `StoreOutlives` excepts it.

### 2.5 PgPool

As `RedisPool`, with the counting of Postgres: `GetNew` counts first, and
`Connects`, `ConnectFails`, `PrepareFails` follow outside the mutex; `Breaks`
counts off under the mutex and `Finishes` closes after it. `CountsTwice` is a
connection whose prepared statements cannot be made: it is counted off and an
error thrown that ends in the handler for `connect`, which counts off once more;
`doubled` counts how often. The pool starts with any number of connections up to
the minimum, none included, since `server.cpp` 107 ignores what `initialize`
returns; a connect may fail whether or not the server is up. `Succeeds`, `Errs` and `Breaks`
are what a statement comes to.

| Run | Instance | What it shows |
|---|---|---|
| `PgPool` | 4 threads, 4 connections, minimum 1, maximum 3, server that stops and starts | `Placed`: every open connection is in exactly one place and everything in a place is open; `Counted`: the count is exact but for the connections counted off twice, and by no more than these the pool exceeds its maximum; `NoLostNotify`; `KeepsPool`: refinement of `ConnectionPool` |

*Bounds.* Four threads on three connections make one wait; the fourth connection
lets the pool exceed its maximum after one double count (`MaxDoubled` 1). Two tries
stand for three, two passes of the manager for `CONNECTION_THREAD_MAGIC`.
No liveness is claimed: the waiter of this pool too waits for an idle connection
only, so it may sleep for ever beside a pool that has room.

### 2.6 UserRegistry

`user_infos` is the map, `store` the rows of each user (password, last sync time,
the list of account names, an account), on Redis changed by one `Command` each, on
Postgres by one `Execute` each. A request goes through the steps of its handler:
`Check` and `Insert`, or `Count`, `Compare` and `Lookup`, which look the user up
anew, then the store's commands, then `Registered`, `Erase`, `Forget` or
`Synced`. As each handler has a mutex of its own, the map is searched and changed
by several threads at once: a change while another thread is in the map may tear
the tree, and so may `operator[]` on a user who has gone; a torn map answers
anything. `Refused` (an error reply, which a pipeline counts as done), `Breaks`,
`Unsent`, `Rejected` and `Lost` are the failures of the store with the code's
reaction, `Dies` and `Load` the end of the process and its start. `CleanerStarts`
to `CleanerEnds` and `DeleteOld` are the data cleaner of the two stores: a pass
without a connection for its commands is begun anew or given up (`Unconnected`).
Its `GETACCOUNTS` is the nested `get_accounts_for_user` (`Nested`), which skips
accounts whose HGETALL is refused (280-284) and does not tell that it failed
(346-355): `Swallowed` goes on to delete the list with nothing read (628-637), and
the accounts stay, listed nowhere. A handler's `GETACCOUNTS` reads the names only
(`Sees`). `Age` is the passing of days.

History variables: `promise` is what the last answer to a registration or
deletion said (`word`) and whether `AnswersKept` excuses it (`excused`); `safe` has
those who were answered 200 to a sync since the last `Age`. `clean` says of a
request that nothing has disturbed it. A registration or deletion is disturbed by
another one of the same user at the same time, and by an error reply to its
CREATEUSER or DELUSER: the code counts that as done (`RedisStore.cpp` 577-578) and
answers 200, which is then false. A sync is disturbed by a registration, a deletion
or a pass of the cleaner at the same time, and by any of its commands that is
refused or not sent.

`doubtMap` has the users on whom map and store may disagree. A user enters it when
two registrations or deletions of the user overlap, when one gives up half done (the
store has changed and the map has not, or, since the Postgres store throws past the
`erase` of 108, the other way round), and when the store answers its CREATEUSER or
DELUSER with an error; everybody does when the load at the start fails, and a load
that succeeds empties it.

`doubtStore` has the users whose rows in Redis may be half done. A user enters it
when a request on the user gives up, has a command refused or, of a sync, not sent,
overlaps another request on the user (unless both are syncs) or a pass of the
cleaner, goes on because of what a torn map said (`Doubts`), or dies with the
process; and when a pass of the cleaner on the user breaks off or cannot read the
accounts (`Swallowed`).

| Run | Instance | What it shows |
|---|---|---|
| `Registry` | 1 user, 2 passwords, 2 threads, cleaner, 1 failure, either store, restarts | `Agree`: map and store agree on everybody of whom no request is under way, outside `doubtMap`; `AnswersKept`: a 200 to register or delete stays true unless it is excused; `Whole` (Redis): of a user outside `doubtStore` there is all or nothing; `CleanerSpares` (Redis): who has synced recently keeps the accounts |

*Bounds.* Users share no row and no command, so one user has every race but that
of the tree, which `torn` covers; two threads and the cleaner give every pair of
operations; two passwords tell a registration from the one before. One failure is
enough for each way of giving up, with `MaxAttempts` 1, one retry more for the
operations that allow it, and two tries of a statement.

*What holds only in part.* `Agree`, `AnswersKept` and `Whole` except what the history
variables name, and in each of these cases the code does break them: a
registration whose CREATEUSER Redis refuses is answered 200 with nothing stored, a
deletion whose DELUSER is refused with the user still there; a pass of the cleaner
whose reads fail orphans the accounts; a registration whose Redis commands break after
`CREATEUSER` leaves a user without a last sync time, over which the next start of
the server fails (`RedisStore.cpp` 92), and a statement that fails for good leaves
the entry in the map. Whether deleting a Postgres user deletes its accounts is up
to the schema, which is not in the repository: both are modelled, and nothing is
claimed.

### 2.7 HttpSession

Bytes are counted in units of request line, header and body. The client sends a
request in records of any size, closes, or is reset; `Reads` is one `SSL_read`
with the loop condition of `read_incoming_bytes`, `ReadsNothing` one that returns
0, `ReadFails` one that returns -1 after 15 seconds of silence or a reset.
`ParseGet`, `ParsePost`, `Refuse` and `Skip` are the outcomes of `parse_header`,
`Reply` and `ReplyError` the answer. `Selected` and `HangUp` stand for the main
thread.

| Run | Instance | What it shows |
|---|---|---|
| `HttpSession` | a block of 2 units, headers of 1 and 2, bodies of 0, 1 and 3, two attempts | `Framed`: what is handled is the body that was sent; `InStep`: when the connection goes back to `select` nothing is left in SSL, where `select` cannot see it, and what the kernel has begins with a header; `ThreadReturns`: no thread is lost to a silent client |

*Bounds.* A header that ends in the first block and one that goes on in the
second, a body shorter and one longer than a block. The client has one request
under way, as `sync_initial` and `sync_final` do.

*Fairness.* Weak fairness of the service thread and of `select`. A read always
returns, because the socket has a receive timeout of 15 seconds.

*What holds only in part.* The end of a header is not looked for: where the first
read stops, the header is taken to end. `disturbed` names the cases in which
`Framed` or `InStep` do not hold: a header in several records, a record with the
header and a part of the body, a read that fails with bytes in the buffer, and a
request line that is skipped without an answer (and with its body unread). If
the first read of a buffer fails, the index wraps and the zero is written behind
the buffer (stage `dead` if that ends the process).

## 3. Where the code disagrees with its comments

* `ServerEbadf`. A service thread lowers `active` (708) before it puts the
  descriptor back (712). In between the session manager may list the connection
  and the main thread close it; a closed descriptor is then in the master set
  for ever, `select` fails with EBADF at every turn and the loop never looks at
  the listener again.
* `PoolLimit`. When a connection cannot be created nothing is counted (483-486),
  but the caller's `releaseConnection(NULL)` counts one off (545). After an
  outage the pool opens more connections than its maximum.
* `SyncFalseAck`. "Means there was at least 1 failure, so dont update last sync
  time so another sync can be done" (`sync_handler.cpp` 360): with Redis a
  connection that cannot be obtained is not a failure, since
  `upsert_accounts_for_user` returns true when `getConnection` throws (413-415).

Further places, which are not runs of their own:

* The comment on the deprecated user lock says it is "no
longer needed, instead use upsert with on conflict" (`sync_handler.cpp` 389). This
is true of Postgres (`PgNewestKept`, `PgLastWriterWins`); `RedisStore` has no such
condition, and of two rounds that overlap the one that writes last wins, whatever
its version.
* "A single lock for entire user map" (`server.cpp` 31): the mutex is a member of
each handler (`sync_handler.h` 64) and each request has its own handler.
* Service threads "can grow to max connections cout" (`server.config` 6): the
code reads `max_service_threads`, stops growing at it (137) but may then exceed
it by half; with one thread the pool never grows, as half of one is none.
* The data cleaner "deletes user/accounts whose last sync is older" and `days` is
"how long to keep deleted accounts in the history table" (`IDataStore.h` 201-203):
no user is ever deleted, Postgres goes by the time of an account's last change,
and `days` is not used (211, 227-228).
* `createUser` hands Postgres the text of a string that is gone
(`data_store_connection.cpp` 286).
* An error reply in a pipeline counts as done (`eatPipelineReplies`, 577-578). So a
registration or deletion whose CREATEUSER or DELUSER Redis refuses is answered 200:
there is no such user in the store, or there still is one.
* `get_accounts_for_user` does not tell its callers that it failed, or that it
skipped an account whose HGETALL was refused. `deleteOldUsers` then deletes the list
of the accounts it could not read (628-637): they are in the store for ever, and in
no list.
* A "graceful shutdown" (`main.cpp` 23) hangs if the signal comes while the main
thread holds `service_mutex` or `connection_fds_mutex` (2.4).
* A waiting thread waits for an idle connection, not for room in the pool
(`RedisStore.cpp` 492, and 2.2).

## 4. What is proved

The theorems hold for every value of the constants allowed by each module's
ASSUME (finite sets, naturals, distinct special values); there is no bound on
threads, descriptors, connections, devices, accounts or failures.

`SyncServerProofs`. `WakeupInv` is `TypeOK`, `EventsPending` (a bit for the pipe
is set only while a byte is in it), `ClientHeld` (which stages hold a client),
`OneWakeupByte` and `NoLostWakeup`: none of the last two is inductive without the
other, since the byte is written only if the flag is down. It yields
`TypeCorrect`, `WakeupByte` and `Wakeup`. `CloseInv` yields `CloseByte`. Under the
assumption `~UseCleaner`, `OwnerInv` states for each of the three places a
connection can be in (`WatchedOk`, `QueueOk`, `ServedOk`) which flags and which
socket state go with it; it yields `Ownership` and `OnlyOpenWatched`, and with
`CountInv` `CounterExact` and `ConnectionLimit`. `Capacity` (no closed connection
stays counted) holds with the session manager too, and so does `SessionsApart`, that
no two threads use one TLS session. Its `SessionInv` says that what is in the queue
or worked on is open, flagged as active and in one place only, and nothing of a
connection whose flag is lowered, where the session manager interferes. The proof
does not use the assumption of `KeepAliveExpires`, that no thread is suspended for
the whole keep-alive time. `Implementation` is the refinement of `Connections`, one
step per action, from `OwnerInv` and `CountInv`. `OnePlaceEach` is what follows from
the abstract specification: `FrontInv` is inductive for its steps, so the code's
have it by the refinement.

`RedisPoolProofs`. `TypeInv` adds to `TypeOK` which stages hold a connection
(`StageHeld`) and when the nested call may run (`CallIdle`). `PoolInv` joins
`Exclusive`, `NoLeak`, `NoBrokenIdle` and `NoOvercount`, which need each other: a
connection is counted in the right place only because it is in no other. `WakeInv`
adds that everything in the wait set waits. They yield `TypeCorrect`,
`ShrinksSafely`, `Exclusion`, `NothingLeaks`, `PoolUsable`, `CapacityNotLost` and
`NotifyNotLost`. `Implementation` is the refinement of `ConnectionPool`: a step of a
thread opens, lends, returns or discards its own connection or moves none, which
needs `StageHeld` (it has none when it is lent one) and `Exclusive` (what it is
lent was idle once).

`ThreadPoolProofs`. `PoolInv` is `TypeInv`, `CountInv` (threads, poison entries
and the count agree, and at each point of the growth rule how far the count is
from its bounds), `EndInv` (how many entries the shutdown has pushed and what is
left at each of its stages) and `NoLostNotify`. `CountInv` alone is not inductive:
a thread is created for a count that was raised two steps before. It yields
`TypeCorrect`, `Accounting`, `NotifyNotLost`, `LimitsKept` and
`StoreOutlivesThreads`, for any number of threads and any growth bound, with either
mutex kept by an interrupted main thread.

`PgPoolProofs`. `TypeInv` says which stages hold a connection; `Placed` and
`NoLostNotify` are inductive above it, and `Counted` by following the one thread
that moves (`CountingMoved`, `CountedMoved`). It yields `TypeCorrect`,
`Placement`, `NotifyNotLost` and `Accounting`, and from `TypeInv` and `Placed` the
refinement `Implementation` of the same `ConnectionPool`. `PoolSequences` has the facts about
stacks of connections that both pools' proofs cite.

`UserRegistryProofs`. `TypeInv` adds to `TypeOK` which commands and statements a
request and a store type allow (`InPlace`). `AnswerInv` joins `AnswersKept` with
`NoneAlone` (of two registrations or deletions of one user neither counts as
undisturbed) and `Reliance`: from its first change on an answer no longer binds,
and what an undisturbed one has written is still there.
`AgreeInv` says of each user outside `doubtMap` (`Settled`) that no two
registrations or deletions are under way, and where one that is has brought map
and store (`MidAt`, step by step); if none is, they agree. They yield
`TypeCorrect`, `AnswersStayTrue` and `MapAgrees`. `AnswersStayTrue` is of answers to
requests nothing disturbed in the sense of 2.6; of a request whose CREATEUSER or
DELUSER was refused it says nothing, since its 200 is false in the code.

On top of it, for the rows in Redis, `WholeInv` says of each user outside `doubtStore`
(`Orderly`) that only syncs share the user, that the row is where each request has
brought it (`RegisterRow`, `DeleteRow`, `SyncRow`), and that it is all there or all
gone (`Kept`) when nobody changes who is registered, but for an account a sync or
the cleaner is at work on (`Half`). It needs `AgreeInv`, since a registration
takes from the map that there are no rows yet. `SparesInv` says of a sync nothing
has disturbed that it shares the user with syncs only and how far it has brought
the row (`Undisturbed`), and of each user in `safe` that the last sync is recent
and no other request has got as far as the store (`SafeRow`), so that no pass of
the cleaner can put the user on its list. They yield `StoredWhole` and
`SyncedSpared`. What `StoredWhole` excepts is what 2.6 lists under `doubtStore`, the
accounts a pass of the cleaner orphans among it: of everything else, retries that
run over what an earlier try left included, it says that nothing stays half done.

`AccountSyncProofs`. `RoundInv` says at each stage of a round how the snapshot, the
store and the device compare: `Ahead` for Postgres whatever others do, `InStep`
for either store as long as the round is alone, `Local` where the variables of a
request are in use, and `ListedFirst`. The proof separates the device that takes
the step (`OwnLocal`, `OwnAhead`, `OwnInStep`, one step per action) from the
others, for which it is enough that the store moved forward or that they are no
longer alone (`Others`, `Stores`, `OthersKeep`). It yields `TypeCorrect`,
`AllListed`, `UndisturbedRound`, `AnsweredMeansStored`, `NeverOlder` and the
refinement `Refinement`.

`HttpSessionProofs`. `SessionInv` is `Sound` (the types, and what each stage
says of the buffer: `Shape`), `CalmAligned` and `Skipped`. `CalmAligned` says
that, unless a header came in several records or a request line was skipped,
what the kernel has, the rest of a record in SSL and the buffer are together
what is left of the request under way: what the client has written (`Written`),
what is there before its header is read (`Ahead`) and afterwards (`Behind`), and
what the buffer has at each stage (`Buffer`). `Skipped` says that a header that
came whole is skipped only if there is no request in it. What the kernel has is
a sequence of records of any number and length, and the invariant needs their
sum. It is stated without induction: `Within` says that there is a function of
running totals which starts at what was read, grows by each record and never
exceeds what was sent (`Adds`); taking the first record or appending one makes a
new such function from the old. They yield `TypeCorrect`, `Framing` and
`Stepping`, for any block size, any lengths and any cut into records.

*Model-checked only.* The liveness properties (`RequestTaken`, `ConnectAnswered`,
`OperationEnds`, `ShutdownEnds`, `ThreadReturns`): liveness under fairness is
outside the proof system. Every other property of a passing run is a theorem. The
type invariants are proved and no longer among the properties of the runs.

## 5. What is not modelled

* Configuration parsing, build files and scripts: no state that changes while the
  server runs. The values read are the CONSTANTS.
* `lock_user`, `relock_user`, `unlock_user`: marked deprecated, never called.
* The texts of replies (`config_http`), `verify_email` and `hash_password`: a reply
  is its status, a hash is its password.
* `deleteHistory` works on a table nothing in `src/` reads. The schedule of the
  cleaner: a pass may start at any moment, which covers every schedule, also the
  negative pause of `IDataStore.h` 231.
* A second signal, and the branch of `signalHandler` for SIGKILL, which no process
  receives.
* TLS, JSON and hashing libraries, `libpq`, `hiredis`: external; modelled by the
  outcomes the code distinguishes.
* `accept` returning -1 (`server.cpp` 182), which would put a connection of that
  number into the map and count it.
* A request left in the uninitialised buffer of a read that failed (`server.cpp`
  765-796): the buffer is taken to hold something that is not a request.
* That a deletion may free the name another deletion is using (`sync_handler.cpp`
  183, 192-194): the model goes on with the name.
* Locks inside `printf`, `malloc` and `exit`, which the signal handler calls while
  the interrupted thread may hold them.
* Memory: what a freed object or a torn read contains is modelled only where the
  code acts on it (`dangling` in `SyncServer`, `torn` in `UserRegistry`). The
  buffers of `get_accounts_for_user`, which a retry allocates anew under an old
  index, the shared `sync_buf` of `data_store_connection`, and the list of replies
  after a failed read are left out.
* The data race on the tree of `conn_map`: entries are read and written one at a
  time.
* Update times that are equal on two devices with different contents: the code
  takes them for the same version, and so does the model.

## 6. What is left

1. `AccountSync` with the deletion of the user and the data cleaner between the
   two requests of a round: versions of accounts and users who come and go in one
   module.
2. The arithmetic of buffer growth in the two stores' `get_accounts_for_user`.
