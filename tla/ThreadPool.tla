------------------------------ MODULE ThreadPool ------------------------------
(***************************************************************************)
(* The pool of service threads (server.cpp): it grows in the select loop,  *)
(* shrinks through poison entries the thread manager puts into the service *)
(* queue, and is dismissed by server::shutdown, which a signal handler     *)
(* runs on the main thread, wherever that thread happens to be.            *)
(*                                                                         *)
(* The threads are detached and interchangeable, so the model keeps how    *)
(* many are in each stage.  Critical sections of service_mutex are single  *)
(* steps; current_thread_count is a plain int that two threads change, so  *)
(* its increments and decrements are a load and a store.                   *)
(***************************************************************************)
EXTENDS Integers, Sequences, FiniteSets

CONSTANTS
    ServerThreads, \* service_threads, the threads started by the constructor
    MaxThreads,    \* max_service_threads
    CalmFactor,    \* fewer entries per thread than this are calm (1/0.2 in the code)
    Patience,      \* calm passes before the manager shrinks (20 in the code)
    MaxQueue,      \* bound: requests are queued only below this length
    MaxLeft        \* bound: the manager shrinks while fewer threads have left

ASSUME ConstantsAssumption ==
    /\ ServerThreads \in Nat /\ MaxThreads \in Nat
    /\ CalmFactor \in Nat /\ Patience \in Nat
    /\ MaxQueue \in Nat /\ MaxLeft \in Nat

VARIABLES
    service_q,            \* a sequence of "request" and "poison"
    mutex,                \* service_mutex beyond a single step: free / main / handler
    fds_mutex,            \* connection_fds_mutex beyond a single step: free / main
    current_thread_count,
    active_threads,
    waiting,              \* threads asleep in cv.wait
    ready,                \* threads about to look at the queue
    working,              \* threads working on a request
    blocked,              \* threads that wait for connection_fds_mutex for ever
    left,                 \* threads that have taken a poison entry
    main,                 \* where the select loop is
    toStart, mainReg,     \* threads still to start; the loaded count
    manager,              \* where the thread manager is
    toStop, managerReg,   \* threads still to stop; the loaded count
    thread_check_counter,
    handler, pushed,      \* where server::shutdown is, and its loop index
    lost                  \* history: an update of current_thread_count was lost

threadVars  == <<waiting, ready, working, blocked, left, active_threads>>
mainVars    == <<main, toStart, mainReg>>
managerVars == <<manager, toStop, managerReg, thread_check_counter>>
handlerVars == <<handler, pushed, fds_mutex>>
vars == <<service_q, mutex, current_thread_count, threadVars, mainVars, managerVars,
          handlerVars, lost>>

TypeOK ==
    /\ service_q \in Seq({"request", "poison"})
    /\ mutex \in {"free", "main", "handler"} /\ fds_mutex \in {"free", "main"}
    /\ current_thread_count \in Int
    /\ active_threads \in Nat /\ waiting \in Nat /\ ready \in Nat
    /\ working \in Nat /\ blocked \in Nat /\ left \in Nat
    /\ main \in {"select", "divide", "load", "store", "create", "serve", "notify", "crashed"}
    /\ toStart \in Nat /\ mainReg \in Int
    /\ manager \in {"sleep", "load", "store", "push", "notify"}
    /\ toStop \in Nat /\ managerReg \in Int /\ thread_check_counter \in Nat
    /\ handler \in {"none", "push", "drain", "grace", "deleted", "exited"}
    /\ pushed \in Nat
    /\ lost \in BOOLEAN

Live == waiting + ready + working + blocked
PoisonPlaces(q) == {i \in 1 .. Len(q) : q[i] = "poison"}
Poisons(q) == Cardinality(PoisonPlaces(q))

\* The process runs: neither the division nor exit has ended it.
Running == main # "crashed" /\ handler # "exited"

Init ==
    /\ service_q = <<>> /\ mutex = "free" /\ fds_mutex = "free"
    /\ current_thread_count = ServerThreads
    /\ active_threads = 0 /\ waiting = 0 /\ ready = ServerThreads
    /\ working = 0 /\ blocked = 0 /\ left = 0
    /\ main = "select" /\ toStart = 0 /\ mainReg = 0
    /\ manager = "sleep" /\ toStop = 0 /\ managerReg = 0
    /\ thread_check_counter = 0
    /\ handler = "none" /\ pushed = 0
    /\ lost = FALSE

-----------------------------------------------------------------------------
(* cv and the service threads. *)

\* Mutant: the waiting thread is not woken.
NotifyOne_Nobody == UNCHANGED <<waiting, ready>>

NotifyOne ==
    IF waiting > 0
    THEN waiting' = waiting - 1 /\ ready' = ready + 1
    ELSE UNCHANGED <<waiting, ready>>

Sleep ==
    /\ Running /\ mutex = "free" /\ ready > 0 /\ service_q = <<>>
    /\ ready' = ready - 1
    /\ waiting' = waiting + 1
    /\ UNCHANGED <<service_q, mutex, current_thread_count, working, blocked, left,
                   active_threads, mainVars, managerVars, handlerVars, lost>>

TakeRequest ==
    /\ Running /\ mutex = "free" /\ ready > 0
    /\ service_q # <<>> /\ Head(service_q) = "request"
    /\ service_q' = Tail(service_q)
    /\ ready' = ready - 1
    /\ working' = working + 1
    /\ active_threads' = active_threads + 1
    /\ UNCHANGED <<mutex, current_thread_count, waiting, blocked, left, mainVars,
                   managerVars, handlerVars, lost>>

\* active_threads is raised before the entry is looked at, and the thread ends.
TakePoison ==
    /\ Running /\ mutex = "free" /\ ready > 0
    /\ service_q # <<>> /\ Head(service_q) = "poison"
    /\ service_q' = Tail(service_q)
    /\ ready' = ready - 1
    /\ left' = left + 1
    /\ active_threads' = active_threads + 1
    /\ UNCHANGED <<mutex, current_thread_count, waiting, working, blocked, mainVars,
                   managerVars, handlerVars, lost>>

\* Mutant: a way out that does not count the thread off.
Finish_Uncounted ==
    /\ Running /\ working > 0
    /\ working' = working - 1
    /\ ready' = ready + 1
    /\ UNCHANGED <<service_q, mutex, current_thread_count, waiting, blocked, left,
                   active_threads, mainVars, managerVars, handlerVars, lost>>

\* Every way out of a request lowers active_threads once: the connection is closed,
\* or it is put back into the set.
Finish ==
    /\ Running /\ working > 0
    /\ working' = working - 1
    /\ ready' = ready + 1
    /\ active_threads' = active_threads - 1
    /\ UNCHANGED <<service_q, mutex, current_thread_count, waiting, blocked, left, mainVars,
                   managerVars, handlerVars, lost>>

\* A thread that has a connection to put back waits for the mutex of the set, which
\* the interrupted main thread keeps for ever.
Blocks ==
    /\ Running /\ working > 0 /\ fds_mutex = "main"
    /\ working' = working - 1
    /\ blocked' = blocked + 1
    /\ active_threads' = active_threads - 1
    /\ UNCHANGED <<service_q, mutex, current_thread_count, waiting, ready, left, mainVars,
                   managerVars, handlerVars, lost>>

RequestEnds == Finish \/ Blocks

Looks == Sleep \/ TakeRequest \/ TakePoison

-----------------------------------------------------------------------------
(* The main thread: server::start, as long as no signal has interrupted it. *)

MainRuns == Running /\ handler = "none"

\* select has returned; the first half of the growth condition.
SelectReturns ==
    /\ MainRuns /\ main = "select"
    /\ main' = IF /\ current_thread_count < MaxThreads
                  /\ Len(service_q) > current_thread_count
                  /\ active_threads > 0
               THEN "divide" ELSE "serve"
    /\ UNCHANGED <<service_q, mutex, current_thread_count, threadVars, toStart, mainReg,
                   managerVars, handlerVars, lost>>

\* Mutant: as many threads again as there are.
Growth_Doubles == current_thread_count

\* The comparison with the maximum in the code is void: the count is below it.
Growth == current_thread_count \div 2

\* active_threads is read again as the divisor; it may have fallen to zero.
Divide ==
    /\ MainRuns /\ main = "divide"
    /\ IF active_threads = 0
       THEN main' = "crashed" /\ toStart' = toStart
       ELSE IF current_thread_count \div active_threads < 2 /\ Growth > 0
       THEN main' = "load" /\ toStart' = Growth
       ELSE main' = "serve" /\ toStart' = toStart
    /\ UNCHANGED <<service_q, mutex, current_thread_count, threadVars, mainReg,
                   managerVars, handlerVars, lost>>

LoadUp ==
    /\ MainRuns /\ main = "load"
    /\ mainReg' = current_thread_count
    /\ main' = "store"
    /\ UNCHANGED <<service_q, mutex, current_thread_count, threadVars, toStart,
                   managerVars, handlerVars, lost>>

StoreUp ==
    /\ MainRuns /\ main = "store"
    /\ current_thread_count' = mainReg + 1
    /\ lost' = (lost \/ current_thread_count # mainReg)
    /\ main' = "create"
    /\ UNCHANGED <<service_q, mutex, threadVars, toStart, mainReg, managerVars, handlerVars>>

\* The thread itself is started after it has been counted.
CreateThread ==
    /\ MainRuns /\ main = "create"
    /\ ready' = ready + 1
    /\ toStart' = toStart - 1
    /\ main' = IF toStart > 1 THEN "load" ELSE "serve"
    /\ UNCHANGED <<service_q, mutex, current_thread_count, waiting, working, blocked,
                   left, active_threads, mainReg, managerVars, handlerVars, lost>>

\* A new or readable connection is queued ...
Push ==
    /\ MainRuns /\ main = "serve" /\ mutex = "free"
    /\ Len(service_q) < MaxQueue
    /\ service_q' = Append(service_q, "request")
    /\ main' = "notify"
    /\ UNCHANGED <<mutex, current_thread_count, threadVars, toStart, mainReg,
                   managerVars, handlerVars, lost>>

\* ... and one thread notified: of a new connection after the mutex is released, of
\* a readable one while it is still held.
MainNotifies ==
    /\ MainRuns /\ main = "notify"
    /\ NotifyOne
    /\ main' = "serve"
    /\ UNCHANGED <<service_q, mutex, current_thread_count, working, blocked, left,
                   active_threads, toStart, mainReg, managerVars, handlerVars, lost>>

SelectAgain ==
    /\ MainRuns /\ main = "serve"
    /\ main' = "select"
    /\ UNCHANGED <<service_q, mutex, current_thread_count, threadVars, toStart, mainReg,
                   managerVars, handlerVars, lost>>

Main ==
    \/ SelectReturns \/ Divide \/ LoadUp \/ StoreUp \/ CreateThread
    \/ Push \/ MainNotifies \/ SelectAgain

-----------------------------------------------------------------------------
(* The thread manager. *)

Surplus == (current_thread_count - ServerThreads) \div 2

Calm == Len(service_q) < CalmFactor * current_thread_count

CountDown == IF thread_check_counter > 0 THEN thread_check_counter - 1 ELSE 0

\* One pass: count the calm ones; after Patience of them stop half the surplus.
ManagerChecks ==
    /\ Running /\ manager = "sleep"
    /\ \/ /\ Calm /\ thread_check_counter < Patience
          /\ thread_check_counter' = thread_check_counter + 1
          /\ UNCHANGED <<manager, toStop>>
       \/ /\ Calm /\ thread_check_counter >= Patience
          /\ thread_check_counter' = 0
          /\ IF Surplus > 0
             THEN /\ left + Poisons(service_q) < MaxLeft
                  /\ manager' = "load" /\ toStop' = Surplus
             ELSE UNCHANGED <<manager, toStop>>
       \/ /\ ~Calm
          /\ thread_check_counter' = CountDown
          /\ UNCHANGED <<manager, toStop>>
    /\ UNCHANGED <<service_q, mutex, current_thread_count, threadVars, mainVars,
                   managerReg, handlerVars, lost>>

LoadDown ==
    /\ Running /\ manager = "load"
    /\ managerReg' = current_thread_count
    /\ manager' = "store"
    /\ UNCHANGED <<service_q, mutex, current_thread_count, threadVars, mainVars, toStop,
                   thread_check_counter, handlerVars, lost>>

StoreDown ==
    /\ Running /\ manager = "store"
    /\ current_thread_count' = managerReg - 1
    /\ lost' = (lost \/ current_thread_count # managerReg)
    /\ toStop' = toStop - 1
    /\ manager' = "push"
    /\ UNCHANGED <<service_q, mutex, threadVars, mainVars, managerReg,
                   thread_check_counter, handlerVars>>

PushPoison ==
    /\ Running /\ manager = "push" /\ mutex = "free"
    /\ service_q' = Append(service_q, "poison")
    /\ manager' = "notify"
    /\ UNCHANGED <<mutex, current_thread_count, threadVars, mainVars, toStop, managerReg,
                   thread_check_counter, handlerVars, lost>>

ManagerNotifies ==
    /\ Running /\ manager = "notify"
    /\ NotifyOne
    /\ manager' = IF toStop > 0 THEN "load" ELSE "sleep"
    /\ UNCHANGED <<service_q, mutex, current_thread_count, working, blocked, left,
                   active_threads, mainVars, toStop, managerReg, thread_check_counter,
                   handlerVars, lost>>

Shrink == LoadDown \/ StoreDown \/ PushPoison \/ ManagerNotifies

-----------------------------------------------------------------------------
(* server::shutdown(false), in the signal handler. *)

\* The signal interrupts the main thread, which does not run again: a mutex it
\* holds at that moment it keeps for ever.  It holds service_mutex while it queues
\* a connection, and connection_fds_mutex while it copies the set before select and
\* while it changes it; never both.
Signal ==
    /\ MainRuns
    /\ handler' = "push" /\ pushed' = 0
    /\ \/ mutex' = "free" /\ fds_mutex' = "free"
       \/ main \in {"serve", "notify"} /\ mutex' = "main" /\ fds_mutex' = "free"
       \/ main \in {"select", "serve"} /\ mutex' = "free" /\ fds_mutex' = "main"
    /\ UNCHANGED <<service_q, current_thread_count, threadVars, mainVars, managerVars, lost>>

\* A poison entry for every counted thread; the count is read at every turn.
Dismiss ==
    /\ Running /\ handler = "push" /\ pushed < current_thread_count
    /\ mutex = "free"
    /\ service_q' = Append(service_q, "poison")
    /\ pushed' = pushed + 1
    /\ NotifyOne
    /\ UNCHANGED <<mutex, fds_mutex, current_thread_count, working, blocked, left,
                   active_threads, mainVars, managerVars, handler, lost>>

AllDismissed ==
    /\ Running /\ handler = "push" /\ pushed >= current_thread_count
    /\ handler' = "drain"
    /\ UNCHANGED <<service_q, mutex, fds_mutex, current_thread_count, threadVars, mainVars,
                   managerVars, pushed, lost>>

\* Every second as long as the queue is not empty.
Nudge ==
    /\ Running /\ handler = "drain" /\ mutex = "free" /\ service_q # <<>>
    /\ NotifyOne
    /\ UNCHANGED <<service_q, mutex, current_thread_count, working, blocked, left,
                   active_threads, mainVars, managerVars, handlerVars, lost>>

\* Mutant: the queue is not waited for.
Drained_AtOnce ==
    /\ Running /\ handler = "drain" /\ mutex = "free"
    /\ mutex' = "handler"
    /\ handler' = "grace"
    /\ UNCHANGED <<service_q, fds_mutex, current_thread_count, threadVars, mainVars,
                   managerVars, pushed, lost>>

\* The queue is empty; the mutex stays locked from here on.
Drained ==
    /\ Running /\ handler = "drain" /\ mutex = "free" /\ service_q = <<>>
    /\ mutex' = "handler"
    /\ handler' = "grace"
    /\ UNCHANGED <<service_q, fds_mutex, current_thread_count, threadVars, mainVars,
                   managerVars, pushed, lost>>

\* After half a second the store is deleted, and then the process exits.
DeleteStore ==
    /\ Running /\ handler = "grace"
    /\ handler' = "deleted"
    /\ UNCHANGED <<service_q, mutex, fds_mutex, current_thread_count, threadVars, mainVars,
                   managerVars, pushed, lost>>

Exit ==
    /\ Running /\ handler = "deleted"
    /\ handler' = "exited"
    /\ UNCHANGED <<service_q, mutex, fds_mutex, current_thread_count, threadVars, mainVars,
                   managerVars, pushed, lost>>

Shutdown == Dismiss \/ AllDismissed \/ Nudge \/ Drained \/ DeleteStore \/ Exit

-----------------------------------------------------------------------------
Next == Looks \/ RequestEnds \/ Main \/ ManagerChecks \/ Shrink \/ Signal \/ Shutdown

Spec == Init /\ [][Next]_vars

\* The threads, the manager and the handler keep running.  That a request ends is
\* an assumption: it may wait for a connection of the store, which has no timeout.
FairSpec ==
    /\ Spec
    /\ WF_vars(Looks) /\ WF_vars(RequestEnds)
    /\ WF_vars(Shrink) /\ WF_vars(Shutdown)

-----------------------------------------------------------------------------
(* Properties. *)

Starting == IF main = "create" THEN 1 ELSE 0
Stopping == IF manager = "push" THEN 1 ELSE 0

\* Unless an update of the count was lost, the threads there are, counted or
\* about to be started or stopped, and the poison entries for them agree; and
\* active_threads is what works on a request plus what left by a poison entry,
\* which never counts itself off.
Accounted ==
    /\ ~lost => Live = current_thread_count - Starting + Stopping
                       + Poisons(service_q) - pushed
    /\ active_threads = working + left

Notifying == (IF main = "notify" THEN 1 ELSE 0) + (IF manager = "notify" THEN 1 ELSE 0)

\* No entry of the queue is forgotten: while a thread sleeps there are enough
\* awake threads, or notifications on their way, for every entry.
NoLostNotify == waiting > 0 => ready + Notifying >= Len(service_q)

\* Neither the manager nor the growth rule leaves the limits: the threads that
\* are not to be stopped are never fewer than the constructor started, and never
\* as many as half again the maximum.
WithinLimits ==
    ~lost /\ handler = "none" =>
        LET kept == Live - Poisons(service_q) - Stopping
            most == MaxThreads - 1 + (MaxThreads - 1) \div 2
        IN  kept >= ServerThreads /\ (kept <= most \/ kept <= ServerThreads)

\* When shutdown deletes the store every service thread has ended, although it
\* only waits for the queue to be empty; the exceptions are a lost update of the
\* count and a thread the manager has counted off but not yet stopped.
StoreOutlives ==
    handler = "deleted" /\ ~lost /\ manager # "push" => Live = 0

\* A shutdown ends, if the signal finds the main thread with neither mutex held and
\* not between counting and starting a thread, the count is right, the manager does
\* not shrink the pool in the meantime, and every request ends.  With service_mutex
\* held the handler itself hangs; with connection_fds_mutex held every thread that
\* puts a connection back hangs, its poison entry stays, and the handler waits for
\* ever for the queue to become empty.
ShutdownEnds ==
    /\ handler = "push" /\ pushed = 0 /\ mutex = "free" /\ fds_mutex = "free"
    /\ main # "create" /\ ~lost
    ~> handler = "exited" \/ manager # "sleep"

=============================================================================
