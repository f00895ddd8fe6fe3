--------------------------- MODULE ThreadPoolProofs ---------------------------
(* Theorems about ThreadPool, for every value of its constants. *)
EXTENDS ThreadPool, FiniteSetTheorems, TLAPS

-----------------------------------------------------------------------------
(* Counting the poison entries of a queue. *)

Entry == {"request", "poison"}

LEMMA PlacesFinite ==
  ASSUME NEW q \in Seq(Entry)
  PROVE  IsFiniteSet(PoisonPlaces(q)) /\ Poisons(q) \in Nat
<1>1. Len(q) \in Nat /\ PoisonPlaces(q) \subseteq 1 .. Len(q)
  BY DEF PoisonPlaces
<1>2. IsFiniteSet(1 .. Len(q))
  BY <1>1, FS_Interval
<1> QED
  BY <1>1, <1>2, FS_Subset, FS_CardinalityType DEF Poisons

LEMMA NoPlaces == Poisons(<<>>) = 0
<1>1. PoisonPlaces(<<>>) = {}
  BY DEF PoisonPlaces
<1> QED
  BY <1>1, FS_EmptySet DEF Poisons

LEMMA PoisonsAppend ==
  ASSUME NEW q \in Seq(Entry), NEW e \in Entry
  PROVE  /\ Append(q, e) \in Seq(Entry)
         /\ Len(Append(q, e)) = Len(q) + 1
         /\ Poisons(Append(q, e)) = Poisons(q) + (IF e = "poison" THEN 1 ELSE 0)
<1> DEFINE n == Len(q)
           r == Append(q, e)
<1>1. n \in Nat /\ r \in Seq(Entry) /\ Len(r) = n + 1
      /\ (\A i \in 1 .. n : r[i] = q[i]) /\ r[n + 1] = e
  OBVIOUS
<1>2. n + 1 \notin PoisonPlaces(q)
  BY <1>1 DEF PoisonPlaces
<1> HIDE DEF r
<1>3. PoisonPlaces(r) = IF e = "poison" THEN PoisonPlaces(q) \cup {n + 1} ELSE PoisonPlaces(q)
  BY <1>1 DEF PoisonPlaces
<1>4. Cardinality(PoisonPlaces(q) \cup {n + 1}) = Poisons(q) + 1
  BY <1>2, PlacesFinite, FS_AddElement DEF Poisons
<1>5. Poisons(r) = Poisons(q) + (IF e = "poison" THEN 1 ELSE 0)
  BY <1>3, <1>4, PlacesFinite DEF Poisons
<1> QED
  BY <1>1, <1>5 DEF r

LEMMA PoisonsTail ==
  ASSUME NEW q \in Seq(Entry), q # <<>>
  PROVE  /\ Tail(q) \in Seq(Entry)
         /\ Len(Tail(q)) = Len(q) - 1 /\ Len(q) >= 1
         /\ Poisons(Tail(q)) = Poisons(q) - (IF Head(q) = "poison" THEN 1 ELSE 0)
<1> DEFINE n == Len(q)
           r == Tail(q)
           A == PoisonPlaces(q) \ {1}
           B == PoisonPlaces(r)
           f == [i \in A |-> i - 1]
<1>1. n \in Nat /\ n >= 1 /\ r \in Seq(Entry) /\ Len(r) = n - 1 /\ Head(q) = q[1]
      /\ \A i \in 1 .. n - 1 : r[i] = q[i + 1]
  OBVIOUS
<1> HIDE DEF r
<1>2. f \in Bijection(A, B)
  <2>1. A = {i \in 2 .. n : q[i] = "poison"} /\ B = {i \in 1 .. n - 1 : q[i + 1] = "poison"}
    BY <1>1 DEF PoisonPlaces
  <2>2. f \in [A -> B]
    BY <1>1, <2>1
  <2>3. \A a, b \in A : f[a] = f[b] => a = b
    BY <1>1, <2>1
  <2>4. \A b \in B : \E a \in A : f[a] = b
    <3> SUFFICES ASSUME NEW b \in B PROVE b + 1 \in A /\ f[b + 1] = b
      OBVIOUS
    <3> QED
      BY <1>1, <2>1
  <2> HIDE DEF A, B, f
  <2> QED
    BY <2>2, <2>3, <2>4 DEF Bijection, Injection, IsInjective, Surjection
<1>3. IsFiniteSet(PoisonPlaces(q)) /\ IsFiniteSet(A)
  BY PlacesFinite, FS_Subset
<1>4. Cardinality(B) = Cardinality(A)
  BY <1>2, <1>3, FS_Bijection DEF ExistsBijection
<1>5. 1 \in PoisonPlaces(q) <=> Head(q) = "poison"
  BY <1>1 DEF PoisonPlaces
<1>6. Poisons(q) \in Nat /\ Poisons(q) = Cardinality(PoisonPlaces(q))
      /\ Poisons(r) = Cardinality(B)
  BY PlacesFinite DEF Poisons
<1> HIDE DEF B, f
<1>7. Cardinality(A) = Poisons(q) - (IF Head(q) = "poison" THEN 1 ELSE 0)
  <2>1. CASE Head(q) = "poison"
    BY <1>3, <1>5, <1>6, <2>1, FS_RemoveElement
  <2>2. CASE Head(q) # "poison"
    <3>1. A = PoisonPlaces(q)
      BY <1>5, <2>2
    <3>2. Cardinality(A) = Cardinality(PoisonPlaces(q))
      BY <3>1
    <3> QED
      BY <1>6, <2>2, <3>2
  <2> QED
    BY <2>1, <2>2
<1>8. Poisons(r) = Poisons(q) - (IF Head(q) = "poison" THEN 1 ELSE 0)
  BY <1>4, <1>6, <1>7
<1> QED
  BY <1>1, <1>8 DEF r

-----------------------------------------------------------------------------
(* Type correctness: the main thread has a thread to start, the manager one to   *)
(* stop, while they are about it, and a thread at work is in active_threads.      *)

TypeInv ==
    /\ TypeOK
    /\ main \in {"load", "store", "create"} => toStart > 0
    /\ manager \in {"load", "store"} => toStop > 0
    /\ active_threads = working + left

LEMMA InitType == Init => TypeInv
<1> SUFFICES ASSUME Init PROVE TypeInv
  OBVIOUS
<1>1. service_q \in Seq({"request", "poison"})
  BY DEF Init
<1>2. lost \in BOOLEAN
  BY DEF Init
<1>3. /\ current_thread_count \in Int /\ ready \in Nat
      /\ active_threads = 0 /\ waiting = 0 /\ working = 0 /\ blocked = 0 /\ left = 0
      /\ toStart = 0 /\ mainReg = 0 /\ toStop = 0 /\ managerReg = 0
      /\ thread_check_counter = 0 /\ pushed = 0
      /\ mutex = "free" /\ fds_mutex = "free" /\ main = "select" /\ manager = "sleep" /\ handler = "none"
  BY ConstantsAssumption DEF Init
<1> QED
  BY <1>1, <1>2, <1>3 DEF TypeInv, TypeOK

LEMMA NotifyType ==
  ASSUME TypeOK, NotifyOne
  PROVE  /\ waiting' \in Nat /\ ready' \in Nat
         /\ waiting' + ready' = waiting + ready
         /\ waiting > 0 => ready' = ready + 1
         /\ waiting' <= waiting
<1>1. waiting \in Nat /\ ready \in Nat
  BY DEF TypeOK
<1>2. CASE waiting > 0
  BY <1>1, <1>2 DEF NotifyOne
<1>3. CASE ~(waiting > 0)
  BY <1>1, <1>3 DEF NotifyOne
<1> QED
  BY <1>2, <1>3

LEMMA NextType == ASSUME TypeInv, [Next]_vars PROVE TypeInv'
<1> USE DEF TypeInv, TypeOK
<1>0. service_q \in Seq(Entry) /\ Entry = {"request", "poison"}
  BY DEF Entry
<1>1. CASE Sleep
  BY <1>1 DEF Sleep, mainVars, managerVars, handlerVars
<1>2. CASE TakeRequest
  <2>1. service_q' \in Seq({"request", "poison"})
    BY <1>0, <1>2, PoisonsTail DEF TakeRequest
  <2> QED
    BY <1>2, <2>1 DEF TakeRequest, mainVars, managerVars, handlerVars
<1>3. CASE TakePoison
  <2>1. service_q' \in Seq({"request", "poison"})
    BY <1>0, <1>3, PoisonsTail DEF TakePoison
  <2> QED
    BY <1>3, <2>1 DEF TakePoison, mainVars, managerVars, handlerVars
<1>4. CASE RequestEnds
  <2>1. CASE Finish
    BY <2>1 DEF Finish, mainVars, managerVars, handlerVars
  <2>2. CASE Blocks
    BY <2>2 DEF Blocks, mainVars, managerVars, handlerVars
  <2> QED
    BY <1>4, <2>1, <2>2 DEF RequestEnds
<1>5. CASE SelectReturns
  BY <1>5 DEF SelectReturns, threadVars, managerVars, handlerVars
<1>6. CASE Divide
  BY <1>6 DEF Divide, Growth, threadVars, managerVars, handlerVars
<1>7. CASE LoadUp
  BY <1>7 DEF LoadUp, threadVars, managerVars, handlerVars
<1>8. CASE StoreUp
  BY <1>8 DEF StoreUp, threadVars, managerVars, handlerVars
<1>9. CASE CreateThread
  BY <1>9 DEF CreateThread, managerVars, handlerVars
<1>10. CASE Push
  <2>1. service_q' \in Seq({"request", "poison"})
    BY <1>0, <1>10, PoisonsAppend DEF Push
  <2> QED
    BY <1>10, <2>1 DEF Push, threadVars, managerVars, handlerVars
<1>11. CASE MainNotifies
  BY <1>11, NotifyType DEF MainNotifies, managerVars, handlerVars
<1>12. CASE SelectAgain
  BY <1>12 DEF SelectAgain, threadVars, managerVars, handlerVars
<1>13. CASE ManagerChecks
  BY <1>13, ConstantsAssumption DEF ManagerChecks, CountDown, Surplus, threadVars, mainVars, handlerVars
<1>14. CASE LoadDown
  BY <1>14 DEF LoadDown, threadVars, mainVars, handlerVars
<1>15. CASE StoreDown
  BY <1>15 DEF StoreDown, threadVars, mainVars, handlerVars
<1>16. CASE PushPoison
  <2>1. service_q' \in Seq({"request", "poison"})
    BY <1>0, <1>16, PoisonsAppend DEF PushPoison
  <2> QED
    BY <1>16, <2>1 DEF PushPoison, threadVars, mainVars, handlerVars
<1>17. CASE ManagerNotifies
  BY <1>17, NotifyType DEF ManagerNotifies, mainVars, handlerVars
<1>18. CASE Signal
  BY <1>18 DEF Signal, threadVars, mainVars, managerVars
<1>19. CASE Dismiss
  <2>1. service_q' \in Seq({"request", "poison"})
    BY <1>0, <1>19, PoisonsAppend DEF Dismiss
  <2> QED
    BY <1>19, <2>1, NotifyType DEF Dismiss, mainVars, managerVars
<1>20. CASE AllDismissed
  BY <1>20 DEF AllDismissed, threadVars, mainVars, managerVars
<1>21. CASE Nudge
  BY <1>21, NotifyType DEF Nudge, mainVars, managerVars, handlerVars
<1>22. CASE Drained
  BY <1>22 DEF Drained, threadVars, mainVars, managerVars
<1>23. CASE DeleteStore
  BY <1>23 DEF DeleteStore, threadVars, mainVars, managerVars
<1>24. CASE Exit
  BY <1>24 DEF Exit, threadVars, mainVars, managerVars
<1>25. CASE UNCHANGED vars
  BY <1>25 DEF vars, threadVars, mainVars, managerVars, handlerVars
<1> QED
  BY <1>1, <1>2, <1>3, <1>4, <1>5, <1>6, <1>7, <1>8, <1>9, <1>10, <1>11, <1>12, <1>13,
     <1>14, <1>15, <1>16, <1>17, <1>18, <1>19, <1>20, <1>21, <1>22, <1>23, <1>24, <1>25
     DEF Next, Looks, Main, Shrink, Shutdown

\* Every variable of the thread pool keeps its type.
THEOREM TypeCorrect == Spec => []TypeOK
<1>1. TypeInv => TypeOK
  BY DEF TypeInv
<1> QED
  BY <1>1, InitType, NextType, PTL DEF Spec

-----------------------------------------------------------------------------
(* The count, the limits and the end of the threads. *)

Most == MaxThreads - 1 + (MaxThreads - 1) \div 2

CountInv ==
    ~lost => /\ Live = current_thread_count - Starting + Stopping
                       + Poisons(service_q) - pushed
             /\ current_thread_count - Starting - toStop >= ServerThreads
             /\ main = "divide" => current_thread_count < MaxThreads
             /\ main \in {"load", "store", "create"} =>
                    current_thread_count + toStart - Starting <= Most
             /\ current_thread_count <= Most \/ current_thread_count <= ServerThreads

EndInv ==
    /\ manager = "sleep" => toStop = 0
    /\ handler = "none" => pushed = 0
    /\ handler \in {"drain", "grace", "deleted", "exited"} /\ ~lost =>
          pushed >= current_thread_count
    /\ handler \in {"grace", "deleted", "exited"} =>
          service_q = <<>> /\ mutex = "handler"

PoolInv == TypeInv /\ CountInv /\ EndInv /\ NoLostNotify

LEMMA InitPool == Init => PoolInv
<1> SUFFICES ASSUME Init PROVE PoolInv
  OBVIOUS
<1>1. TypeInv
  BY InitType
<1>2. Poisons(service_q) = 0
  BY NoPlaces DEF Init
<1>3. CountInv
  BY <1>2, ConstantsAssumption DEF Init, CountInv, Live, Starting, Stopping
<1>4. EndInv /\ NoLostNotify
  BY DEF Init, EndInv, NoLostNotify
<1> QED
  BY <1>1, <1>3, <1>4 DEF PoolInv

\* What the steps do to the queue.
LEMMA QueueFacts ==
  ASSUME TypeOK
  PROVE  /\ Len(service_q) \in Nat /\ Poisons(service_q) \in Nat
         /\ service_q = <<>> => Len(service_q) = 0
         /\ \A e \in Entry : service_q' = Append(service_q, e) =>
               /\ Len(service_q') = Len(service_q) + 1
               /\ Poisons(service_q') = Poisons(service_q) + (IF e = "poison" THEN 1 ELSE 0)
         /\ service_q # <<>> /\ service_q' = Tail(service_q) =>
               /\ Len(service_q') = Len(service_q) - 1 /\ Len(service_q) >= 1
               /\ Poisons(service_q') =
                    Poisons(service_q) - (IF Head(service_q) = "poison" THEN 1 ELSE 0)
<1>1. service_q \in Seq(Entry)
  BY DEF TypeOK, Entry
<1>2. Len(service_q) \in Nat /\ Poisons(service_q) \in Nat
      /\ (service_q = <<>> => Len(service_q) = 0)
  BY <1>1, PlacesFinite
<1>3. ASSUME NEW e \in Entry, service_q' = Append(service_q, e)
      PROVE  /\ Len(service_q') = Len(service_q) + 1
             /\ Poisons(service_q') = Poisons(service_q) + (IF e = "poison" THEN 1 ELSE 0)
  BY <1>1, <1>3, PoisonsAppend
<1>4. ASSUME service_q # <<>>, service_q' = Tail(service_q)
      PROVE  /\ Len(service_q') = Len(service_q) - 1 /\ Len(service_q) >= 1
             /\ Poisons(service_q') =
                  Poisons(service_q) - (IF Head(service_q) = "poison" THEN 1 ELSE 0)
  BY <1>1, <1>4, PoisonsTail
<1> QED
  BY <1>2, <1>3, <1>4

\* A store ends without a lost update only if the count is still the loaded one.
LEMMA LostFacts ==
  ASSUME lost \in BOOLEAN, NEW r, lost' = (lost \/ current_thread_count # r), ~lost'
  PROVE  ~lost /\ current_thread_count = r
  OBVIOUS

LEMMA NextPool == ASSUME PoolInv, [Next]_vars PROVE CountInv' /\ EndInv' /\ NoLostNotify'
<1> DEFINE n == Len(service_q)
           k == Poisons(service_q)
<1>0. /\ n \in Nat /\ k \in Nat /\ (service_q = <<>> => n = 0) /\ ServerThreads \in Nat
      /\ MaxThreads \in Nat /\ Most \in Int
      /\ waiting \in Nat /\ ready \in Nat /\ working \in Nat /\ blocked \in Nat
      /\ pushed \in Nat
      /\ current_thread_count \in Int /\ toStart \in Nat /\ toStop \in Nat
      /\ lost \in BOOLEAN
  BY QueueFacts, ConstantsAssumption DEF PoolInv, TypeInv, TypeOK, Most
<1>q. service_q' = service_q => Len(service_q)' = n /\ Poisons(service_q)' = k
  OBVIOUS
<1>r. "request" \in Entry /\ "poison" \in Entry
  BY DEF Entry
<1> USE DEF PoolInv, CountInv, EndInv, NoLostNotify, Live, Starting, Stopping, Notifying
<1> HIDE DEF n, k
<1>1. CASE Sleep
  BY <1>0, <1>1, <1>q DEF Sleep, mainVars, managerVars, handlerVars, n, k
<1>2. CASE TakeRequest
  <2>0. TypeOK /\ service_q # <<>> /\ service_q' = Tail(service_q)
        /\ Head(service_q) # "poison"
    BY <1>2 DEF TakeRequest, TypeInv
  <2>1. Len(service_q') = n - 1 /\ Poisons(service_q') = k - 0
    BY <2>0, QueueFacts DEF n, k
  <2>2. k - 0 = k
    BY <1>0
  <2> QED
    BY <1>0, <1>2, <2>1, <2>2 DEF TakeRequest, mainVars, managerVars, handlerVars, n, k
<1>3. CASE TakePoison
  <2>1. Len(service_q') = n - 1 /\ Poisons(service_q') = k - 1
    BY <1>0, <1>3, QueueFacts DEF TakePoison, TypeInv, n, k
  <2> QED
    BY <1>0, <1>3, <2>1 DEF TakePoison, mainVars, managerVars, handlerVars, n, k
<1>4. CASE RequestEnds
  <2>1. CASE Finish
    BY <1>0, <1>q, <2>1 DEF Finish, mainVars, managerVars, handlerVars, n, k
  <2>2. CASE Blocks
    BY <1>0, <1>q, <2>2 DEF Blocks, mainVars, managerVars, handlerVars, n, k
  <2> QED
    BY <1>4, <2>1, <2>2 DEF RequestEnds
<1>5. CASE SelectReturns
  BY <1>0, <1>5, <1>q DEF SelectReturns, threadVars, managerVars, handlerVars, n, k
<1>6. CASE Divide
  <2>1. Growth \in Int /\ (current_thread_count < MaxThreads =>
                               current_thread_count + Growth <= Most)
    BY <1>0 DEF Growth, Most
  <2> HIDE DEF Most
  <2>2. UNCHANGED <<service_q, mutex, current_thread_count, threadVars, managerVars,
                    handlerVars, lost>> /\ main = "divide" /\ handler = "none"
    BY <1>6 DEF Divide, MainRuns
  <2>3. \/ main' = "load" /\ toStart' = Growth
        \/ main' \in {"serve", "crashed"}
    BY <1>6 DEF Divide
  <2>4. /\ Starting = 0 /\ Starting' = 0 /\ Stopping' = Stopping /\ Live' = Live
        /\ Live \in Nat /\ Stopping \in 0 .. 1 /\ Poisons(service_q)' = k
    BY <1>0, <1>q, <2>2, <2>3 DEF threadVars, managerVars
  <2>5. NoLostNotify' /\ EndInv'
    BY <1>0, <1>q, <2>2, <2>3 DEF threadVars, managerVars, handlerVars, n, k
  <2> HIDE DEF Starting, Stopping, Live, EndInv, NoLostNotify
  <2>6. CASE main' = "load" /\ toStart' = Growth
    BY <1>0, <2>1, <2>2, <2>4, <2>5, <2>6 DEF threadVars, managerVars, handlerVars, k
  <2>7. CASE main' \in {"serve", "crashed"}
    BY <1>0, <2>2, <2>4, <2>5, <2>7 DEF threadVars, managerVars, handlerVars, k
  <2> QED
    BY <2>3, <2>6, <2>7
<1>7. CASE LoadUp
  BY <1>0, <1>7, <1>q DEF LoadUp, threadVars, managerVars, handlerVars, n, k
<1>8. CASE StoreUp
  <2>1. UNCHANGED <<service_q, mutex, threadVars, managerVars, handlerVars, toStart>>
        /\ main = "store" /\ main' = "create" /\ handler = "none"
        /\ current_thread_count' = mainReg + 1
    BY <1>8 DEF StoreUp, MainRuns
  <2>2. ~lost' => ~lost /\ current_thread_count = mainReg
    BY <1>0, <1>8, LostFacts DEF StoreUp
  <2>3. toStart > 0
    BY <2>1 DEF TypeInv
  <2>4. EndInv' /\ NoLostNotify'
    BY <1>0, <1>q, <2>1 DEF threadVars, managerVars, handlerVars, n, k
  <2>5. /\ Starting = 0 /\ Starting' = 1 /\ Stopping' = Stopping /\ Live' = Live
        /\ Live \in Nat /\ Stopping \in 0 .. 1 /\ Poisons(service_q)' = k
    BY <1>0, <1>q, <2>1 DEF threadVars, managerVars
  <2> HIDE DEF Starting, Stopping, Live, EndInv, NoLostNotify
  <2>6. Poisons(service_q) = k /\ pushed' = pushed /\ toStop' = toStop /\ toStart' = toStart
    BY <2>1 DEF k, threadVars, managerVars, handlerVars
  <2>7. ASSUME ~lost'
        PROVE  /\ Live = current_thread_count - 0 + Stopping + k - pushed
               /\ current_thread_count - 0 - toStop >= ServerThreads
               /\ current_thread_count + toStart <= Most
               /\ current_thread_count' = current_thread_count + 1
    <3>1. ~lost /\ current_thread_count = mainReg
      BY <2>2, <2>7
    <3>2. /\ Live = current_thread_count - Starting + Stopping + Poisons(service_q) - pushed
          /\ current_thread_count - Starting - toStop >= ServerThreads
          /\ current_thread_count + toStart - Starting <= Most
      BY <3>1, <2>1
    <3>3. current_thread_count' = current_thread_count + 1
      BY <2>1, <3>1
    <3> QED
      BY ONLY <3>2, <3>3, <1>0, <2>5, <2>6
  <2>8. CountInv'
    <3> SUFFICES ASSUME ~lost'
                 PROVE  /\ Live' = current_thread_count' - 1 + Stopping + k - pushed
                        /\ current_thread_count' - 1 - toStop >= ServerThreads
                        /\ current_thread_count' + toStart - 1 <= Most
      BY <1>0, <2>1, <2>3, <2>5, <2>6
    <3>1. ~lost'
      OBVIOUS
    <3> QED
      BY ONLY <3>1, <2>7, <2>5, <1>0
  <2> QED
    BY <2>4, <2>8
<1>9. CASE CreateThread
  BY <1>0, <1>9, <1>q DEF CreateThread, managerVars, handlerVars, TypeInv, n, k
<1>10. CASE Push
  <2>1. Len(service_q') = n + 1 /\ Poisons(service_q') = k
    BY <1>0, <1>r, <1>10, QueueFacts DEF Push, TypeInv, n, k
  <2> QED
    BY <1>0, <1>10, <2>1 DEF Push, threadVars, managerVars, handlerVars, n, k
<1>11. CASE MainNotifies
  <2>1. NotifyOne
    BY <1>11 DEF MainNotifies
  <2>2. /\ waiting' \in Nat /\ ready' \in Nat /\ waiting' + ready' = waiting + ready
        /\ (waiting > 0 => ready' = ready + 1) /\ waiting' <= waiting
    BY <2>1, NotifyType DEF TypeInv
  <2>3. UNCHANGED <<service_q, mutex, current_thread_count, working, blocked, toStart,
                    managerVars, handlerVars, lost>> /\ main = "notify" /\ main' = "serve"
    BY <1>11 DEF MainNotifies
  <2>4. EndInv' /\ NoLostNotify'
    BY <1>0, <1>q, <2>2, <2>3 DEF managerVars, handlerVars, n
  <2>5. waiting' + ready' + working' + blocked' = waiting + ready + working + blocked
    BY <1>0, <2>2, <2>3
  <2>6. CountInv'
    BY <1>0, <1>q, <2>3, <2>5 DEF managerVars, handlerVars, k
  <2> QED
    BY <2>4, <2>6
<1>12. CASE SelectAgain
  BY <1>0, <1>12, <1>q DEF SelectAgain, threadVars, managerVars, handlerVars, n, k
<1>13. CASE ManagerChecks
  <2>1. current_thread_count - Starting - ServerThreads >= 0 /\ Surplus > 0 =>
           current_thread_count - Starting - Surplus >= ServerThreads
    BY <1>0 DEF Surplus
  <2> QED
    BY <1>0, <1>13, <1>q, <2>1 DEF ManagerChecks, threadVars, mainVars, handlerVars, n, k
<1>14. CASE LoadDown
  BY <1>0, <1>14, <1>q DEF LoadDown, threadVars, mainVars, handlerVars, n, k
<1>15. CASE StoreDown
  <2>1. UNCHANGED <<service_q, mutex, threadVars, mainVars, handlerVars>>
        /\ manager = "store" /\ manager' = "push" /\ toStop' = toStop - 1
        /\ current_thread_count' = managerReg - 1
    BY <1>15 DEF StoreDown
  <2>2. ~lost' => ~lost /\ current_thread_count = managerReg
    BY <1>0, <1>15, LostFacts DEF StoreDown
  <2>3. EndInv' /\ NoLostNotify'
    BY <1>0, <1>q, <2>1, <2>2 DEF threadVars, mainVars, handlerVars, n, k
  <2>4. /\ Starting' = Starting /\ Stopping = 0 /\ Stopping' = 1 /\ Live' = Live
        /\ Live \in Nat /\ Starting \in 0 .. 1 /\ Poisons(service_q)' = k
    BY <1>0, <1>q, <2>1 DEF threadVars, mainVars
  <2> HIDE DEF Starting, Stopping, Live, EndInv, NoLostNotify
  <2>5. CountInv'
    <3> SUFFICES ASSUME ~lost' PROVE CountInv'
      BY DEF CountInv
    <3>1. ~lost /\ current_thread_count' = current_thread_count - 1
          /\ main' = main /\ toStart' = toStart /\ toStop' = toStop - 1 /\ pushed' = pushed
      BY <2>1, <2>2 DEF mainVars, handlerVars
    <3> QED
      BY <1>0, <2>4, <3>1 DEF k
  <2> QED
    BY <2>3, <2>5
<1>16. CASE PushPoison
  <2>1. Len(service_q') = n + 1 /\ Poisons(service_q') = k + 1
    BY <1>0, <1>r, <1>16, QueueFacts DEF PushPoison, TypeInv, n, k
  <2>2. UNCHANGED <<mutex, current_thread_count, threadVars, mainVars, toStop, handlerVars,
                    lost>> /\ manager = "push" /\ manager' = "notify" /\ mutex = "free"
    BY <1>16 DEF PushPoison
  <2>3. CountInv'
    BY <1>0, <2>1, <2>2 DEF threadVars, mainVars, handlerVars, n, k
  <2>4. EndInv' /\ NoLostNotify'
    BY <1>0, <2>1, <2>2 DEF threadVars, mainVars, handlerVars, n, k
  <2> QED
    BY <2>3, <2>4
<1>17. CASE ManagerNotifies
  <2>1. NotifyOne
    BY <1>17 DEF ManagerNotifies
  <2> QED
    BY <1>0, <1>17, <1>q, <2>1, NotifyType
       DEF ManagerNotifies, mainVars, handlerVars, TypeInv, n, k
<1>18. CASE Signal
  BY <1>0, <1>18, <1>q DEF Signal, MainRuns, threadVars, mainVars, managerVars, n, k
<1>19. CASE Dismiss
  <2>1. Len(service_q') = n + 1 /\ Poisons(service_q') = k + 1
    BY <1>0, <1>r, <1>19, QueueFacts DEF Dismiss, TypeInv, n, k
  <2>2. NotifyOne
    BY <1>19 DEF Dismiss
  <2>3. /\ waiting' \in Nat /\ ready' \in Nat /\ waiting' + ready' = waiting + ready
        /\ (waiting > 0 => ready' = ready + 1) /\ waiting' <= waiting
    BY <2>2, NotifyType DEF TypeInv
  <2>4. UNCHANGED <<mutex, current_thread_count, working, blocked, mainVars, managerVars,
                    handler, lost>>
        /\ handler = "push" /\ mutex = "free" /\ pushed' = pushed + 1
    BY <1>19 DEF Dismiss
  <2>5. EndInv' /\ NoLostNotify'
    BY <1>0, <2>1, <2>3, <2>4 DEF mainVars, managerVars, n, k
  <2>6. /\ Starting' = Starting /\ Stopping' = Stopping
        /\ Starting \in 0 .. 1 /\ Stopping \in 0 .. 1
    BY <2>4 DEF mainVars, managerVars
  <2> HIDE DEF PoolInv, CountInv, EndInv, NoLostNotify, Starting, Stopping
  <2>8. Live' = Live /\ Live \in Nat
    <3>1. working' = working /\ blocked' = blocked
      BY <2>4
    <3>2. waiting \in Nat /\ ready \in Nat /\ working \in Nat /\ blocked \in Nat
      BY <1>0
    <3>3. waiting' \in Nat /\ ready' \in Nat /\ waiting' + ready' = waiting + ready
      BY <2>3
    <3>4. waiting' + ready' + working' + blocked' = waiting + ready + working + blocked
      BY <3>1, <3>2, <3>3
    <3> QED
      BY <3>2, <3>4
  <2>9. Poisons(service_q)' = k + 1
    BY <2>1
  <2> HIDE DEF Live
  <2> USE DEF PoolInv, CountInv
  <2>7. CountInv'
    BY <1>0, <2>4, <2>6, <2>8, <2>9 DEF mainVars, managerVars, k
  <2> QED
    BY <2>5, <2>7
<1>20. CASE AllDismissed
  BY <1>0, <1>20, <1>q DEF AllDismissed, threadVars, mainVars, managerVars, n, k
<1>21. CASE Nudge
  <2>1. NotifyOne
    BY <1>21 DEF Nudge
  <2>2. /\ waiting' \in Nat /\ ready' \in Nat /\ waiting' + ready' = waiting + ready
        /\ (waiting > 0 => ready' = ready + 1) /\ waiting' <= waiting
    BY <2>1, NotifyType DEF TypeInv
  <2>3. UNCHANGED <<service_q, mutex, current_thread_count, working, blocked, mainVars,
                    managerVars, handlerVars, lost>>
    BY <1>21 DEF Nudge
  <2>4. EndInv' /\ NoLostNotify'
    BY <1>0, <1>q, <2>2, <2>3 DEF mainVars, managerVars, handlerVars, n
  <2>5. waiting' + ready' + working' + blocked' = waiting + ready + working + blocked
    BY <1>0, <2>2, <2>3
  <2>6. CountInv'
    BY <1>0, <1>q, <2>3, <2>5 DEF mainVars, managerVars, handlerVars, k
  <2> QED
    BY <2>4, <2>6
<1>22. CASE Drained
  BY <1>0, <1>22, <1>q DEF Drained, threadVars, mainVars, managerVars, n, k
<1>23. CASE DeleteStore
  BY <1>0, <1>23, <1>q DEF DeleteStore, threadVars, mainVars, managerVars, n, k
<1>24. CASE Exit
  BY <1>0, <1>24, <1>q DEF Exit, threadVars, mainVars, managerVars, n, k
<1>25. CASE UNCHANGED vars
  BY <1>0, <1>25, <1>q DEF vars, threadVars, mainVars, managerVars, handlerVars, n, k
<1> QED
  BY <1>1, <1>2, <1>3, <1>4, <1>5, <1>6, <1>7, <1>8, <1>9, <1>10, <1>11, <1>12, <1>13,
     <1>14, <1>15, <1>16, <1>17, <1>18, <1>19, <1>20, <1>21, <1>22, <1>23, <1>24, <1>25
     DEF Next, Looks, Main, Shrink, Shutdown

LEMMA PoolAlways == Spec => []PoolInv
<1>1. PoolInv /\ [Next]_vars => PoolInv'
  BY NextType, NextPool DEF PoolInv
<1> QED
  BY <1>1, InitPool, PTL DEF Spec

\* Threads, count, poison entries and active_threads agree.
THEOREM Accounting == Spec => []Accounted
<1>1. PoolInv => Accounted
  BY DEF PoolInv, CountInv, TypeInv, Accounted
<1> QED
  BY <1>1, PoolAlways, PTL

\* No entry of the queue is forgotten while a thread sleeps.
THEOREM NotifyNotLost == Spec => []NoLostNotify
<1>1. PoolInv => NoLostNotify
  BY DEF PoolInv
<1> QED
  BY <1>1, PoolAlways, PTL

\* The pool neither shrinks below its first size nor grows past its bound.
THEOREM LimitsKept == Spec => []WithinLimits
<1>1. ASSUME PoolInv PROVE WithinLimits
  <2> SUFFICES ASSUME ~lost, handler = "none"
               PROVE  LET kept == Live - Poisons(service_q) - Stopping
                      IN  /\ kept >= ServerThreads
                          /\ kept <= Most \/ kept <= ServerThreads
    BY DEF WithinLimits, Most
  <2>1. /\ Poisons(service_q) \in Nat /\ current_thread_count \in Int /\ toStop \in Nat
        /\ ServerThreads \in Nat /\ Most \in Int
        /\ Starting \in 0 .. 1 /\ Stopping \in 0 .. 1
    BY <1>1, QueueFacts, ConstantsAssumption
       DEF PoolInv, TypeInv, TypeOK, Starting, Stopping, Most
  <2>2. /\ Live = current_thread_count - Starting + Stopping + Poisons(service_q) - pushed
        /\ current_thread_count - Starting - toStop >= ServerThreads
        /\ current_thread_count <= Most \/ current_thread_count <= ServerThreads
        /\ pushed = 0
    BY <1>1 DEF PoolInv, CountInv, EndInv
  <2> QED
    BY <2>1, <2>2
<1> QED
  BY <1>1, PoolAlways, PTL

\* All threads have ended when the store is deleted, but for the two exceptions.
THEOREM StoreOutlivesThreads == Spec => []StoreOutlives
<1>1. ASSUME PoolInv PROVE StoreOutlives
  <2> SUFFICES ASSUME handler = "deleted", ~lost, manager # "push" PROVE Live = 0
    BY DEF StoreOutlives
  <2>1. service_q = <<>> /\ pushed >= current_thread_count
    BY <1>1 DEF PoolInv, EndInv
  <2>2. Poisons(service_q) = 0
    BY <2>1, NoPlaces
  <2>3. Live = current_thread_count - Starting + Poisons(service_q) - pushed
    BY <1>1, <2>2 DEF PoolInv, CountInv, Stopping, Starting, Live, TypeInv, TypeOK
  <2>4. Live \in Nat /\ Starting \in 0 .. 1 /\ current_thread_count \in Int /\ pushed \in Nat
    BY <1>1 DEF PoolInv, TypeInv, TypeOK, Live, Starting
  <2> QED
    BY <2>1, <2>2, <2>3, <2>4
<1> QED
  BY <1>1, PoolAlways, PTL

=============================================================================
