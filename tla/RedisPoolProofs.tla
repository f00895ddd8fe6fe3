---------------------------- MODULE RedisPoolProofs ----------------------------
(* Theorems about RedisPool, for every value of its constants. *)
EXTENDS RedisPool, PoolSequences, FiniteSetTheorems, TLAPS

-----------------------------------------------------------------------------
(* Type correctness.  It needs to know which stages hold a connection, and that *)
(* the cleaner's call runs only while the cleaner stands still.                  *)

HoldsNone == {"ready", "get", "wait", "users", "listing"}
HoldsOne == {"test", "command", "accounts", "fetching"}

StageHeld ==
    \A p \in Procs : /\ stage[p] \in HoldsNone => held[p] = NoConn
                     /\ stage[p] \in HoldsOne => held[p] \in Conns

CallIdle == stage[Cleaner] \notin {"listing", "fetching"} => stage[Call] = "ready"

TypeInv == TypeOK /\ StageHeld /\ CallIdle

\* When the manager shrinks the pool there are enough idle connections to close
\* and the counter does not fall below the minimum.
ShrinkSafe ==
    Quiet => ToClose >= 1 /\ ToClose <= Len(connections)
             /\ currentConnections - ToClose >= MinConnections

\* The connection manager's arithmetic: what it decides to close is there.
LEMMA ShrinkArithmetic == TypeOK => ShrinkSafe
<1> SUFFICES ASSUME TypeOK, Quiet
             PROVE  /\ ToClose >= 1 /\ ToClose <= Len(connections)
                    /\ currentConnections - ToClose >= MinConnections
  BY DEF ShrinkSafe
<1> DEFINE n == currentConnections
           l == Len(connections)
<1>1. n \in Int /\ l \in Nat /\ MinConnections \in Nat
  BY PoolAssumption DEF TypeOK
<1>2. n > MinConnections /\ ~(5 * (n - l) > n)
  BY DEF Quiet, Busy, InUse
<1> DEFINE part == (2 * (n - MinConnections)) \div 5
<1>3. part \in Int /\ 5 * part <= 2 * (n - MinConnections)
      /\ 2 * (n - MinConnections) < 5 * part + 5
  BY <1>1
<1>4. ToClose = IF part < 1 THEN n - MinConnections ELSE part
  BY DEF ToClose
<1> HIDE DEF n, l, part
<1>5. CASE part < 1
  BY <1>1, <1>2, <1>3, <1>4, <1>5 DEF n, l
<1>6. CASE part >= 1
  BY <1>1, <1>2, <1>3, <1>4, <1>6 DEF n, l
<1> QED
  BY <1>3, <1>5, <1>6

\* Taking an idle connection.
LEMMA PopFacts ==
  ASSUME TypeOK, NEW p \in Procs, connections # <<>>, Pop(p)
  PROVE  \E c \in Conns :
            /\ held' = [held EXCEPT ![p] = c]
            /\ connections' \in Seq(Conns) /\ Len(connections') = Len(connections) - 1
            /\ Idle = Idle' \cup {c}
            /\ Distinct(connections) => Distinct(connections') /\ c \notin Idle'
            /\ \E s \in {"test", Use(p)} : stage' = [stage EXCEPT ![p] = s]
            /\ testConn' \in [Procs -> BOOLEAN] /\ frames' \in [Procs -> Nat]
<1> DEFINE n == Len(connections)
           c == connections[n]
<1>1. connections \in Seq(Conns) /\ n \in Nat /\ n >= 1 /\ c \in Conns
  BY DEF TypeOK
<1>2. SubSeq(connections, 1, n - 1) = Kept(connections, 1) /\ Cut(connections, 1) = {c}
  BY <1>1 DEF Kept, Cut
<1> DEFINE r == Kept(connections, 1)
<1>3. /\ r \in Seq(Conns) /\ Len(r) = n - 1 /\ Elems(connections) = Elems(r) \cup {c}
      /\ Distinct(connections) => Distinct(r) /\ c \notin Elems(r)
  <2>1. 1 \in 0 .. Len(connections)
    BY <1>1
  <2> QED
    BY <1>1, <1>2, <2>1, CutElems
<1>4. held' = [held EXCEPT ![p] = c] /\ connections' = r
  BY <1>2 DEF Pop
<1>5. \E s \in {"test", Use(p)} : stage' = [stage EXCEPT ![p] = s]
  BY DEF Pop, Check, Goto
<1>6. testConn' \in [Procs -> BOOLEAN] /\ frames' \in [Procs -> Nat]
  <2>1. CASE testConn[p]
    <3>1. testConn' = testConn /\ frames' = [frames EXCEPT ![p] = frames[p] + 1]
      BY <2>1 DEF Pop, Check
    <3>2. testConn \in [Procs -> BOOLEAN] /\ frames \in [Procs -> Nat] /\ frames[p] + 1 \in Nat
      BY DEF TypeOK
    <3> QED
      BY <3>1, <3>2
  <2>2. CASE ~testConn[p]
    <3>1. TestNext(p) \in BOOLEAN
      BY DEF TestNext, TypeOK
    <3> QED
      BY <2>2, <3>1 DEF Pop, Check, TypeOK
  <2> QED
    BY <2>1, <2>2
<1>7. Idle = Elems(connections) /\ Idle' = Elems(connections')
  BY DEF Idle, Elems
<1> QED
  BY <1>1, <1>3, <1>4, <1>5, <1>6, <1>7

\* The parts of TypeInv that a step of thread p from stage a to stage b keeps.
LEMMA Moved ==
  ASSUME TypeInv, NEW p \in Procs, NEW s \in Stages,
         s \notin {"users", "listing", "fetching"} \/ (p = Cleaner /\ s = "users"),
         stage[p] \notin {"listing", "fetching"},
         stage' = [stage EXCEPT ![p] = s],
         p = Call => stage[p] # "ready",
         NEW h \in Conns \cup {NoConn}, held' = [held EXCEPT ![p] = h],
         s \in HoldsNone => h = NoConn, s \in HoldsOne => h \in Conns
  PROVE  /\ stage' \in [Procs -> Stages] /\ held' \in [Procs -> Conns \cup {NoConn}]
         /\ StageHeld' /\ CallIdle'
<1>1. stage \in [Procs -> Stages] /\ held \in [Procs -> Conns \cup {NoConn}]
  BY DEF TypeInv, TypeOK
<1>2. stage' \in [Procs -> Stages] /\ held' \in [Procs -> Conns \cup {NoConn}]
  BY <1>1
<1>3. StageHeld'
  BY <1>1 DEF TypeInv, StageHeld
<1>4. CallIdle'
  <2>1. Cleaner \in Procs /\ Call \in Procs /\ Cleaner # Call
    BY PoolAssumption DEF Procs
  <2> QED
    BY <1>1, <2>1 DEF TypeInv, CallIdle
<1> QED
  BY <1>2, <1>3, <1>4

LEMMA NotifyType ==
  ASSUME NEW S, NEW w \in SUBSET S, NotifyOne(w)
  PROVE  waiting' \subseteq S
BY DEF NotifyOne

LEMMA GiveBackType ==
  ASSUME TypeOK, NEW c \in Conns \cup {NoConn}, GiveBack(c)
  PROVE  /\ connections' \in Seq(Conns) /\ currentConnections' \in Int
         /\ health' \in [Conns -> {"none", "good", "dead", "err"}]
<1>1. /\ connections \in Seq(Conns) /\ currentConnections \in Int
      /\ health \in [Conns -> {"none", "good", "dead", "err"}]
  BY DEF TypeOK
<1>2. CASE c # NoConn /\ health[c] # "err" /\ connections' = Append(connections, c)
           /\ UNCHANGED <<health, currentConnections>>
  <2>1. c \in Conns
    BY <1>2
  <2> QED
    BY <1>1, <1>2, <2>1, PushElems
<1>3. CASE c # NoConn /\ health' = [health EXCEPT ![c] = "none"]
           /\ currentConnections' = currentConnections - 1 /\ UNCHANGED connections
  BY <1>1, <1>3
<1>4. CASE currentConnections' = currentConnections - 1 /\ UNCHANGED <<connections, health>>
  BY <1>1, <1>4
<1> QED
  BY <1>2, <1>3, <1>4 DEF GiveBack

LEMMA StepType ==
  ASSUME TypeInv, NEW p \in Procs, Step(p)
  PROVE  TypeInv'
<1> USE DEF TypeInv
<1>0. /\ stage[p] \in Stages /\ held[p] \in Conns \cup {NoConn} /\ waiting \in SUBSET Procs
      /\ stage[p] \in HoldsNone => held[p] = NoConn
      /\ stage[p] \in HoldsOne => held[p] \in Conns
      /\ {"get", "wait", "users"} \subseteq HoldsNone
      /\ {"test", "command", "accounts"} \subseteq HoldsOne
      /\ held = [held EXCEPT ![p] = held[p]]
      /\ "release" \notin HoldsNone \cup HoldsOne
      /\ {"get", "wait", "users", "ready", "test", "command", "accounts", "release"} \subseteq Stages
  BY DEF TypeOK, StageHeld, Stages, HoldsNone, HoldsOne
<1>u. Use(p) \in {"accounts", "command"} /\ TestNext(p) \in BOOLEAN
  BY DEF Use, TestNext, TypeOK
<1>1. CASE GetIdle(p)
  <2>1. stage[p] = "get" /\ connections # <<>> /\ Pop(p) /\ NotifyOne(waiting)
        /\ UNCHANGED <<redis, health, currentConnections, op, attempt, success, managerVars>>
    BY <1>1 DEF GetIdle
  <2>2. PICK c \in Conns : /\ held' = [held EXCEPT ![p] = c] /\ connections' \in Seq(Conns)
                           /\ \E s \in {"test", Use(p)} : stage' = [stage EXCEPT ![p] = s]
                           /\ testConn' \in [Procs -> BOOLEAN] /\ frames' \in [Procs -> Nat]
    BY <2>1, PopFacts
  <2>3. PICK s \in {"test", Use(p)} : stage' = [stage EXCEPT ![p] = s]
    BY <2>2
  <2>4. StageHeld' /\ CallIdle' /\ stage' \in [Procs -> Stages] /\ held' \in [Procs -> Conns \cup {NoConn}]
    BY <1>0, <1>u, <2>1, <2>2, <2>3, Moved DEF HoldsNone, HoldsOne, Stages
  <2>5. waiting' \subseteq Procs
    BY <1>0, <2>1, NotifyType
  <2> QED
    BY <2>1, <2>2, <2>4, <2>5 DEF TypeOK, managerVars
<1>2. CASE GetNew(p)
  <2>1. PICK c \in Unopened : health' = [health EXCEPT ![c] = "good"] /\ held' = [held EXCEPT ![p] = c]
    BY <1>2 DEF GetNew
  <2>2. PICK s \in {"test", Use(p)} : stage' = [stage EXCEPT ![p] = s]
    BY <1>2 DEF GetNew, Goto
  <2>3. stage[p] = "get" /\ c \in Conns
    BY <1>2 DEF GetNew, Unopened
  <2>4. StageHeld' /\ CallIdle' /\ stage' \in [Procs -> Stages] /\ held' \in [Procs -> Conns \cup {NoConn}]
    BY <1>0, <1>u, <2>1, <2>2, <2>3, Moved DEF HoldsNone, HoldsOne, Stages
  <2>5. waiting' \subseteq Procs
    BY <1>0, <1>2, NotifyType DEF GetNew
  <2>6. testConn' \in [Procs -> BOOLEAN]
    BY <1>2, <1>u DEF GetNew, TypeOK
  <2>7. health' \in [Conns -> {"none", "good", "dead", "err"}] /\ currentConnections' \in Int
    BY <1>2, <2>1, <2>3 DEF GetNew, TypeOK
  <2> QED
    BY <1>2, <2>4, <2>5, <2>6, <2>7 DEF GetNew, TypeOK, managerVars
<1>3. CASE GetThrows(p)
  <2>1. stage' = [stage EXCEPT ![p] = "release"] /\ held' = [held EXCEPT ![p] = held[p]] /\ stage[p] = "get"
    BY <1>0, <1>3 DEF GetThrows, Goto
  <2>2. StageHeld' /\ CallIdle' /\ stage' \in [Procs -> Stages] /\ held' \in [Procs -> Conns \cup {NoConn}]
    BY <1>0, <2>1, Moved DEF HoldsNone, HoldsOne, Stages
  <2>3. waiting' \subseteq Procs
    BY <1>0, <1>3, NotifyType DEF GetThrows
  <2>5. success' \in [Procs -> BOOLEAN] /\ testConn' \in [Procs -> BOOLEAN] /\ frames' \in [Procs -> Nat]
    BY <1>3 DEF GetThrows, TypeOK
  <2> QED
    BY <1>3, <2>2, <2>3, <2>5 DEF GetThrows, TypeOK, managerVars
<1>4. CASE Wait(p)
  <2>1. stage' = [stage EXCEPT ![p] = "wait"] /\ held' = [held EXCEPT ![p] = held[p]] /\ stage[p] = "get"
    BY <1>0, <1>4 DEF Wait, Goto
  <2>2. StageHeld' /\ CallIdle' /\ stage' \in [Procs -> Stages] /\ held' \in [Procs -> Conns \cup {NoConn}]
    BY <1>0, <2>1, Moved DEF HoldsNone, HoldsOne, Stages
  <2> QED
    BY <1>4, <2>2 DEF Wait, TypeOK, managerVars
<1>5. CASE Woken(p)
  <2>1. CASE connections # <<>> /\ Pop(p) /\ NotifyOne(waiting)
    <3>1. PICK c \in Conns : /\ held' = [held EXCEPT ![p] = c] /\ connections' \in Seq(Conns)
                             /\ \E s \in {"test", Use(p)} : stage' = [stage EXCEPT ![p] = s]
                             /\ testConn' \in [Procs -> BOOLEAN] /\ frames' \in [Procs -> Nat]
      BY <2>1, PopFacts
    <3>2. PICK s \in {"test", Use(p)} : stage' = [stage EXCEPT ![p] = s]
      BY <3>1
    <3>3. stage[p] = "wait"
      BY <1>5 DEF Woken
    <3>4. StageHeld' /\ CallIdle' /\ stage' \in [Procs -> Stages] /\ held' \in [Procs -> Conns \cup {NoConn}]
      BY <1>0, <1>u, <3>1, <3>2, <3>3, Moved DEF HoldsNone, HoldsOne, Stages
    <3>5. waiting' \subseteq Procs
      BY <1>0, <2>1, NotifyType
    <3> QED
      BY <1>5, <3>1, <3>4, <3>5 DEF Woken, TypeOK, managerVars
  <2>2. CASE waiting' = waiting \cup {p} /\ UNCHANGED <<connections, stage, held, testConn, frames>>
    BY <1>5, <2>2 DEF Woken, TypeOK, managerVars, StageHeld, CallIdle
  <2> QED
    BY <1>5, <2>1, <2>2 DEF Woken
<1>6. CASE TestPasses(p)
  <2>1. held' = [held EXCEPT ![p] = held[p]] /\ stage[p] = "test"
    BY <1>0, <1>6 DEF TestPasses
  <2>2. PICK s \in {"test", Use(p)} : stage' = [stage EXCEPT ![p] = s]
    <3>1. CASE UNCHANGED stage
      BY <1>0, <2>1, <3>1 DEF TypeOK
    <3>2. CASE Goto(p, Use(p))
      BY <3>2 DEF Goto
    <3> QED
      BY <1>6, <3>1, <3>2 DEF TestPasses
  <2>3. StageHeld' /\ CallIdle' /\ stage' \in [Procs -> Stages] /\ held' \in [Procs -> Conns \cup {NoConn}]
    BY <1>0, <1>u, <2>1, <2>2, Moved DEF HoldsNone, HoldsOne, Stages
  <2>4. testConn' \in [Procs -> BOOLEAN]
    BY <1>6, <1>u DEF TestPasses, TypeOK
  <2>5. frames' \in [Procs -> Nat]
    <3>1. frames \in [Procs -> Nat] /\ (IF frames[p] > 0 THEN frames[p] - 1 ELSE 0) \in Nat
      BY DEF TypeOK
    <3>2. frames' = [frames EXCEPT ![p] = IF frames[p] > 0 THEN frames[p] - 1 ELSE 0]
      BY <1>6 DEF TestPasses
    <3> QED
      BY <3>1, <3>2
  <2> QED
    BY <1>6, <2>3, <2>4, <2>5 DEF TestPasses, TypeOK, managerVars, poolVars
<1>7. CASE TestBreaks(p)
  BY <1>0, <1>7 DEF TestBreaks, TypeOK, StageHeld, CallIdle, threadVars, managerVars
<1>8. CASE TestFails(p)
  <2>1. stage' = [stage EXCEPT ![p] = "get"] /\ held' = [held EXCEPT ![p] = NoConn] /\ stage[p] = "test"
    BY <1>8 DEF TestFails, Goto
  <2>2. StageHeld' /\ CallIdle' /\ stage' \in [Procs -> Stages] /\ held' \in [Procs -> Conns \cup {NoConn}]
    BY <1>0, <2>1, Moved DEF HoldsNone, HoldsOne, Stages
  <2>3. waiting' \subseteq Procs
    BY <1>0, <1>8, NotifyType DEF TestFails
  <2>4. /\ connections' \in Seq(Conns) /\ currentConnections' \in Int
        /\ health' \in [Conns -> {"none", "good", "dead", "err"}]
    BY <1>0, <1>8, GiveBackType DEF TestFails
  <2> QED
    BY <1>8, <2>2, <2>3, <2>4 DEF TestFails, TypeOK, managerVars
<1>9. CASE Command(p)
  <2>1. held' = [held EXCEPT ![p] = held[p]] /\ stage[p] = "command"
    BY <1>0, <1>9 DEF Command
  <2>2. PICK s \in {"release", "accounts"} : stage' = [stage EXCEPT ![p] = s]
    BY <1>9 DEF Command, Goto
  <2>3. StageHeld' /\ CallIdle' /\ stage' \in [Procs -> Stages] /\ held' \in [Procs -> Conns \cup {NoConn}]
    BY <1>0, <2>1, <2>2, Moved DEF HoldsNone, HoldsOne, Stages
  <2>4. success' \in [Procs -> BOOLEAN] /\ testConn' \in [Procs -> BOOLEAN]
    <3>1. TestAfter(p) \subseteq BOOLEAN
      BY DEF TestAfter, TypeOK
    <3>2. CASE health[held[p]] = "dead"
      BY <1>9, <3>1, <3>2 DEF Command, TypeOK
    <3>3. CASE health[held[p]] = "good"
      BY <1>9, <3>3 DEF Command, Accepted, TypeOK
    <3> QED
      BY <1>9, <3>2, <3>3 DEF Command
  <2>5. health' \in [Conns -> {"none", "good", "dead", "err"}]
    BY <1>0, <1>9 DEF Command, TypeOK
  <2>6. old_users' \in Nat
    <3>1. \/ UNCHANGED old_users
          \/ old_users' = IF old_users > 0 THEN old_users - 1 ELSE 0
      BY <1>9 DEF Command
    <3> QED
      BY <3>1 DEF TypeOK
  <2> QED
    BY <1>9, <2>3, <2>4, <2>5, <2>6 DEF Command, TypeOK
<1>10. CASE Release(p)
  <2>0. stage[p] = "release" /\ held' = [held EXCEPT ![p] = NoConn]
    BY <1>10 DEF Release
  <2>1. PICK s \in {"users", "get", "ready"} : /\ stage' = [stage EXCEPT ![p] = s]
                                               /\ s = "users" => p = Cleaner
    BY <1>10 DEF Release, Goto
  <2>2. StageHeld' /\ CallIdle' /\ stage' \in [Procs -> Stages] /\ held' \in [Procs -> Conns \cup {NoConn}]
    <3>1. s \in HoldsNone /\ s \notin HoldsOne /\ s \in Stages
      BY DEF HoldsNone, HoldsOne, Stages
    <3> QED
      BY <1>0, <2>0, <2>1, <3>1, Moved
  <2>3. waiting' \subseteq Procs
    BY <1>0, <1>10, NotifyType DEF Release
  <2>4. /\ connections' \in Seq(Conns) /\ currentConnections' \in Int
        /\ health' \in [Conns -> {"none", "good", "dead", "err"}]
    BY <1>0, <1>10, GiveBackType DEF Release
  <2>5. attempt' \in [Procs -> Nat] /\ success' \in [Procs -> BOOLEAN]
    <3>1. \/ attempt' = [attempt EXCEPT ![p] = attempt[p] + 1] /\ success' = [success EXCEPT ![p] = TRUE]
          \/ UNCHANGED <<attempt, success>>
      BY <1>10 DEF Release
    <3>2. attempt \in [Procs -> Nat] /\ success \in [Procs -> BOOLEAN] /\ attempt[p] + 1 \in Nat
      BY DEF TypeOK
    <3> HIDE DEF TypeInv
    <3>3. attempt' \in [Procs -> Nat]
      BY <3>1, <3>2
    <3>4. success' \in [Procs -> BOOLEAN]
      BY <3>1, <3>2
    <3> QED
      BY <3>3, <3>4
  <2> QED
    BY <1>10, <2>2, <2>3, <2>4, <2>5 DEF Release, TypeOK, managerVars
<1> QED
  BY <1>1, <1>2, <1>3, <1>4, <1>5, <1>6, <1>7, <1>8, <1>9, <1>10 DEF Step

\* What the manager's shrinking step does to the pool.
Shrinks ==
    /\ Quiet /\ manager /\ conns_to_close = {}
    /\ connections' = Kept(connections, ToClose)
    /\ conns_to_close' = Cut(connections, ToClose)
    /\ currentConnections' = currentConnections - ToClose

LEMMA ManagerCases ==
  ASSUME ManagerChecks
  PROVE  /\ NotifyOne(waiting) /\ UNCHANGED <<redis, health, threadVars, manager, old_users>>
         /\ \/ UNCHANGED <<connections, currentConnections, conns_to_close>>
            \/ Shrinks
BY DEF ManagerChecks, Shrinks, Kept, Cut

LEMMA ShrinkFacts ==
  ASSUME TypeOK, Shrinks
  PROVE  /\ ToClose \in 0 .. Len(connections)
         /\ connections' \in Seq(Conns) /\ Len(connections') = Len(connections) - ToClose
         /\ conns_to_close' \subseteq Conns /\ Idle = Idle' \cup conns_to_close'
         /\ Distinct(connections) => Distinct(connections') /\ Idle' \cap conns_to_close' = {}
<1>1. connections \in Seq(Conns) /\ Len(connections) \in Nat
      /\ currentConnections \in Int /\ MinConnections \in Nat
  BY PoolAssumption DEF TypeOK
<1>2. ToClose \in Int
  BY <1>1 DEF ToClose
<1>3. ToClose \in 0 .. Len(connections)
  BY <1>1, <1>2, ShrinkArithmetic DEF Shrinks, ShrinkSafe
<1>4. Idle = Elems(connections) /\ Idle' = Elems(connections')
  BY DEF Idle, Elems
<1> QED
  BY <1>1, <1>3, <1>4, CutElems DEF Shrinks

LEMMA NextType ==
  ASSUME TypeInv, [Next]_vars
  PROVE  TypeInv'
<1> USE DEF TypeInv
<1>0. /\ stage \in [Procs -> Stages] /\ held \in [Procs -> Conns \cup {NoConn}]
      /\ waiting \in SUBSET Procs /\ Cleaner \in Procs /\ Call \in Procs /\ Cleaner # Call
      /\ Cleaner \notin Workers /\ Call \notin Workers /\ Workers \subseteq Procs
  BY PoolAssumption DEF TypeOK, Procs
<1>1. CASE RedisStops
  BY <1>1 DEF RedisStops, TypeOK, StageHeld, CallIdle, threadVars, managerVars
<1>2. CASE RedisStarts
  BY <1>2 DEF RedisStarts, TypeOK, StageHeld, CallIdle, threadVars, managerVars, poolVars
<1>3. ASSUME NEW p \in Procs, Step(p) PROVE TypeInv'
  BY <1>3, StepType
<1>4. ASSUME NEW p \in Procs, NEW o \in RequestOps, Start(p, o) PROVE TypeInv'
  <2>1. StageHeld' /\ CallIdle' /\ stage' \in [Procs -> Stages]
    BY <1>0, <1>4 DEF Start, Goto, StageHeld, CallIdle, HoldsNone, HoldsOne, Stages
  <2>2. /\ op' \in [Procs -> Ops] /\ attempt' \in [Procs -> Nat]
        /\ testConn' \in [Procs -> BOOLEAN] /\ success' \in [Procs -> BOOLEAN]
    BY <1>4, PoolAssumption DEF Start, Begin, TypeOK, Ops
  <2> QED
    BY <1>4, <2>1, <2>2 DEF Start, TypeOK, managerVars, poolVars
<1>5. CASE CleanerStarts
  <2>1. StageHeld' /\ CallIdle' /\ stage' \in [Procs -> Stages]
    BY <1>0, <1>5 DEF CleanerStarts, Goto, StageHeld, CallIdle, HoldsNone, HoldsOne, Stages
  <2>2. /\ op' \in [Procs -> Ops] /\ attempt' \in [Procs -> Nat]
        /\ testConn' \in [Procs -> BOOLEAN] /\ success' \in [Procs -> BOOLEAN]
    BY <1>0, <1>5 DEF CleanerStarts, Begin, TypeOK, Ops
  <2> QED
    BY <1>5, <2>1, <2>2 DEF CleanerStarts, TypeOK, managerVars, poolVars
<1>6. ASSUME NEW o \in Ops, NEW during \in {"listing", "fetching"}, CallStarts(o, during),
             \/ stage[Cleaner] = "users" /\ during = "listing"
             \/ stage[Cleaner] = "accounts" /\ during = "fetching"
      PROVE  TypeInv'
  <2>1. StageHeld' /\ CallIdle' /\ stage' \in [Procs -> Stages]
    <3>1. stage[Call] = "ready"
      BY <1>6 DEF CallIdle
    <3> QED
      BY <1>0, <1>6, <3>1 DEF CallStarts, StageHeld, CallIdle, HoldsNone, HoldsOne, Stages
  <2>2. /\ op' \in [Procs -> Ops] /\ attempt' \in [Procs -> Nat]
        /\ testConn' \in [Procs -> BOOLEAN] /\ success' \in [Procs -> BOOLEAN]
    BY <1>0, <1>6 DEF CallStarts, Begin, TypeOK
  <2> QED
    BY <1>6, <2>1, <2>2 DEF CallStarts, TypeOK, managerVars, poolVars
<1>7. CASE Listed \/ Fetched \/ NoneLeft
  <2>1. StageHeld' /\ CallIdle' /\ stage' \in [Procs -> Stages]
    BY <1>0, <1>7
    DEF Listed, Fetched, NoneLeft, Goto, StageHeld, CallIdle, HoldsNone, HoldsOne, Stages
  <2>2. old_users' \in Nat
    BY <1>7, PoolAssumption DEF Listed, Fetched, NoneLeft, managerVars, TypeOK
  <2> QED
    BY <1>7, <2>1, <2>2 DEF Listed, Fetched, NoneLeft, TypeOK, managerVars, poolVars
<1>9. CASE ManagerChecks
  <2>1. NotifyOne(waiting) /\ UNCHANGED <<redis, health, threadVars, manager, old_users>>
        /\ (UNCHANGED <<connections, currentConnections, conns_to_close>> \/ Shrinks)
    BY <1>9, ManagerCases
  <2>2. waiting' \subseteq Procs
    BY <1>0, <2>1, NotifyType
  <2>3. connections' \in Seq(Conns) /\ currentConnections' \in Int /\ conns_to_close' \subseteq Conns
    <3>1. CASE Shrinks
      <4>1. ToClose \in 0 .. Len(connections)
        BY <3>1, ShrinkFacts
      <4>2. ToClose \in Int /\ currentConnections \in Int
        BY <4>1 DEF TypeOK
      <4> QED
        BY <3>1, <4>2, ShrinkFacts DEF Shrinks
    <3> QED
      BY <2>1, <3>1 DEF TypeOK
  <2>4. counter' \in Nat
    BY <1>9 DEF ManagerChecks, TypeOK
  <2> QED
    BY <2>1, <2>2, <2>3, <2>4 DEF TypeOK, StageHeld, CallIdle, threadVars
<1>10. CASE ManagerCloses
  BY <1>10 DEF ManagerCloses, TypeOK, StageHeld, CallIdle, threadVars
<1>11. CASE UNCHANGED vars
  BY <1>11 DEF vars, TypeOK, StageHeld, CallIdle, threadVars, managerVars, poolVars
<1>12. CASE DataCleaner
  <2>1. CASE ListUsers
    BY <1>6, <2>1 DEF ListUsers, Ops
  <2>2. CASE FetchAccounts
    BY <1>6, <2>2 DEF FetchAccounts, Ops, WorkerOps
  <2> QED
    BY <1>5, <1>7, <1>12, <2>1, <2>2 DEF DataCleaner
<1> QED
  BY <1>1, <1>2, <1>3, <1>4, <1>9, <1>10, <1>11, <1>12 DEF Next

LEMMA InitType == Init => TypeInv
<1> SUFFICES ASSUME Init PROVE TypeInv
  OBVIOUS
<1>1. PICK k \in 0 .. MinConnections : \E q \in [1 .. k -> Conns] :
         connections = q /\ currentConnections = k
         /\ health = [c \in Conns |-> IF \E i \in 1 .. k : q[i] = c THEN "good" ELSE "none"]
         /\ manager = (k > 0)
  BY DEF Init
<1>2. k \in Nat /\ k \in Int
  BY PoolAssumption
<1>3. connections \in Seq(Conns) /\ currentConnections \in Int
  BY <1>1, <1>2
<1>4. health \in [Conns -> {"none", "good", "dead", "err"}]
  BY <1>1
<1>5. manager \in BOOLEAN
  BY <1>1
<1>6. StageHeld /\ CallIdle
  BY PoolAssumption DEF Init, StageHeld, CallIdle, HoldsOne, Procs
<1>7. /\ stage \in [Procs -> Stages] /\ op \in [Procs -> Ops]
      /\ held \in [Procs -> Conns \cup {NoConn}] /\ attempt \in [Procs -> Nat]
      /\ testConn \in [Procs -> BOOLEAN] /\ success \in [Procs -> BOOLEAN]
      /\ frames \in [Procs -> Nat] /\ old_users \in Nat
  BY DEF Init, Stages, Ops
<1> QED
  BY <1>3, <1>4, <1>5, <1>6, <1>7 DEF Init, TypeInv, TypeOK

\* Every variable keeps its type.
THEOREM TypeCorrect == Spec => []TypeOK
<1>1. Spec => []TypeInv
  BY InitType, NextType, PTL DEF Spec
<1> QED
  BY <1>1, PTL DEF TypeInv

\* The connection manager (IDataStore.h:145-159) never decides to close more
\* connections than are idle, and never shrinks the pool below its minimum.
THEOREM ShrinksSafely == Spec => []ShrinkSafe
BY TypeCorrect, ShrinkArithmetic, PTL

-----------------------------------------------------------------------------
(* Where each connection is, and how many the counter counts.  The three        *)
(* properties of places only hold together: a connection can be freed without   *)
(* a leak because it is nowhere else, and a broken one stays out of the pool    *)
(* because it was held when it broke.                                            *)

PoolInv == TypeInv /\ Exclusive /\ NoLeak /\ NoBrokenIdle /\ NoOvercount

LEMMA HeldFinite ==
  ASSUME TypeOK
  PROVE  /\ Held \subseteq Conns /\ IsFiniteSet(Held) /\ Cardinality(Held) \in Nat
         /\ Len(connections) \in Nat /\ currentConnections \in Int
<1>1. Held \subseteq Conns
  BY DEF Held, TypeOK
<1>2. IsFiniteSet(Held)
  BY <1>1, PoolAssumption, FS_Subset
<1> QED
  BY <1>1, <1>2, FS_CardinalityType DEF TypeOK

LEMMA HeldGrows ==
  ASSUME TypeOK, NEW p \in Procs, NEW c \in Conns, held[p] = NoConn,
         held' = [held EXCEPT ![p] = c], c \notin Held
  PROVE  Held' = Held \cup {c} /\ Cardinality(Held') = Cardinality(Held) + 1
<1>1. c # NoConn
  BY PoolAssumption
<1>2. Held' = Held \cup {c}
  <2>1. Held' \subseteq Held \cup {c}
    BY DEF Held, TypeOK
  <2>2. ASSUME NEW x \in Held PROVE x \in Held'
    <3>1. PICK q \in Procs : x = held[q] /\ x # NoConn
      BY DEF Held
    <3>2. held'[q] = x
      BY <3>1 DEF TypeOK
    <3> QED
      BY <3>1, <3>2 DEF Held
  <2>3. c \in Held'
    <3>1. held'[p] = c
      BY DEF TypeOK
    <3> QED
      BY <1>1, <3>1 DEF Held
  <2> QED
    BY <2>1, <2>2, <2>3
<1> QED
  BY <1>2, HeldFinite, FS_AddElement

LEMMA HeldShrinks ==
  ASSUME TypeOK, NEW p \in Procs, held[p] \in Conns,
         \A q, r \in Procs : held[q] = held[r] /\ held[q] # NoConn => q = r,
         held' = [held EXCEPT ![p] = NoConn]
  PROVE  /\ held[p] \in Held /\ Held' = Held \ {held[p]}
         /\ Cardinality(Held') = Cardinality(Held) - 1
<1>1. held[p] # NoConn
  BY PoolAssumption
<1>2. held[p] \in Held
  BY <1>1 DEF Held
<1>3. Held' = Held \ {held[p]}
  <2>1. ASSUME NEW x \in Held' PROVE x \in Held \ {held[p]}
    <3>1. PICK q \in Procs : x = held'[q] /\ x # NoConn
      BY DEF Held
    <3>2. q # p /\ held[q] = x
      BY <3>1 DEF TypeOK
    <3> QED
      BY <3>1, <3>2 DEF Held
  <2>2. ASSUME NEW x \in Held, x # held[p] PROVE x \in Held'
    <3>1. PICK q \in Procs : x = held[q] /\ x # NoConn
      BY DEF Held
    <3>2. q # p
      BY <2>2, <3>1
    <3>3. held'[q] = x
      BY <3>1, <3>2 DEF TypeOK
    <3> QED
      BY <3>1, <3>3 DEF Held
  <2> QED
    BY <2>1, <2>2
<1> QED
  BY <1>2, <1>3, HeldFinite, FS_RemoveElement

\* Held follows from held alone, Idle from connections alone.
LEMMA SamePlaces ==
  /\ UNCHANGED connections => Idle' = Idle
  /\ UNCHANGED held => Held' = Held
  /\ UNCHANGED health => Unopened' = Unopened
BY DEF Idle, Held, Unopened

LEMMA PopKeeps ==
  ASSUME PoolInv, TypeInv', NEW p \in Procs, held[p] = NoConn, connections # <<>>, Pop(p),
         UNCHANGED <<health, currentConnections, conns_to_close>>
  PROVE  PoolInv'
<1>1. PICK c \in Conns :
         /\ held' = [held EXCEPT ![p] = c]
         /\ connections' \in Seq(Conns) /\ Len(connections') = Len(connections) - 1
         /\ Idle = Idle' \cup {c}
         /\ Distinct(connections) => Distinct(connections') /\ c \notin Idle'
  BY PopFacts DEF PoolInv, TypeInv
<1>2. c \notin Held /\ Distinct(connections) /\ c \notin conns_to_close
  BY <1>1 DEF PoolInv, Exclusive, Distinct
<1>3. Held' = Held \cup {c} /\ Cardinality(Held') = Cardinality(Held) + 1
  BY <1>1, <1>2, HeldGrows DEF PoolInv, TypeInv
<1>4. Unopened' = Unopened
  BY SamePlaces
<1>5. \A q, r \in Procs : held'[q] = held'[r] /\ held'[q] # NoConn => q = r
  <2>1. \A q \in Procs : held[q] # c
    BY <1>2, PoolAssumption DEF Held
  <2>2. \A q, r \in Procs : held[q] = held[r] /\ held[q] # NoConn => q = r
    BY DEF PoolInv, Exclusive
  <2>3. \A q \in Procs : held'[q] = IF q = p THEN c ELSE held[q]
    BY <1>1 DEF PoolInv, TypeInv, TypeOK
  <2> QED
    BY <2>1, <2>2, <2>3
<1>6. Exclusive'
  BY <1>1, <1>2, <1>3, <1>4, <1>5 DEF PoolInv, Exclusive, Distinct
<1>7. NoLeak'
  BY <1>1, <1>3, <1>4 DEF PoolInv, NoLeak
<1>8. NoBrokenIdle'
  BY <1>1 DEF PoolInv, NoBrokenIdle
<1>9. NoOvercount'
  BY <1>1, <1>3, HeldFinite DEF PoolInv, TypeInv, NoOvercount
<1> QED
  BY <1>6, <1>7, <1>8, <1>9 DEF PoolInv

LEMMA GiveBackKeeps ==
  ASSUME PoolInv, TypeInv', NEW p \in Procs, GiveBack(held[p]),
         held' = [held EXCEPT ![p] = NoConn], UNCHANGED conns_to_close
  PROVE  PoolInv'
<1> DEFINE c == held[p]
<1>0. /\ TypeOK /\ c \in Conns \cup {NoConn} /\ NoConn \notin Conns
      /\ connections \in Seq(Conns) /\ health \in [Conns -> {"none", "good", "dead", "err"}]
      /\ \A q, r \in Procs : held[q] = held[r] /\ held[q] # NoConn => q = r
      /\ Idle = Elems(connections) /\ Idle' = Elems(connections')
      /\ Len(connections) \in Nat /\ currentConnections \in Int
  BY PoolAssumption, HeldFinite DEF PoolInv, TypeInv, TypeOK, Exclusive, Idle, Elems
<1>1. \A q, r \in Procs : held'[q] = held'[r] /\ held'[q] # NoConn => q = r
  <2>1. \A q \in Procs : held'[q] = IF q = p THEN NoConn ELSE held[q]
    BY <1>0 DEF TypeOK
  <2> QED
    BY <1>0, <2>1
<1>2. CASE c = NoConn
  <2>1. held' = held
    BY <1>0, <1>2 DEF TypeOK
  <2>2. UNCHANGED <<connections, health>> /\ currentConnections' = currentConnections - 1
    BY <1>2 DEF GiveBack
  <2>3. Idle' = Idle /\ Held' = Held /\ Unopened' = Unopened
    BY <2>1, <2>2, SamePlaces
  <2>4. NoOvercount'
    BY <1>0, <2>2, <2>3, HeldFinite DEF PoolInv, NoOvercount
  <2> QED
    BY <2>1, <2>2, <2>3, <2>4 DEF PoolInv, Exclusive, NoLeak, NoBrokenIdle
<1>3. ASSUME c # NoConn
      PROVE  /\ c \in Conns /\ c \in Held /\ Held' = Held \ {c}
             /\ Cardinality(Held') = Cardinality(Held) - 1 /\ Cardinality(Held) \in Nat
             /\ c \notin Idle /\ c \notin conns_to_close /\ Distinct(connections)
  <2>1. c \in Conns
    BY <1>0, <1>3
  <2> QED
    BY <1>0, <2>1, HeldShrinks, HeldFinite DEF PoolInv, Exclusive, Distinct
<1>4. CASE c # NoConn /\ health[c] # "err" /\ connections' = Append(connections, c)
           /\ UNCHANGED <<health, currentConnections>>
  <2>1. Idle' = Idle \cup {c} /\ Len(connections') = Len(connections) + 1 /\ Distinct(connections')
    BY <1>0, <1>3, <1>4, PushElems
  <2>2. Unopened' = Unopened
    BY <1>4, SamePlaces
  <2>3. Exclusive'
    BY <1>1, <1>3, <1>4, <2>1, <2>2 DEF PoolInv, Exclusive, Distinct
  <2>4. NoLeak'
    BY <1>3, <1>4, <2>1, <2>2 DEF PoolInv, NoLeak
  <2>5. NoBrokenIdle'
    BY <1>3, <1>4, <2>1 DEF PoolInv, NoBrokenIdle
  <2>6. NoOvercount'
    BY <1>0, <1>3, <1>4, <2>1 DEF PoolInv, NoOvercount
  <2> QED
    BY <2>3, <2>4, <2>5, <2>6 DEF PoolInv
<1>5. CASE c # NoConn /\ health' = [health EXCEPT ![c] = "none"]
           /\ currentConnections' = currentConnections - 1 /\ UNCHANGED connections
  <2>1. Idle' = Idle
    BY <1>5, SamePlaces
  <2>2. Unopened' = Unopened \cup {c}
    BY <1>0, <1>3, <1>5 DEF Unopened
  <2>3. Exclusive'
    BY <1>1, <1>3, <1>5, <2>1, <2>2 DEF PoolInv, Exclusive
  <2>4. NoLeak'
    BY <1>3, <1>5, <2>1, <2>2 DEF PoolInv, NoLeak, Exclusive
  <2>5. NoBrokenIdle'
    BY <1>0, <1>3, <1>5, <2>1 DEF PoolInv, NoBrokenIdle, Idle
  <2>6. NoOvercount'
    BY <1>0, <1>3, <1>5, <2>1 DEF PoolInv, NoOvercount
  <2> QED
    BY <2>3, <2>4, <2>5, <2>6 DEF PoolInv
<1> QED
  BY <1>2, <1>4, <1>5 DEF GiveBack

\* A step that moves no connection: only the health of open ones may change,
\* and only a held one may get the error flag.
LEMMA StaysPut ==
  ASSUME PoolInv, TypeInv', UNCHANGED <<connections, held, conns_to_close, currentConnections>>,
         Unopened' = Unopened, \A c \in Conns : health'[c] = "err" => health[c] = "err" \/ c \in Held
  PROVE  PoolInv'
<1>1. Idle' = Idle /\ Held' = Held
  BY SamePlaces
<1>2. Exclusive' /\ NoLeak' /\ NoOvercount'
  BY <1>1 DEF PoolInv, Exclusive, NoLeak, NoOvercount
<1>3. NoBrokenIdle'
  <2>1. Idle \subseteq Conns /\ conns_to_close \subseteq Conns
    BY DEF PoolInv, TypeInv, TypeOK, Idle
  <2> QED
    BY <1>1, <2>1 DEF PoolInv, NoBrokenIdle, Exclusive
<1> QED
  BY <1>2, <1>3 DEF PoolInv

LEMMA StepPlaces ==
  ASSUME PoolInv, TypeInv', NEW p \in Procs, Step(p)
  PROVE  PoolInv'
<1>0. /\ TypeOK /\ held[p] \in Conns \cup {NoConn}
      /\ stage[p] \in {"get", "wait"} => held[p] = NoConn
      /\ stage[p] \in {"test", "command"} => held[p] \in Conns /\ held[p] \in Held
      /\ health \in [Conns -> {"none", "good", "dead", "err"}]
  BY PoolAssumption DEF PoolInv, TypeInv, TypeOK, StageHeld, HoldsNone, HoldsOne, Held
<1>1. CASE GetIdle(p)
  BY <1>0, <1>1, PopKeeps DEF GetIdle, managerVars
<1>2. CASE GetNew(p)
  <2>1. PICK c \in Unopened : health' = [health EXCEPT ![c] = "good"] /\ held' = [held EXCEPT ![p] = c]
    BY <1>2 DEF GetNew
  <2>2. /\ c \in Conns /\ c \notin Idle \cup Held \cup conns_to_close /\ held[p] = NoConn
        /\ connections = <<>> /\ currentConnections' = currentConnections + 1
        /\ UNCHANGED <<connections, conns_to_close>>
    BY <1>0, <1>2 DEF GetNew, Unopened, PoolInv, Exclusive, managerVars
  <2>3. Held' = Held \cup {c} /\ Cardinality(Held') = Cardinality(Held) + 1
    BY <1>0, <2>1, <2>2, HeldGrows
  <2>4. Unopened' = Unopened \ {c} /\ Idle' = Idle
    BY <1>0, <2>1, <2>2, SamePlaces DEF Unopened
  <2>5. \A q, r \in Procs : held'[q] = held'[r] /\ held'[q] # NoConn => q = r
    <3>1. \A q \in Procs : held[q] # c
      BY <2>2, PoolAssumption DEF Held
    <3>2. \A q, r \in Procs : held[q] = held[r] /\ held[q] # NoConn => q = r
      BY DEF PoolInv, Exclusive
    <3>3. \A q \in Procs : held'[q] = IF q = p THEN c ELSE held[q]
      BY <1>0, <2>1 DEF TypeOK
    <3> QED
      BY <3>1, <3>2, <3>3
  <2>6. Exclusive'
    BY <2>2, <2>3, <2>4, <2>5 DEF PoolInv, Exclusive
  <2>7. NoLeak'
    BY <2>2, <2>3, <2>4 DEF PoolInv, NoLeak, Unopened
  <2>8. NoBrokenIdle'
    BY <1>0, <2>1, <2>2, <2>4 DEF PoolInv, NoBrokenIdle
  <2>9. NoOvercount'
    BY <1>0, <2>2, <2>3, HeldFinite DEF PoolInv, NoOvercount
  <2> QED
    BY <2>6, <2>7, <2>8, <2>9 DEF PoolInv
<1>3. CASE GetThrows(p)
  BY <1>3, SamePlaces, StaysPut DEF GetThrows, managerVars
<1>4. CASE Wait(p)
  BY <1>4, SamePlaces, StaysPut DEF Wait, managerVars
<1>5. CASE Woken(p)
  <2>1. CASE connections # <<>> /\ Pop(p)
    BY <1>0, <1>5, <2>1, PopKeeps DEF Woken, managerVars
  <2>2. CASE UNCHANGED <<connections, held>>
    BY <1>5, <2>2, SamePlaces, StaysPut DEF Woken, managerVars
  <2> QED
    BY <1>5, <2>1, <2>2 DEF Woken
<1>6. CASE TestPasses(p)
  BY <1>6, SamePlaces, StaysPut DEF TestPasses, managerVars, poolVars
<1>7. CASE TestBreaks(p)
  <2>1. /\ held[p] \in Held /\ held[p] \in Conns /\ health[held[p]] = "dead"
        /\ health' = [health EXCEPT ![held[p]] = "err"]
        /\ UNCHANGED <<connections, held, conns_to_close, currentConnections>>
    BY <1>0, <1>7 DEF TestBreaks, threadVars, managerVars
  <2>2. Unopened' = Unopened /\ \A c \in Conns : health'[c] = "err" => health[c] = "err" \/ c \in Held
    BY <1>0, <2>1 DEF Unopened
  <2> QED
    BY <2>1, <2>2, StaysPut
<1>8. CASE TestFails(p)
  BY <1>8, GiveBackKeeps DEF TestFails, managerVars
<1>9. CASE Command(p)
  <2>1. /\ held[p] \in Held /\ held[p] \in Conns
        /\ \/ UNCHANGED health
           \/ health[held[p]] = "dead" /\ health' = [health EXCEPT ![held[p]] = "err"]
        /\ UNCHANGED <<connections, held, conns_to_close, currentConnections>>
    BY <1>0, <1>9 DEF Command, managerVars
  <2>2. Unopened' = Unopened /\ \A c \in Conns : health'[c] = "err" => health[c] = "err" \/ c \in Held
    BY <1>0, <2>1 DEF Unopened
  <2> QED
    BY <2>1, <2>2, StaysPut
<1>10. CASE Release(p)
  BY <1>10, GiveBackKeeps DEF Release, managerVars
<1> QED
  BY <1>1, <1>2, <1>3, <1>4, <1>5, <1>6, <1>7, <1>8, <1>9, <1>10 DEF Step

LEMMA NextPlaces ==
  ASSUME PoolInv, [Next]_vars
  PROVE  PoolInv'
<1>0. TypeInv' /\ TypeOK /\ health \in [Conns -> {"none", "good", "dead", "err"}]
  BY NextType DEF PoolInv, TypeInv, TypeOK
<1>1. CASE RedisStops
  <2>1. Unopened' = Unopened /\ \A c \in Conns : health'[c] = "err" => health[c] = "err" \/ c \in Held
    BY <1>0, <1>1 DEF RedisStops, Unopened
  <2> QED
    BY <1>0, <1>1, <2>1, StaysPut DEF RedisStops, threadVars, managerVars
<1>2. ASSUME NEW p \in Procs, Step(p) PROVE PoolInv'
  BY <1>0, <1>2, StepPlaces
<1>3. ASSUME UNCHANGED <<poolVars, held, conns_to_close>> PROVE PoolInv'
  BY <1>0, <1>3, SamePlaces, StaysPut DEF poolVars
<1>4. CASE ManagerChecks
  <2>1. UNCHANGED <<health, held>>
        /\ (UNCHANGED <<connections, currentConnections, conns_to_close>> \/ Shrinks)
    BY <1>4, ManagerCases DEF threadVars
  <2>2. CASE Shrinks
    <3>1. /\ Idle = Idle' \cup conns_to_close' /\ Len(connections') = Len(connections) - ToClose
          /\ Distinct(connections) => Distinct(connections') /\ Idle' \cap conns_to_close' = {}
          /\ conns_to_close = {} /\ ToClose \in 0 .. Len(connections)
          /\ currentConnections' = currentConnections - ToClose
      BY <1>0, <2>2, ShrinkFacts DEF Shrinks
    <3>2. Held' = Held /\ Unopened' = Unopened
      BY <2>1, SamePlaces
    <3>3. Exclusive'
      BY <2>1, <3>1, <3>2 DEF PoolInv, Exclusive, Distinct
    <3>4. NoLeak'
      BY <3>1, <3>2 DEF PoolInv, NoLeak
    <3>5. NoBrokenIdle'
      BY <2>1, <3>1 DEF PoolInv, NoBrokenIdle
    <3>6. NoOvercount'
      BY <1>0, <3>1, <3>2, HeldFinite DEF PoolInv, NoOvercount
    <3> QED
      BY <1>0, <3>3, <3>4, <3>5, <3>6 DEF PoolInv
  <2> QED
    BY <1>0, <2>1, <2>2, SamePlaces, StaysPut
<1>5. CASE ManagerCloses
  <2>1. /\ health' = [c \in Conns |-> IF c \in conns_to_close THEN "none" ELSE health[c]]
        /\ conns_to_close' = {} /\ UNCHANGED <<connections, held, currentConnections>>
    BY <1>5 DEF ManagerCloses, threadVars
  <2>2. Idle' = Idle /\ Held' = Held
    BY <2>1, SamePlaces
  <2>3. Unopened' = Unopened \cup conns_to_close
    BY <1>0, <2>1 DEF Unopened, TypeOK
  <2>4. Exclusive' /\ NoLeak'
    BY <2>1, <2>2, <2>3 DEF PoolInv, Exclusive, NoLeak
  <2>5. NoBrokenIdle'
    BY <1>0, <2>1, <2>2 DEF PoolInv, NoBrokenIdle, TypeOK, Idle
  <2>6. NoOvercount'
    BY <2>1, <2>2 DEF PoolInv, NoOvercount
  <2> QED
    BY <1>0, <2>4, <2>5, <2>6 DEF PoolInv
<1> QED
  BY <1>1, <1>2, <1>3, <1>4, <1>5
  DEF Next, RedisStarts, Start, DataCleaner, CleanerStarts, ListUsers, FetchAccounts, CallStarts,
      Listed, Fetched, NoneLeft, vars, managerVars, threadVars

LEMMA InitPlaces == Init => PoolInv
<1> SUFFICES ASSUME Init PROVE PoolInv
  OBVIOUS
<1>0. TypeInv /\ TypeOK
  BY InitType DEF TypeInv
<1>1. PICK k \in 0 .. MinConnections : \E q \in [1 .. k -> Conns] :
         /\ \A i, j \in 1 .. k : q[i] = q[j] => i = j
         /\ connections = q /\ currentConnections = k
         /\ health = [c \in Conns |-> IF \E i \in 1 .. k : q[i] = c THEN "good" ELSE "none"]
  BY DEF Init
<1>2. k \in Nat /\ MinConnections \in Nat
  BY PoolAssumption
<1>3. /\ Len(connections) = k /\ Idle = {connections[i] : i \in 1 .. k} /\ Idle \subseteq Conns
      /\ \A i, j \in 1 .. Len(connections) : connections[i] = connections[j] => i = j
      /\ \A c \in Conns : health[c] = IF c \in Idle THEN "good" ELSE "none"
  BY <1>1, <1>2 DEF Idle
<1>4. Held = {} /\ conns_to_close = {} /\ \A q \in Procs : held[q] = NoConn
  BY DEF Init, Held
<1>5. Exclusive /\ NoLeak /\ NoBrokenIdle
  BY <1>3, <1>4 DEF Exclusive, NoLeak, NoBrokenIdle, Unopened
<1>6. NoOvercount
  BY <1>1, <1>2, <1>3, <1>4, FS_EmptySet DEF NoOvercount
<1> QED
  BY <1>0, <1>5, <1>6 DEF PoolInv

LEMMA Places == Spec => []PoolInv
BY InitPlaces, NextPlaces, PTL DEF Spec

\* No connection is in two places (RedisStore.cpp:469-564).
THEOREM Exclusion == Spec => []Exclusive
BY Places, PTL DEF PoolInv

\* No connection leaks: every open one is idle, held, or being closed.
THEOREM NothingLeaks == Spec => []NoLeak
BY Places, PTL DEF PoolInv

\* A connection with its error flag set is never idle (RedisStore.cpp:546-549).
THEOREM PoolUsable == Spec => []NoBrokenIdle
BY Places, PTL DEF PoolInv

\* The counter never counts a connection that is gone (RedisStore.cpp:545).
THEOREM CapacityNotLost == Spec => []NoOvercount
BY Places, PTL DEF PoolInv

-----------------------------------------------------------------------------
(* Wake-ups.  NoLostNotify is kept because only sleeping threads are in the     *)
(* wait set: whoever is notified is still on its way when the pool fills.        *)

WaitersWait == \A w \in waiting : w \in Procs /\ stage[w] = "wait"
WakeInv == TypeInv /\ WaitersWait /\ NoLostNotify

\* A step that notifies: the thread that makes it is not one of the sleepers.
LEMMA NotifyKeeps ==
  ASSUME WakeInv, NEW S \in SUBSET Procs, S \cap waiting = {}, NotifyOne(waiting),
         \A w \in Procs \ S : stage'[w] = stage[w]
  PROVE  WaitersWait' /\ NoLostNotify'
<1>1. WaitersWait'
  BY DEF WakeInv, WaitersWait, NotifyOne
<1>2. waiting' = {} \/ (\E q \in Procs : stage'[q] = "wait" /\ q \notin waiting') => NoLostNotify'
  BY Zenon DEF NoLostNotify
<1>3. CASE waiting = {}
  BY <1>1, <1>2, <1>3 DEF NotifyOne
<1>4. CASE waiting # {}
  <2>1. PICK w \in waiting : waiting' = waiting \ {w}
    BY <1>4 DEF NotifyOne
  <2>2. w \in Procs /\ w \notin S /\ stage'[w] = "wait" /\ w \notin waiting'
    BY <2>1 DEF WakeInv, WaitersWait
  <2> QED
    BY <1>1, <1>2, <2>2
<1> QED
  BY <1>1, <1>3, <1>4

\* A step that wakes nobody: it does not fill an empty pool, and sleepers and
\* woken threads stay where they are.
LEMMA QuietKeeps ==
  ASSUME WakeInv, UNCHANGED <<connections, waiting>>,
         \A w \in Procs : stage[w] = "wait" => stage'[w] = "wait"
  PROVE  WaitersWait' /\ NoLostNotify'
BY DEF WakeInv, WaitersWait, NoLostNotify

LEMMA NextWakes ==
  ASSUME WakeInv, [Next]_vars
  PROVE  WakeInv'
<1> SUFFICES WaitersWait' /\ NoLostNotify'
  BY NextType DEF WakeInv
<1>0. /\ stage \in [Procs -> Stages] /\ WaitersWait
      /\ Cleaner \in Procs /\ Call \in Procs /\ Workers \subseteq Procs
  BY DEF WakeInv, TypeInv, TypeOK, Procs
<1>1. ASSUME NEW p \in Procs, NotifyOne(waiting), p \notin waiting,
             \A w \in Procs \ {p} : stage'[w] = stage[w]
      PROVE  WaitersWait' /\ NoLostNotify'
  <2>1. {p} \in SUBSET Procs /\ {p} \cap waiting = {}
    BY <1>1
  <2> QED
    BY <1>1, <2>1, NotifyKeeps
<1>2. ASSUME NEW p \in Procs, NEW s \in Stages, stage' = [stage EXCEPT ![p] = s]
      PROVE  \A w \in Procs \ {p} : stage'[w] = stage[w]
  BY <1>0, <1>2
<1>3. ASSUME NEW p \in Procs, Step(p) PROVE WaitersWait' /\ NoLostNotify'
  <2>0. \A w \in Procs \ {p} : stage'[w] = stage[w]
    BY <1>0, <1>3
    DEF Step, GetIdle, GetNew, GetThrows, Wait, Woken, TestPasses, TestBreaks, TestFails,
        Command, Release, Pop, Check, Goto, threadVars
  <2>1. CASE GetIdle(p) \/ GetNew(p) \/ GetThrows(p) \/ TestFails(p) \/ Release(p)
    <3>1. NotifyOne(waiting) /\ stage[p] # "wait"
      BY <2>1 DEF GetIdle, GetNew, GetThrows, TestFails, Release
    <3> QED
      BY <1>0, <1>1, <2>0, <3>1 DEF WaitersWait
  <2>2. CASE Wait(p)
    <3>1. waiting' = waiting \cup {p} /\ connections' = <<>>
      BY <2>2 DEF Wait
    <3>2. stage'[p] = "wait"
      BY <1>0, <2>2 DEF Wait, Goto
    <3> QED
      BY <1>0, <2>0, <3>1, <3>2 DEF WaitersWait, NoLostNotify
  <2>3. CASE Woken(p)
    <3>1. CASE NotifyOne(waiting)
      BY <1>1, <2>0, <2>3, <3>1 DEF Woken
    <3>2. CASE connections = <<>> /\ waiting' = waiting \cup {p} /\ UNCHANGED <<connections, stage>>
      BY <1>0, <2>3, <3>2 DEF Woken, WaitersWait, NoLostNotify
    <3> QED
      BY <2>3, <3>1, <3>2 DEF Woken
  <2>4. CASE TestPasses(p) \/ TestBreaks(p) \/ Command(p)
    <3>1. UNCHANGED <<connections, waiting>> /\ stage[p] # "wait"
      BY <2>4 DEF TestPasses, TestBreaks, Command, poolVars
    <3> QED
      BY <2>0, <3>1, QuietKeeps
  <2> QED
    BY <1>3, <2>1, <2>2, <2>3, <2>4 DEF Step
<1>4. CASE ManagerChecks
  <2>1. NotifyOne(waiting) /\ UNCHANGED stage
    BY <1>4, ManagerCases DEF threadVars
  <2>2. {} \in SUBSET Procs /\ {} \cap waiting = {} /\ \A w \in Procs \ {} : stage'[w] = stage[w]
    BY <2>1
  <2> QED
    BY <2>1, <2>2, NotifyKeeps
<1>5. ASSUME UNCHANGED <<connections, waiting>>, \A w \in Procs : stage[w] = "wait" => stage'[w] = "wait"
      PROVE  WaitersWait' /\ NoLostNotify'
  BY <1>5, QuietKeeps
<1>6. CASE RedisStops \/ RedisStarts \/ ManagerCloses \/ UNCHANGED vars
  BY <1>5, <1>6 DEF RedisStops, RedisStarts, ManagerCloses, vars, poolVars, threadVars
<1>7. ASSUME NEW p \in Procs, NEW o \in RequestOps, Start(p, o) PROVE WaitersWait' /\ NoLostNotify'
  BY <1>0, <1>5, <1>7 DEF Start, Goto, poolVars
<1>8. CASE DataCleaner
  <2>1. CASE CleanerStarts \/ Listed \/ Fetched \/ NoneLeft
    BY <1>0, <1>5, <2>1 DEF CleanerStarts, Listed, Fetched, NoneLeft, Goto, poolVars
  <2>2. ASSUME stage[Cleaner] \in {"users", "accounts"}, NEW o, NEW during, CallStarts(o, during)
        PROVE  WaitersWait' /\ NoLostNotify'
    <3>1. stage[Call] = "ready" /\ stage[Cleaner] # "wait"
      BY <2>2 DEF WakeInv, TypeInv, CallIdle
    <3> QED
      BY <1>0, <1>5, <2>2, <3>1 DEF CallStarts, poolVars
  <2> QED
    BY <1>8, <2>1, <2>2 DEF DataCleaner, ListUsers, FetchAccounts
<1> QED
  BY <1>3, <1>4, <1>6, <1>7, <1>8 DEF Next

\* No thread sleeps beside an idle connection unless another one has been woken
\* for it (RedisStore.cpp:469-501, 526-551).
THEOREM NotifyNotLost == Spec => []NoLostNotify
<1>1. Init => WakeInv
  BY InitType DEF Init, WakeInv, WaitersWait, NoLostNotify
<1>2. Spec => []WakeInv
  BY <1>1, NextWakes, PTL DEF Spec
<1> QED
  BY <1>2, PTL DEF WakeInv

-----------------------------------------------------------------------------
(* The pool implements ConnectionPool. *)

\* What Idle, held, conns_to_close and Unopened do not see, ConnectionPool does not.
LEMMA NothingMoves ==
  ASSUME UNCHANGED <<connections, held, conns_to_close>>, Unopened' = Unopened
  PROVE  UNCHANGED Pool!poolVars
BY DEF Pool!poolVars, Idle

LEMMA PopLends ==
  ASSUME PoolInv, NEW p \in Procs, held[p] = NoConn, connections # <<>>, Pop(p),
         UNCHANGED <<health, conns_to_close>>
  PROVE  \E c \in Conns : Pool!Lend(p, c)
<1>1. PICK c \in Conns :
         /\ held' = [held EXCEPT ![p] = c] /\ Idle = Idle' \cup {c}
         /\ Distinct(connections) => c \notin Idle'
  BY PopFacts DEF PoolInv, TypeInv
<1>2. Idle' = Idle \ {c} /\ c \in Idle
  BY <1>1 DEF PoolInv, Exclusive, Distinct
<1>3. Unopened' = Unopened
  BY SamePlaces
<1>4. Pool!Lend(p, c)
  BY <1>1, <1>2, <1>3 DEF Pool!Lend
<1> QED
  BY <1>4

LEMMA GiveBackReturns ==
  ASSUME PoolInv, NEW p \in Procs, GiveBack(held[p]),
         held' = [held EXCEPT ![p] = NoConn], UNCHANGED conns_to_close
  PROVE  Pool!GiveBack(p) \/ Pool!Discard(p) \/ UNCHANGED Pool!poolVars
<1> DEFINE c == held[p]
<1>0. /\ TypeOK /\ c \in Conns \cup {NoConn} /\ connections \in Seq(Conns)
      /\ held \in [Procs -> Conns \cup {NoConn}]
      /\ health \in [Conns -> {"none", "good", "dead", "err"}]
      /\ Idle = Elems(connections) /\ Idle' = Elems(connections')
  BY DEF PoolInv, TypeInv, TypeOK, Idle, Elems
<1>1. CASE c = NoConn
  <2>1. held' = held /\ UNCHANGED <<connections, health>>
    BY <1>0, <1>1 DEF GiveBack
  <2> QED
    BY <2>1, SamePlaces, NothingMoves
<1>2. CASE c # NoConn /\ connections' = Append(connections, c) /\ UNCHANGED health
  <2>1. Idle' = Idle \cup {c}
    BY <1>0, <1>2, PushElems
  <2>2. Unopened' = Unopened
    BY <1>2, SamePlaces
  <2> QED
    BY <1>2, <2>1, <2>2 DEF Pool!GiveBack
<1>3. CASE c # NoConn /\ health' = [health EXCEPT ![c] = "none"] /\ UNCHANGED connections
  <2>1. Unopened' = Unopened \cup {c}
    BY <1>0, <1>3 DEF Unopened
  <2>2. Idle' = Idle
    BY <1>3, SamePlaces
  <2>3. Conns \ Unopened' = (Conns \ Unopened) \ {c}
    BY <2>1
  <2> QED
    BY <1>3, <2>2, <2>3 DEF Pool!Discard
<1> QED
  BY <1>1, <1>2, <1>3 DEF GiveBack

LEMMA StepImplements ==
  ASSUME PoolInv, NEW p \in Procs, Step(p)
  PROVE  \/ \E c \in Conns : Pool!Open(p, c) \/ Pool!Lend(p, c)
         \/ Pool!GiveBack(p) \/ Pool!Discard(p)
         \/ UNCHANGED Pool!poolVars
<1>0. /\ held \in [Procs -> Conns \cup {NoConn}]
      /\ stage[p] \in {"get", "wait"} => held[p] = NoConn
      /\ stage[p] \in {"test", "command"} => held[p] \in Conns
      /\ health \in [Conns -> {"none", "good", "dead", "err"}]
  BY DEF PoolInv, TypeInv, TypeOK, StageHeld, HoldsNone, HoldsOne
<1>1. CASE GetIdle(p)
  BY <1>0, <1>1, PopLends DEF GetIdle, managerVars
<1>2. CASE GetNew(p)
  <2>1. PICK c \in Unopened : health' = [health EXCEPT ![c] = "good"] /\ held' = [held EXCEPT ![p] = c]
    BY <1>2 DEF GetNew
  <2>2. c \in Conns /\ held[p] = NoConn /\ UNCHANGED <<connections, conns_to_close>>
    BY <1>0, <1>2 DEF GetNew, Unopened, managerVars
  <2>3. Unopened' = Unopened \ {c} /\ Idle' = Idle
    BY <1>0, <2>1, <2>2, SamePlaces DEF Unopened
  <2>4. Conns \ Unopened' = (Conns \ Unopened) \cup {c}
    BY <2>2, <2>3
  <2>5. Pool!Open(p, c)
    BY <2>1, <2>2, <2>3, <2>4 DEF Pool!Open
  <2> QED
    BY <2>2, <2>5
<1>3. CASE GetThrows(p) \/ Wait(p) \/ TestPasses(p)
  <2>1. UNCHANGED <<connections, held, conns_to_close, health>>
    BY <1>3 DEF GetThrows, Wait, TestPasses, poolVars, managerVars
  <2> QED
    BY <2>1, SamePlaces, NothingMoves
<1>4. CASE Woken(p)
  <2>1. CASE connections # <<>> /\ Pop(p)
    BY <1>0, <1>4, <2>1, PopLends DEF Woken, managerVars
  <2>2. CASE UNCHANGED <<connections, held>>
    BY <1>4, <2>2, SamePlaces, NothingMoves DEF Woken, managerVars
  <2> QED
    BY <1>4, <2>1, <2>2 DEF Woken
<1>5. CASE TestBreaks(p) \/ Command(p)
  <2>1. /\ held[p] \in Conns
        /\ \/ UNCHANGED health
           \/ health[held[p]] = "dead" /\ health' = [health EXCEPT ![held[p]] = "err"]
        /\ UNCHANGED <<connections, held, conns_to_close>>
    BY <1>0, <1>5 DEF TestBreaks, Command, threadVars, managerVars
  <2>2. Unopened' = Unopened
    BY <1>0, <2>1 DEF Unopened
  <2> QED
    BY <2>1, <2>2, NothingMoves
<1>6. CASE TestFails(p) \/ Release(p)
  BY <1>6, GiveBackReturns DEF TestFails, Release, managerVars
<1> QED
  BY <1>1, <1>2, <1>3, <1>4, <1>5, <1>6 DEF Step

LEMMA NextImplements ==
  ASSUME PoolInv, [Next]_vars
  PROVE  [Pool!Next]_(Pool!poolVars)
<1>0. TypeOK /\ health \in [Conns -> {"none", "good", "dead", "err"}]
  BY DEF PoolInv, TypeInv, TypeOK
<1>1. CASE RedisStops
  <2>1. Unopened' = Unopened
    BY <1>0, <1>1 DEF RedisStops, Unopened
  <2> QED
    BY <1>1, <2>1, NothingMoves DEF RedisStops, threadVars, managerVars
<1>2. ASSUME NEW p \in Procs, Step(p) PROVE [Pool!Next]_(Pool!poolVars)
  BY <1>2, StepImplements DEF Pool!Next
<1>3. ASSUME UNCHANGED <<poolVars, held, conns_to_close>> PROVE [Pool!Next]_(Pool!poolVars)
  BY <1>3, SamePlaces, NothingMoves DEF poolVars
<1>4. CASE ManagerChecks
  <2>1. UNCHANGED <<health, held>>
        /\ (UNCHANGED <<connections, currentConnections, conns_to_close>> \/ Shrinks)
    BY <1>4, ManagerCases DEF threadVars
  <2>2. CASE UNCHANGED <<connections, conns_to_close>>
    BY <2>1, <2>2, SamePlaces, NothingMoves
  <2>3. CASE Shrinks
    <3>1. Idle = Idle' \cup conns_to_close' /\ Idle' \cap conns_to_close' = {} /\ conns_to_close = {}
      BY <1>0, <2>3, ShrinkFacts DEF Shrinks, PoolInv, Exclusive, Distinct
    <3>2. Unopened' = Unopened
      BY <2>1, SamePlaces
    <3>3. CASE conns_to_close' = {}
      BY <2>1, <3>1, <3>2, <3>3 DEF Pool!poolVars
    <3>4. CASE conns_to_close' # {}
      <4>1. Pool!Retire(conns_to_close')
        BY <2>1, <3>1, <3>2, <3>4 DEF Pool!Retire
      <4>2. conns_to_close' \in SUBSET Idle
        BY <3>1
      <4> QED
        BY <4>1, <4>2 DEF Pool!Next
    <3> QED
      BY <3>3, <3>4
  <2> QED
    BY <2>1, <2>2, <2>3
<1>5. CASE ManagerCloses
  <2>1. /\ health' = [c \in Conns |-> IF c \in conns_to_close THEN "none" ELSE health[c]]
        /\ conns_to_close' = {} /\ UNCHANGED <<connections, held>>
    BY <1>5 DEF ManagerCloses, threadVars
  <2>2. Conns \ Unopened' = (Conns \ Unopened) \ conns_to_close
    BY <1>0, <2>1 DEF Unopened
  <2>3. Idle' = Idle
    BY <2>1, SamePlaces
  <2>4. Pool!CloseRetired
    BY <2>1, <2>2, <2>3 DEF Pool!CloseRetired
  <2> QED
    BY <2>4 DEF Pool!Next
<1> QED
  BY <1>1, <1>2, <1>3, <1>4, <1>5
  DEF Next, RedisStarts, Start, DataCleaner, CleanerStarts, ListUsers, FetchAccounts, CallStarts,
      Listed, Fetched, NoneLeft, vars, managerVars, threadVars

\* However threads, cleaner, manager and server interleave, a connection is opened by
\* the thread that gets it, lent, returned and closed as ConnectionPool allows.
THEOREM Implementation == Spec => KeepsPool
<1>1. Init => Pool!Init
  <2> SUFFICES ASSUME Init PROVE Pool!Init
    OBVIOUS
  <2>1. Conns \ Unopened = Idle
    <3>1. NoLeak /\ Held = {} /\ conns_to_close = {}
      BY InitPlaces DEF PoolInv, Init, Held
    <3> QED
      BY <3>1 DEF NoLeak
  <2> QED
    BY <2>1 DEF Init, Pool!Init
<1>2. PoolInv /\ [Next]_vars => [Pool!Next]_(Pool!poolVars)
  BY NextImplements
<1> QED
  BY <1>1, <1>2, Places, PTL DEF Spec, KeepsPool, Pool!Spec

=============================================================================
