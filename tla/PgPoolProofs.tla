----------------------------- MODULE PgPoolProofs -----------------------------
(* Theorems about PgPool, for every value of its constants. *)
EXTENDS PgPool, PoolSequences, FiniteSetTheorems, TLAPS

-----------------------------------------------------------------------------
(* What a step does with the pool, by name. *)

LEMMA IdleElems == Idle = Elems(connections) /\ Idle' = Elems(connections')
BY DEF Idle, Elems

\* Taking an idle connection.
LEMMA TakeFacts ==
  ASSUME TypeOK, NEW p \in Procs, connections # <<>>, Take(p)
  PROVE  \E c \in Conns :
            /\ held' = [held EXCEPT ![p] = c] /\ stage' = [stage EXCEPT ![p] = "execute"]
            /\ connections' \in Seq(Conns) /\ Len(connections') = Len(connections) - 1
            /\ Idle = Idle' \cup {c}
            /\ Distinct(connections) => Distinct(connections') /\ c \notin Idle'
<1> DEFINE n == Len(connections)
           c == connections[n]
           r == Kept(connections, 1)
<1>1. connections \in Seq(Conns) /\ n \in Nat /\ n >= 1 /\ c \in Conns
  BY DEF TypeOK
<1>2. SubSeq(connections, 1, n - 1) = r /\ Cut(connections, 1) = {c}
  BY <1>1 DEF Kept, Cut
<1>3. /\ r \in Seq(Conns) /\ Len(r) = n - 1 /\ Elems(connections) = Elems(r) \cup {c}
      /\ Distinct(connections) => Distinct(r) /\ c \notin Elems(r)
  <2>1. 1 \in 0 .. Len(connections)
    BY <1>1
  <2> QED
    BY <1>1, <1>2, <2>1, CutElems
<1>4. /\ held' = [held EXCEPT ![p] = c] /\ connections' = r
      /\ stage' = [stage EXCEPT ![p] = "execute"]
  BY <1>2 DEF Take, Hold, Goto
<1> QED
  BY <1>1, <1>3, <1>4, IdleElems

\* Returning one.
LEMMA ReleaseFacts ==
  ASSUME TypeOK, NEW p \in Procs, held[p] \in Conns, Release(p)
  PROVE  /\ held' = [held EXCEPT ![p] = NoConn]
         /\ connections' \in Seq(Conns) /\ Len(connections') = Len(connections) + 1
         /\ Idle' = Idle \cup {held[p]}
         /\ Distinct(connections) /\ held[p] \notin Idle => Distinct(connections')
<1>1. connections \in Seq(Conns)
  BY DEF TypeOK
<1>2. connections' = Append(connections, held[p]) /\ held' = [held EXCEPT ![p] = NoConn]
  BY DEF Release, Hold
<1> QED
  BY <1>1, <1>2, PushElems, IdleElems

\* The end of a try.
LEMMA TryFacts ==
  ASSUME TypeOK, NEW p \in Procs, TryAgain(p) \/ Done(p)
  PROVE  /\ \E s \in {"get", "ready"} : stage' = [stage EXCEPT ![p] = s]
         /\ attempt' \in [Procs -> Nat]
<1>1. attempt \in [Procs -> Nat]
  BY DEF TypeOK
<1>2. CASE attempt[p] < Tries /\ TryAgain(p)
  BY <1>1, <1>2 DEF TryAgain, Goto
<1>3. CASE Done(p)
  BY <1>1, <1>3 DEF Done, Goto
<1>4. CASE ~(attempt[p] < Tries) /\ TryAgain(p)
  BY <1>1, <1>4 DEF TryAgain, Goto
<1> QED
  BY <1>2, <1>3, <1>4

LEMMA NotifyFacts ==
  ASSUME waiting \subseteq Procs, NotifyOne
  PROVE  /\ waiting' \subseteq waiting
         /\ waiting # {} => \E w \in waiting : w \notin waiting'
BY DEF NotifyOne

\* The manager's arithmetic: what it closes is there.
LEMMA ShrinkArithmetic ==
  ASSUME TypeOK, Shrinkable
  PROVE  ToClose \in 1 .. Len(connections)
<1> DEFINE n == currentConnections
           l == Len(connections)
           m == MinConnections
<1>1. n \in Int /\ l \in Nat /\ m \in Nat
  BY PgPoolAssumption DEF TypeOK
<1>2. n > m /\ ~(5 * (n - l) > n)
  BY DEF Shrinkable, InUseShare
<1> DEFINE part == (2 * (n - m)) \div 5
<1>3. part \in Int /\ 5 * part <= 2 * (n - m) /\ 2 * (n - m) < 5 * part + 5
  BY <1>1
<1>4. ToClose = IF part < 1 THEN n - m ELSE part
  BY DEF ToClose
<1> HIDE DEF n, l, m, part
<1>5. CASE part < 1
  <2>1. ToClose >= 1 /\ ToClose <= l /\ ToClose \in Int
    BY <1>1, <1>2, <1>3, <1>4, <1>5
  <2> QED
    BY <1>1, <2>1 DEF l
<1>6. CASE ~(part < 1)
  <2>1. ToClose >= 1 /\ ToClose <= l /\ ToClose \in Int
    BY <1>1, <1>2, <1>3, <1>4, <1>6
  <2> QED
    BY <1>1, <2>1 DEF l
<1> QED
  BY <1>5, <1>6

\* Shrinking splits the pool.
LEMMA ShrinkFacts ==
  ASSUME TypeOK, ManagerShrinks
  PROVE  /\ connections' \in Seq(Conns)
         /\ Len(connections') = Len(connections) - ToClose
         /\ conns_to_close' \subseteq Conns /\ Idle = Idle' \cup conns_to_close'
         /\ Distinct(connections) => Distinct(connections') /\ Idle' \cap conns_to_close' = {}
<1>1. connections \in Seq(Conns)
  BY DEF TypeOK
<1>2. ToClose \in 0 .. Len(connections)
  BY ShrinkArithmetic, <1>1 DEF ManagerShrinks
<1>3. connections' = Kept(connections, ToClose) /\ conns_to_close' = Cut(connections, ToClose)
  BY DEF ManagerShrinks, Kept, Cut
<1> QED
  BY <1>1, <1>2, <1>3, CutElems, IdleElems

-----------------------------------------------------------------------------
(* Type correctness, with the stages in which a thread has a connection. *)

Holding == {"execute", "finish"}

Shape ==
    /\ \A p \in Procs : stage[p] \in Holding <=> held[p] # NoConn
    /\ \A p \in waiting : stage[p] = "wait"

TypeInv == TypeOK /\ Shape

\* A step of p from one stage to another keeps the shape.
LEMMA Moved ==
  ASSUME TypeInv, NEW p \in Procs, NEW s \in Stages, NEW h \in Conns \cup {NoConn},
         stage' = [stage EXCEPT ![p] = s], held' = [held EXCEPT ![p] = h],
         s \in Holding <=> h # NoConn,
         waiting' \subseteq waiting \cup {p}, p \in waiting' => s = "wait"
  PROVE  /\ stage' \in [Procs -> Stages] /\ held' \in [Procs -> Conns \cup {NoConn}]
         /\ waiting' \subseteq Procs /\ Shape'
<1>1. /\ stage \in [Procs -> Stages] /\ held \in [Procs -> Conns \cup {NoConn}]
      /\ waiting \subseteq Procs
  BY DEF TypeInv, TypeOK
<1>2. stage' \in [Procs -> Stages] /\ held' \in [Procs -> Conns \cup {NoConn}]
  BY <1>1
<1>3. waiting' \subseteq Procs
  BY <1>1
<1>4. \A q \in Procs : stage'[q] \in Holding <=> held'[q] # NoConn
  BY <1>1 DEF TypeInv, Shape
<1>5. \A q \in waiting' : stage'[q] = "wait"
  BY <1>1, <1>3 DEF TypeInv, Shape
<1> QED
  BY <1>2, <1>3, <1>4, <1>5 DEF Shape

LEMMA StepType == ASSUME TypeInv, NEW p \in Procs, Step(p) PROVE TypeInv'
<1>0. /\ TypeOK /\ Shape /\ waiting \subseteq Procs /\ held[p] \in Conns \cup {NoConn}
      /\ held = [held EXCEPT ![p] = held[p]]
      /\ stage[p] \in Holding <=> held[p] # NoConn
      /\ p \in waiting => stage[p] = "wait"
      /\ currentConnections \in Int /\ doubled \in Nat
  BY DEF TypeInv, TypeOK, Shape
<1>h. "execute" \in Holding /\ "finish" \in Holding
      /\ {"ready", "get", "wait", "connect", "thrown"} \cap Holding = {}
      /\ {"ready", "get", "wait", "connect", "thrown", "execute", "finish"} \subseteq Stages
  BY DEF Holding, Stages
<1>1. CASE Begin(p)
  <2>1. stage' = [stage EXCEPT ![p] = "get"] /\ held' = held /\ waiting' = waiting
        /\ stage[p] = "ready"
    BY <1>1 DEF Begin, Goto
  <2>2. /\ stage' \in [Procs -> Stages] /\ held' \in [Procs -> Conns \cup {NoConn}]
        /\ waiting' \subseteq Procs /\ Shape'
    BY <1>0, <1>h, <2>1, Moved
  <2> QED
    BY <1>1, <2>2 DEF Begin, TypeInv, TypeOK, managerVars
<1>2. CASE GetIdle(p)
  <2>1. stage[p] = "get" /\ waiting' \subseteq waiting
    BY <1>0, <1>2, NotifyFacts DEF GetIdle
  <2>2. PICK c \in Conns : /\ held' = [held EXCEPT ![p] = c]
                           /\ stage' = [stage EXCEPT ![p] = "execute"]
                           /\ connections' \in Seq(Conns)
    BY <1>0, <1>2, TakeFacts DEF GetIdle
  <2>3. /\ stage' \in [Procs -> Stages] /\ held' \in [Procs -> Conns \cup {NoConn}]
        /\ waiting' \subseteq Procs /\ Shape'
    BY <1>0, <1>h, <2>1, <2>2, Moved, PgPoolAssumption
  <2> QED
    BY <1>2, <2>2, <2>3 DEF GetIdle, TypeInv, TypeOK, managerVars
<1>3. CASE GetNew(p)
  <2>1. stage' = [stage EXCEPT ![p] = "connect"] /\ held' = held /\ waiting' = waiting
        /\ stage[p] = "get" /\ currentConnections' \in Int
    BY <1>0, <1>3 DEF GetNew, Goto
  <2>2. /\ stage' \in [Procs -> Stages] /\ held' \in [Procs -> Conns \cup {NoConn}]
        /\ waiting' \subseteq Procs /\ Shape'
    BY <1>0, <1>h, <2>1, Moved
  <2> QED
    BY <1>3, <2>1, <2>2 DEF GetNew, TypeInv, TypeOK, managerVars
<1>4. CASE Wait(p)
  <2>1. stage' = [stage EXCEPT ![p] = "wait"] /\ held' = held /\ waiting' = waiting \cup {p}
        /\ stage[p] = "get"
    BY <1>4 DEF Wait, Goto
  <2>2. /\ stage' \in [Procs -> Stages] /\ held' \in [Procs -> Conns \cup {NoConn}]
        /\ waiting' \subseteq Procs /\ Shape'
    BY <1>0, <1>h, <2>1, Moved
  <2> QED
    BY <1>4, <2>2 DEF Wait, TypeInv, TypeOK, managerVars
<1>5. CASE Woken(p)
  <2>1. CASE connections # <<>> /\ Take(p) /\ NotifyOne
    <3>1. stage[p] = "wait" /\ waiting' \subseteq waiting /\ p \notin waiting
      BY <1>0, <1>5, <2>1, NotifyFacts DEF Woken
    <3>2. PICK c \in Conns : /\ held' = [held EXCEPT ![p] = c]
                             /\ stage' = [stage EXCEPT ![p] = "execute"]
                             /\ connections' \in Seq(Conns)
      BY <1>0, <2>1, TakeFacts
    <3>3. /\ stage' \in [Procs -> Stages] /\ held' \in [Procs -> Conns \cup {NoConn}]
          /\ waiting' \subseteq Procs /\ Shape'
      BY <1>0, <1>h, <3>1, <3>2, Moved, PgPoolAssumption
    <3> QED
      BY <1>5, <3>2, <3>3 DEF Woken, TypeInv, TypeOK, managerVars
  <2>2. CASE waiting' = waiting \cup {p} /\ UNCHANGED <<connections, stage, held>>
    BY <1>5, <1>0, <2>2 DEF Woken, TypeInv, TypeOK, Shape, managerVars
  <2> QED
    BY <1>5, <2>1, <2>2 DEF Woken
<1>6. CASE Connects(p)
  <2>1. PICK c \in Conns : health' = [health EXCEPT ![c] = "good"] /\ held' = [held EXCEPT ![p] = c]
    BY <1>6 DEF Connects, Hold
  <2>2. stage[p] = "connect" /\ stage' = [stage EXCEPT ![p] = "execute"]
        /\ waiting' \subseteq waiting
    BY <1>0, <1>6, NotifyFacts DEF Connects, Goto
  <2>3. /\ stage' \in [Procs -> Stages] /\ held' \in [Procs -> Conns \cup {NoConn}]
        /\ waiting' \subseteq Procs /\ Shape'
    BY <1>0, <1>h, <2>1, <2>2, Moved, PgPoolAssumption
  <2> QED
    BY <1>6, <2>1, <2>3 DEF Connects, TypeInv, TypeOK, managerVars
<1>7. CASE ConnectFails(p)
  <2>1. stage[p] = "connect" /\ held' = held /\ waiting' \subseteq waiting
        /\ currentConnections' \in Int
    BY <1>0, <1>7, NotifyFacts DEF ConnectFails
  <2>2. /\ \E s \in {"get", "ready"} : stage' = [stage EXCEPT ![p] = s]
        /\ attempt' \in [Procs -> Nat]
    BY <1>0, <1>7, TryFacts DEF ConnectFails
  <2>3. /\ stage' \in [Procs -> Stages] /\ held' \in [Procs -> Conns \cup {NoConn}]
        /\ waiting' \subseteq Procs /\ Shape'
    BY <1>0, <1>h, <2>1, <2>2, Moved
  <2> QED
    BY <1>7, <2>1, <2>2, <2>3 DEF ConnectFails, TypeInv, TypeOK, managerVars
<1>8. CASE PrepareFails(p)
  <2>1. stage[p] = "connect" /\ held' = held /\ waiting' \subseteq waiting
        /\ currentConnections' \in Int /\ stage' = [stage EXCEPT ![p] = "thrown"]
    BY <1>0, <1>8, NotifyFacts DEF PrepareFails, Goto
  <2>2. /\ stage' \in [Procs -> Stages] /\ held' \in [Procs -> Conns \cup {NoConn}]
        /\ waiting' \subseteq Procs /\ Shape'
    BY <1>0, <1>h, <2>1, Moved
  <2> QED
    BY <1>8, <2>1, <2>2 DEF PrepareFails, TypeInv, TypeOK, managerVars
<1>9. CASE CountsTwice(p)
  <2>1. stage[p] = "thrown" /\ held' = held /\ waiting' \subseteq waiting
        /\ currentConnections' \in Int /\ doubled' \in Nat
    BY <1>0, <1>9, NotifyFacts DEF CountsTwice
  <2>2. /\ \E s \in {"get", "ready"} : stage' = [stage EXCEPT ![p] = s]
        /\ attempt' \in [Procs -> Nat]
    BY <1>0, <1>9, TryFacts DEF CountsTwice
  <2>3. /\ stage' \in [Procs -> Stages] /\ held' \in [Procs -> Conns \cup {NoConn}]
        /\ waiting' \subseteq Procs /\ Shape'
    BY <1>0, <1>h, <2>1, <2>2, Moved
  <2> QED
    BY <1>9, <2>1, <2>2, <2>3 DEF CountsTwice, TypeInv, TypeOK, managerVars
<1>10. CASE Succeeds(p) \/ Errs(p)
  <2>1. stage[p] = "execute" /\ Release(p) /\ (TryAgain(p) \/ Done(p)) /\ NotifyOne
    BY <1>10 DEF Succeeds, Errs, Release
  <2>2. /\ held' = [held EXCEPT ![p] = NoConn] /\ connections' \in Seq(Conns)
        /\ waiting' \subseteq waiting
    BY <1>0, <1>h, <2>1, ReleaseFacts, NotifyFacts
  <2>3. /\ \E s \in {"get", "ready"} : stage' = [stage EXCEPT ![p] = s]
        /\ attempt' \in [Procs -> Nat]
    BY <1>0, <2>1, TryFacts
  <2>4. /\ stage' \in [Procs -> Stages] /\ held' \in [Procs -> Conns \cup {NoConn}]
        /\ waiting' \subseteq Procs /\ Shape'
    BY <1>0, <1>h, <2>1, <2>2, <2>3, Moved
  <2> QED
    BY <1>10, <2>2, <2>3, <2>4 DEF Succeeds, Errs, TypeInv, TypeOK, managerVars
<1>11. CASE Breaks(p)
  <2>1. stage[p] = "execute" /\ held' = held /\ waiting' \subseteq waiting
        /\ currentConnections' \in Int /\ stage' = [stage EXCEPT ![p] = "finish"]
    BY <1>0, <1>11, NotifyFacts DEF Breaks, Goto
  <2>2. /\ stage' \in [Procs -> Stages] /\ held' \in [Procs -> Conns \cup {NoConn}]
        /\ waiting' \subseteq Procs /\ Shape'
    BY <1>0, <1>h, <2>1, Moved
  <2> QED
    BY <1>11, <2>1, <2>2 DEF Breaks, TypeInv, TypeOK, managerVars
<1>12. CASE Finishes(p)
  <2>1. stage[p] = "finish" /\ held' = [held EXCEPT ![p] = NoConn] /\ waiting' = waiting
        /\ health' \in [Conns -> {"none", "good", "dead"}]
    BY <1>0, <1>12 DEF Finishes, Hold, TypeOK
  <2>2. /\ \E s \in {"get", "ready"} : stage' = [stage EXCEPT ![p] = s]
        /\ attempt' \in [Procs -> Nat]
    BY <1>0, <1>12, TryFacts DEF Finishes
  <2>3. /\ stage' \in [Procs -> Stages] /\ held' \in [Procs -> Conns \cup {NoConn}]
        /\ waiting' \subseteq Procs /\ Shape'
    BY <1>0, <1>h, <2>1, <2>2, Moved
  <2> QED
    BY <1>12, <2>1, <2>2, <2>3 DEF Finishes, TypeInv, TypeOK, managerVars
<1> QED
  BY <1>1, <1>2, <1>3, <1>4, <1>5, <1>6, <1>7, <1>8, <1>9, <1>10, <1>11, <1>12 DEF Step

LEMMA NextType == TypeInv /\ [Next]_vars => TypeInv'
<1> SUFFICES ASSUME TypeInv, [Next]_vars PROVE TypeInv'
  OBVIOUS
<1>1. CASE Stops \/ Starts
  BY <1>1 DEF Stops, Starts, TypeInv, TypeOK, Shape, procVars, managerVars
<1>2. ASSUME NEW p \in Procs, Step(p) PROVE TypeInv'
  BY <1>2, StepType
<1>3. CASE ManagerWaits
  <2>1. counter' \in Nat
    BY <1>3 DEF ManagerWaits, TypeInv, TypeOK
  <2>2. waiting' \subseteq waiting
    BY <1>3, NotifyFacts DEF ManagerWaits, TypeInv, TypeOK
  <2> QED
    BY <1>3, <2>1, <2>2 DEF ManagerWaits, TypeInv, TypeOK, Shape, procVars
<1>4. CASE ManagerShrinks
  <2>1. connections' \in Seq(Conns) /\ conns_to_close' \subseteq Conns
    BY <1>4, ShrinkFacts DEF TypeInv
  <2>2. waiting' \subseteq waiting
    BY <1>4, NotifyFacts DEF ManagerShrinks, TypeInv, TypeOK
  <2>3. currentConnections' \in Int /\ counter' \in Nat
    <3>1. ToClose \in Int
      BY <1>4, ShrinkArithmetic DEF ManagerShrinks, TypeInv, TypeOK
    <3> QED
      BY <1>4, <3>1 DEF ManagerShrinks, TypeInv, TypeOK
  <2> QED
    BY <1>4, <2>1, <2>2, <2>3 DEF ManagerShrinks, TypeInv, TypeOK, Shape, procVars
<1>5. CASE ManagerCloses
  BY <1>5 DEF ManagerCloses, TypeInv, TypeOK, Shape, procVars
<1>6. CASE UNCHANGED vars
  BY <1>6 DEF vars, TypeInv, TypeOK, Shape, procVars, managerVars
<1> QED
  BY <1>1, <1>2, <1>3, <1>4, <1>5, <1>6 DEF Next

LEMMA InitFacts ==
  ASSUME Init
  PROVE  /\ connections \in Seq(Conns) /\ Len(connections) \in 0 .. MinConnections
         /\ currentConnections = Len(connections)
         /\ \A c \in Conns : health[c] = IF c \in Idle THEN "good" ELSE "none"
         /\ health \in [Conns -> {"none", "good", "dead"}]
         /\ Distinct(connections)
<1>1. PICK k \in 0 .. MinConnections : \E q \in [1 .. k -> Conns] :
         /\ \A i, j \in DOMAIN q : q[i] = q[j] => i = j
         /\ connections = q /\ currentConnections = Len(q)
         /\ health = [c \in Conns |-> IF \E i \in DOMAIN q : q[i] = c THEN "good" ELSE "none"]
  BY DEF Init
<1>2. PICK q \in [1 .. k -> Conns] :
         /\ \A i, j \in DOMAIN q : q[i] = q[j] => i = j
         /\ connections = q /\ currentConnections = Len(q)
         /\ health = [c \in Conns |-> IF \E i \in DOMAIN q : q[i] = c THEN "good" ELSE "none"]
  BY <1>1
<1>3. q \in Seq(Conns) /\ Len(q) = k /\ DOMAIN q = 1 .. k
  BY PgPoolAssumption
<1>4. connections \in Seq(Conns) /\ Len(connections) = k /\ k \in 0 .. MinConnections
  BY <1>2, <1>3
<1>5. \A c \in Conns : health[c] = IF c \in Idle THEN "good" ELSE "none"
  BY <1>2, <1>3 DEF Idle
<1>6. health \in [Conns -> {"none", "good", "dead"}]
  BY <1>2
<1>7. Distinct(connections)
  BY <1>2, <1>3 DEF Distinct
<1>8. currentConnections = Len(connections)
  BY <1>2
<1> QED
  BY <1>4, <1>5, <1>6, <1>7, <1>8

LEMMA InitType == Init => TypeInv
<1> SUFFICES ASSUME Init PROVE TypeInv
  OBVIOUS
<1>1. TypeOK
  <2>1. currentConnections \in Int
    BY InitFacts
  <2> QED
    BY <2>1, InitFacts DEF Init, TypeOK, Stages
<1>2. Shape
  BY DEF Init, Shape, Holding
<1> QED
  BY <1>1, <1>2 DEF TypeInv

\* The variables of the pool, of the threads and of the manager keep their types.
THEOREM TypeCorrect == Spec => []TypeOK
<1>1. TypeInv => TypeOK
  BY DEF TypeInv
<1> QED
  BY <1>1, InitType, NextType, PTL DEF Spec

-----------------------------------------------------------------------------
(* Every open connection is in one place. *)

LEMMA PlacedDistinct == Placed => Distinct(connections)
BY DEF Placed, Distinct

\* p takes the idle connection c.
LEMMA PlacedTake ==
  ASSUME TypeInv, Placed, NEW p \in Procs, held[p] = NoConn, connections # <<>>, Take(p),
         UNCHANGED <<health, conns_to_close>>
  PROVE  Placed'
<1>1. PICK c \in Conns :
         /\ held' = [held EXCEPT ![p] = c] /\ Len(connections') = Len(connections) - 1
         /\ Idle = Idle' \cup {c} /\ Distinct(connections') /\ c \notin Idle'
  BY TakeFacts, PlacedDistinct DEF TypeInv
<1>2. c \in Idle /\ c # NoConn
  BY <1>1, PgPoolAssumption
<1>3. held \in [Procs -> Conns \cup {NoConn}] /\ health \in [Conns -> {"none", "good", "dead"}]
  BY DEF TypeInv, TypeOK
<1>4. \A q \in Procs : held'[q] = IF q = p THEN c ELSE held[q]
  BY <1>1, <1>3
<1>5. \A q \in Procs : held[q] # c
  BY <1>2 DEF Placed
<1>6. \A i, j \in 1 .. Len(connections') : connections'[i] = connections'[j] => i = j
  BY <1>1 DEF Distinct
<1>7. \A q, r \in Procs : held'[q] = held'[r] => q = r \/ held'[q] = NoConn
  BY <1>4, <1>5 DEF Placed
<1>8. \A q \in Procs : held'[q] \notin Idle' \cup conns_to_close'
  BY <1>1, <1>2, <1>4 DEF Placed
<1>9. Idle' \cap conns_to_close' = {}
  BY <1>1 DEF Placed
<1>10. \A d \in Conns : health'[d] # "none"
                        <=> d \in Idle' \cup conns_to_close' \cup {held'[q] : q \in Procs}
  <2> SUFFICES ASSUME NEW d \in Conns
               PROVE  health[d] # "none"
                      <=> d \in Idle' \cup conns_to_close \/ \E q \in Procs : d = held'[q]
    OBVIOUS
  <2>1. health[d] # "none" <=> d \in Idle \cup conns_to_close \/ \E q \in Procs : d = held[q]
    BY DEF Placed
  <2>2. d # NoConn
    BY PgPoolAssumption
  <2> QED
    BY <1>1, <1>4, <2>1, <2>2
<1> QED
  BY <1>6, <1>7, <1>8, <1>9, <1>10 DEF Placed

\* p returns its connection.
LEMMA PlacedRelease ==
  ASSUME TypeInv, Placed, NEW p \in Procs, held[p] # NoConn, Release(p),
         UNCHANGED <<health, conns_to_close>>
  PROVE  Placed'
<1>1. /\ held \in [Procs -> Conns \cup {NoConn}] /\ held[p] \in Conns
      /\ held[p] \notin Idle /\ held[p] \notin conns_to_close
  BY DEF TypeInv, TypeOK, Placed
<1>2. /\ held' = [held EXCEPT ![p] = NoConn]
      /\ Idle' = Idle \cup {held[p]} /\ Distinct(connections')
  BY <1>1, ReleaseFacts, PlacedDistinct DEF TypeInv
<1>4. \A q \in Procs : held'[q] = IF q = p THEN NoConn ELSE held[q]
  BY <1>1, <1>2
<1>5. NoConn \notin Idle /\ NoConn \notin conns_to_close
  BY PgPoolAssumption DEF TypeInv, TypeOK, Idle
<1>6. \A i, j \in 1 .. Len(connections') : connections'[i] = connections'[j] => i = j
  BY <1>2 DEF Distinct
<1>7. \A q, r \in Procs : held'[q] = held'[r] => q = r \/ held'[q] = NoConn
  BY <1>4 DEF Placed
<1>8. \A q \in Procs : held'[q] \notin Idle' \cup conns_to_close'
  BY <1>1, <1>2, <1>4, <1>5 DEF Placed
<1>9. Idle' \cap conns_to_close' = {}
  BY <1>1, <1>2 DEF Placed
<1>10. \A d \in Conns : health'[d] # "none"
                        <=> d \in Idle' \cup conns_to_close' \cup {held'[q] : q \in Procs}
  <2> SUFFICES ASSUME NEW d \in Conns
               PROVE  health[d] # "none"
                      <=> d \in Idle' \cup conns_to_close \/ \E q \in Procs : d = held'[q]
    OBVIOUS
  <2>1. health[d] # "none" <=> d \in Idle \cup conns_to_close \/ \E q \in Procs : d = held[q]
    BY DEF Placed
  <2>2. d # NoConn
    BY PgPoolAssumption
  <2> QED
    BY <1>1, <1>2, <1>4, <2>1, <2>2
<1> QED
  BY <1>6, <1>7, <1>8, <1>9, <1>10 DEF Placed

\* Nothing moves, and no connection opens or closes.
LEMMA PlacedSame ==
  ASSUME Placed, UNCHANGED <<connections, held, conns_to_close>>,
         \A c \in Conns : health'[c] = "none" <=> health[c] = "none"
  PROVE  Placed'
BY DEF Placed, Idle

LEMMA PlacedNext == TypeInv /\ Placed /\ [Next]_vars => Placed'
<1> SUFFICES ASSUME TypeInv, Placed, [Next]_vars PROVE Placed'
  OBVIOUS
<1>0. /\ held \in [Procs -> Conns \cup {NoConn}] /\ health \in [Conns -> {"none", "good", "dead"}]
      /\ conns_to_close \subseteq Conns /\ connections \in Seq(Conns)
      /\ \A q \in Procs : stage[q] \in Holding <=> held[q] # NoConn
  BY DEF TypeInv, TypeOK, Shape
<1>1. CASE Stops
  BY <1>0, <1>1, PlacedSame DEF Stops, procVars, managerVars
<1>2. CASE Starts
  BY <1>2, PlacedSame DEF Starts, procVars, managerVars
<1>3. ASSUME NEW p \in Procs, Step(p) PROVE Placed'
  <2>1. CASE GetIdle(p)
    <3>1. held[p] = NoConn
      BY <1>0, <2>1 DEF GetIdle, Holding
    <3> QED
      BY <2>1, <3>1, PlacedTake DEF GetIdle, managerVars
  <2>2. CASE Woken(p)
    <3>1. held[p] = NoConn
      BY <1>0, <2>2 DEF Woken, Holding
    <3>2. UNCHANGED <<health, conns_to_close>>
      BY <2>2 DEF Woken, managerVars
    <3>3. CASE UNCHANGED <<connections, stage, held>>
      BY <3>2, <3>3, PlacedSame
    <3> QED
      BY <2>2, <3>1, <3>2, <3>3, PlacedTake DEF Woken
  <2>3. CASE Connects(p)
    <3>1. PICK c \in Conns : /\ health[c] = "none" /\ health' = [health EXCEPT ![c] = "good"]
                             /\ held' = [held EXCEPT ![p] = c]
      BY <2>3 DEF Connects, Hold
    <3>2. held[p] = NoConn /\ connections' = connections /\ conns_to_close' = conns_to_close
      BY <1>0, <2>3 DEF Connects, Holding, managerVars
    <3>3. c \notin Idle /\ c \notin conns_to_close /\ \A q \in Procs : held[q] # c
      BY <3>1 DEF Placed
    <3>4. c # NoConn /\ \A d \in Conns : d # NoConn
      BY PgPoolAssumption
    <3>5. \A q \in Procs : held'[q] = IF q = p THEN c ELSE held[q]
      BY <1>0, <3>1
    <3>6. Idle' = Idle
      BY <3>2 DEF Idle
    <3>7. \A q, r \in Procs : held'[q] = held'[r] => q = r \/ held'[q] = NoConn
      BY <3>3, <3>5 DEF Placed
    <3>8. \A q \in Procs : held'[q] \notin Idle' \cup conns_to_close'
      BY <3>2, <3>3, <3>5, <3>6 DEF Placed
    <3>9. \A d \in Conns : health'[d] # "none"
                           <=> d \in Idle' \cup conns_to_close' \/ \E q \in Procs : d = held'[q]
      <4> SUFFICES ASSUME NEW d \in Conns
                   PROVE  health'[d] # "none"
                          <=> d \in Idle \cup conns_to_close \/ \E q \in Procs : d = held'[q]
        BY <3>2, <3>6
      <4>1. health[d] # "none" <=> d \in Idle \cup conns_to_close \/ \E q \in Procs : d = held[q]
        BY DEF Placed
      <4>2. health'[d] = IF d = c THEN "good" ELSE health[d]
        BY <1>0, <3>1
      <4> QED
        BY <3>2, <3>4, <3>5, <4>1, <4>2
    <3> QED
      BY <3>2, <3>6, <3>7, <3>8, <3>9 DEF Placed
  <2>4. CASE Succeeds(p) \/ Errs(p)
    <3>1. held[p] # NoConn /\ Release(p) /\ UNCHANGED <<health, conns_to_close>>
      BY <1>0, <2>4 DEF Succeeds, Errs, Holding, managerVars
    <3> QED
      BY <3>1, PlacedRelease
  <2>5. CASE Finishes(p)
    <3>1. /\ held[p] \in Conns /\ health' = [health EXCEPT ![held[p]] = "none"]
          /\ held' = [held EXCEPT ![p] = NoConn]
          /\ connections' = connections /\ conns_to_close' = conns_to_close
      BY <1>0, <2>5 DEF Finishes, Hold, Holding, managerVars
    <3>2. \A q \in Procs : held'[q] = IF q = p THEN NoConn ELSE held[q]
      BY <1>0, <3>1
    <3>3. Idle' = Idle
      BY <3>1 DEF Idle
    <3>4. NoConn \notin Idle /\ NoConn \notin conns_to_close /\ held[p] # NoConn
      BY <1>0, <3>1, PgPoolAssumption DEF Idle
    <3>5. \A q, r \in Procs : held'[q] = held'[r] => q = r \/ held'[q] = NoConn
      BY <3>2 DEF Placed
    <3>6. \A q \in Procs : held'[q] \notin Idle' \cup conns_to_close'
      BY <3>1, <3>2, <3>3, <3>4 DEF Placed
    <3>7. \A d \in Conns : health'[d] # "none"
                           <=> d \in Idle' \cup conns_to_close' \/ \E q \in Procs : d = held'[q]
      <4> SUFFICES ASSUME NEW d \in Conns
                   PROVE  health'[d] # "none"
                          <=> d \in Idle \cup conns_to_close \/ \E q \in Procs : d = held'[q]
        BY <3>1, <3>3
      <4>1. health[d] # "none" <=> d \in Idle \cup conns_to_close \/ \E q \in Procs : d = held[q]
        BY DEF Placed
      <4>2. health'[d] = IF d = held[p] THEN "none" ELSE health[d]
        BY <1>0, <3>1
      <4>3. CASE d = held[p]
        <5>1. d \notin Idle \cup conns_to_close /\ \A q \in Procs : d = held[q] => q = p
          BY <3>4, <4>3 DEF Placed
        <5>2. d # NoConn
          BY <3>4, <4>3
        <5> QED
          BY <3>2, <4>2, <4>3, <5>1, <5>2
      <4>4. CASE d # held[p]
        <5>1. d # NoConn
          BY PgPoolAssumption
        <5> QED
          BY <3>2, <4>1, <4>2, <4>4, <5>1
      <4> QED
        BY <4>3, <4>4
    <3> QED
      BY <3>1, <3>3, <3>5, <3>6, <3>7 DEF Placed
  <2>6. CASE Begin(p) \/ GetNew(p) \/ Wait(p) \/ ConnectFails(p) \/ PrepareFails(p)
             \/ CountsTwice(p) \/ Breaks(p)
    <3>1. UNCHANGED <<connections, held, conns_to_close, health>>
      BY <2>6 DEF Begin, GetNew, Wait, ConnectFails, PrepareFails, CountsTwice, Breaks, managerVars
    <3> QED
      BY <3>1, PlacedSame
  <2> QED
    BY <1>3, <2>1, <2>2, <2>3, <2>4, <2>5, <2>6 DEF Step
<1>4. CASE ManagerWaits
  BY <1>4, PlacedSame DEF ManagerWaits, procVars
<1>5. CASE ManagerShrinks
  <2>1. /\ Idle = Idle' \cup conns_to_close' /\ Idle' \cap conns_to_close' = {}
        /\ Distinct(connections')
    BY <1>5, ShrinkFacts, PlacedDistinct DEF TypeInv
  <2>2. conns_to_close = {} /\ health' = health /\ held' = held
    BY <1>5 DEF ManagerShrinks, procVars
  <2>3. \A i, j \in 1 .. Len(connections') : connections'[i] = connections'[j] => i = j
    BY <2>1 DEF Distinct
  <2> QED
    BY <2>1, <2>2, <2>3 DEF Placed
<1>6. CASE ManagerCloses
  <2>1. /\ health' = [c \in Conns |-> IF c \in conns_to_close THEN "none" ELSE health[c]]
        /\ conns_to_close' = {} /\ held' = held /\ connections' = connections /\ Idle' = Idle
    BY <1>6 DEF ManagerCloses, procVars, Idle
  <2>2. \A d \in Conns : health'[d] # "none"
                         <=> d \in Idle \cup {held[q] : q \in Procs}
    <3> SUFFICES ASSUME NEW d \in Conns
                 PROVE  health'[d] # "none" <=> d \in Idle \/ \E q \in Procs : d = held[q]
      OBVIOUS
    <3>1. health[d] # "none" <=> d \in Idle \cup conns_to_close \/ \E q \in Procs : d = held[q]
      BY DEF Placed
    <3>2. d \in conns_to_close => d \notin Idle /\ \A q \in Procs : d # held[q]
      BY DEF Placed
    <3>3. health'[d] = IF d \in conns_to_close THEN "none" ELSE health[d]
      BY <2>1
    <3> QED
      BY <3>1, <3>2, <3>3
  <2> QED
    BY <2>1, <2>2 DEF Placed
<1>7. CASE UNCHANGED vars
  BY <1>7, PlacedSame DEF vars, procVars, managerVars
<1> QED
  BY <1>1, <1>2, <1>3, <1>4, <1>5, <1>6, <1>7 DEF Next

LEMMA InitPlaced == Init => Placed
<1> SUFFICES ASSUME Init PROVE Placed
  OBVIOUS
<1>1. /\ \A c \in Conns : health[c] = IF c \in Idle THEN "good" ELSE "none"
      /\ Distinct(connections)
  BY InitFacts
<1>2. conns_to_close = {} /\ \A p \in Procs : held[p] = NoConn
  BY DEF Init
<1>3. NoConn \notin Idle /\ \A c \in Conns : c # NoConn
  BY InitFacts, PgPoolAssumption DEF Idle
<1>4. \A i, j \in 1 .. Len(connections) : connections[i] = connections[j] => i = j
  BY <1>1 DEF Distinct
<1> QED
  BY <1>1, <1>2, <1>3, <1>4 DEF Placed

\* No connection is shared, lost or used after it was closed.
THEOREM Placement == Spec => []Placed
BY InitType, InitPlaced, NextType, PlacedNext, PTL DEF Spec

-----------------------------------------------------------------------------
(* No thread sleeps on while a connection is idle. *)

\* Whoever is notified is on its way.
LEMMA NotifyWakes ==
  ASSUME TypeInv, NotifyOne, \A w \in waiting : stage'[w] = stage[w]
  PROVE  NoLostNotify'
<1>1. waiting \subseteq Procs /\ \A w \in waiting : stage[w] = "wait"
  BY DEF TypeInv, TypeOK, Shape
<1>2. waiting' \subseteq waiting /\ (waiting # {} => \E w \in waiting : w \notin waiting')
  BY <1>1, NotifyFacts
<1>3. waiting' # {} => \E w \in Procs \ waiting' : stage'[w] = "wait"
  BY <1>1, <1>2
<1> QED
  BY <1>3 DEF NoLostNotify

LEMMA NotifyNext == TypeInv /\ NoLostNotify /\ [Next]_vars => NoLostNotify'
<1> SUFFICES ASSUME TypeInv, NoLostNotify, [Next]_vars PROVE NoLostNotify'
  OBVIOUS
<1>0. /\ waiting \subseteq Procs /\ \A w \in waiting : stage[w] = "wait"
      /\ stage \in [Procs -> Stages]
  BY DEF TypeInv, TypeOK, Shape
<1>1. CASE \/ Stops \/ Starts \/ ManagerCloses \/ UNCHANGED vars
  <2>1. UNCHANGED <<stage, waiting, connections>>
    BY <1>1 DEF Stops, Starts, ManagerCloses, vars, procVars
  <2> QED
    BY <2>1 DEF NoLostNotify
<1>2. ASSUME NEW p \in Procs, Step(p) PROVE NoLostNotify'
  <2>1. CASE GetNew(p) \/ Wait(p)
    BY <2>1 DEF GetNew, Wait, NoLostNotify
  <2>2. CASE Begin(p)
    <3>1. /\ stage[p] = "ready" /\ stage' = [stage EXCEPT ![p] = "get"]
          /\ UNCHANGED <<waiting, connections>>
      BY <2>2 DEF Begin, Goto
    <3> QED
      BY <1>0, <3>1 DEF NoLostNotify
  <2>3. CASE Finishes(p)
    <3>1. stage[p] = "finish" /\ UNCHANGED <<waiting, connections>>
      BY <2>3 DEF Finishes
    <3>2. \E s \in {"get", "ready"} : stage' = [stage EXCEPT ![p] = s]
      BY <2>3, TryFacts DEF Finishes, TypeInv
    <3> QED
      BY <1>0, <3>1, <3>2 DEF NoLostNotify
  <2>4. CASE Woken(p) /\ connections = <<>>
    BY <2>4 DEF Woken, NoLostNotify
  <2>5. CASE Woken(p) /\ connections # <<>>
    <3>1. NotifyOne /\ stage' = [stage EXCEPT ![p] = "execute"] /\ p \notin waiting
      BY <2>5 DEF Woken, Take, Goto
    <3>2. \A w \in waiting : stage'[w] = stage[w]
      BY <1>0, <3>1
    <3> QED
      BY <3>1, <3>2, NotifyWakes
  <2>6. CASE \/ GetIdle(p) \/ Connects(p) \/ ConnectFails(p) \/ PrepareFails(p)
             \/ CountsTwice(p) \/ Succeeds(p) \/ Errs(p) \/ Breaks(p)
    <3>1. NotifyOne /\ stage[p] # "wait"
      BY <2>6 DEF GetIdle, Connects, ConnectFails, PrepareFails, CountsTwice, Succeeds, Errs,
                  Breaks, Release
    <3>2. \E s : stage' = [stage EXCEPT ![p] = s]
      <4>1. CASE GetIdle(p) \/ Connects(p) \/ PrepareFails(p) \/ Breaks(p)
        BY <4>1 DEF GetIdle, Connects, PrepareFails, Breaks, Take, Goto
      <4>2. CASE ConnectFails(p) \/ CountsTwice(p) \/ Succeeds(p) \/ Errs(p)
        <5>1. TryAgain(p) \/ Done(p)
          BY <4>2 DEF ConnectFails, CountsTwice, Succeeds, Errs
        <5> QED
          BY <5>1, TryFacts DEF TypeInv
      <4> QED
        BY <2>6, <4>1, <4>2
    <3>3. \A w \in waiting : stage'[w] = stage[w]
      BY <1>0, <3>1, <3>2
    <3> QED
      BY <3>1, <3>3, NotifyWakes
  <2> QED
    BY <1>2, <2>1, <2>2, <2>3, <2>4, <2>5, <2>6 DEF Step
<1>3. CASE ManagerWaits \/ ManagerShrinks
  <2>1. NotifyOne /\ stage' = stage
    BY <1>3 DEF ManagerWaits, ManagerShrinks, procVars
  <2> QED
    BY <2>1, NotifyWakes
<1> QED
  BY <1>1, <1>2, <1>3 DEF Next

\* A thread that sleeps in get_connection beside an idle connection has one
\* before it that was notified: connections_cv loses no notification.
THEOREM NotifyNotLost == Spec => []NoLostNotify
<1>1. Init => NoLostNotify
  BY DEF Init, NoLostNotify
<1> QED
  BY <1>1, InitType, NextType, NotifyNext, PTL DEF Spec

-----------------------------------------------------------------------------
(* The count. *)

\* What a thread in stage s adds to the count.
Share(s) == IF s \in {"connect", "execute"} THEN 1 ELSE 0

\* The number of threads that are counted changes with the stage of the one
\* that moves.
LEMMA CountingMoved ==
  ASSUME TypeInv, NEW p \in Procs, NEW s \in Stages, stage' = [stage EXCEPT ![p] = s]
  PROVE  /\ Cardinality(Counting) \in Nat /\ Cardinality(Counting') \in Nat
         /\ Cardinality(Counting') + Share(stage[p]) = Cardinality(Counting) + Share(s)
<1> DEFINE rest == Counting \ {p}
<1>1. stage \in [Procs -> Stages] /\ IsFiniteSet(Procs)
  BY PgPoolAssumption DEF TypeInv, TypeOK
<1>2. \A q \in Procs : stage'[q] = IF q = p THEN s ELSE stage[q]
  BY <1>1
<1>3. IsFiniteSet(Counting) /\ IsFiniteSet(rest) /\ p \notin rest
  BY <1>1, FS_Subset DEF Counting
<1>4. Cardinality(rest) \in Nat
  BY <1>3, FS_CardinalityType
<1>5. Cardinality(rest \cup {p}) = Cardinality(rest) + 1
  BY <1>3, FS_AddElement
<1>6. Cardinality(Counting) = Cardinality(rest) + Share(stage[p])
  <2>1. Counting = IF stage[p] \in {"connect", "execute"} THEN rest \cup {p} ELSE rest
    BY DEF Counting
  <2>2. CASE stage[p] \in {"connect", "execute"}
    BY <1>5, <2>1, <2>2 DEF Share
  <2>3. CASE stage[p] \notin {"connect", "execute"}
    <3>1. Cardinality(Counting) = Cardinality(rest) /\ Share(stage[p]) = 0
      BY <2>1, <2>3 DEF Share
    <3> QED
      BY <1>4, <3>1
  <2> QED
    BY <2>2, <2>3
<1>7. Cardinality(Counting') = Cardinality(rest) + Share(s)
  <2>1. Counting' = IF s \in {"connect", "execute"} THEN rest \cup {p} ELSE rest
    BY <1>2 DEF Counting
  <2>2. CASE s \in {"connect", "execute"}
    BY <1>5, <2>1, <2>2 DEF Share
  <2>3. CASE s \notin {"connect", "execute"}
    <3>1. Cardinality(Counting') = Cardinality(rest) /\ Share(s) = 0
      BY <2>1, <2>3 DEF Share
    <3> QED
      BY <1>4, <3>1
  <2> QED
    BY <2>2, <2>3
<1>8. Share(s) \in Nat /\ Share(stage[p]) \in Nat
  BY DEF Share
<1> HIDE DEF rest
<1> QED
  BY <1>4, <1>6, <1>7, <1>8

\* A step that moves p and the count alike keeps it right.
LEMMA CountedMoved ==
  ASSUME TypeInv, TypeInv', Counted,
         NEW p \in Procs, NEW s \in Stages, stage' = [stage EXCEPT ![p] = s],
         currentConnections' + doubled' + Len(connections) + Share(stage[p])
         = currentConnections + doubled + Len(connections') + Share(s),
         currentConnections' <= currentConnections \/ currentConnections' <= MaxConnections
  PROVE  Counted'
<1>1. /\ currentConnections \in Int /\ currentConnections' \in Int
      /\ doubled \in Int /\ doubled' \in Int
      /\ Len(connections) \in Int /\ Len(connections') \in Int
      /\ MaxConnections \in Int /\ MinConnections \in Int
      /\ Share(stage[p]) \in Int /\ Share(s) \in Int
  BY PgPoolAssumption DEF TypeInv, TypeOK, Share
<1>2. /\ Cardinality(Counting) \in Nat /\ Cardinality(Counting') \in Nat
      /\ Cardinality(Counting') + Share(stage[p]) = Cardinality(Counting) + Share(s)
  BY CountingMoved
<1>3. currentConnections + doubled = Len(connections) + Cardinality(Counting)
  BY DEF Counted
<1>4. currentConnections' + doubled' = Len(connections') + Cardinality(Counting')
  <2> DEFINE a == Share(stage[p])
             b == Share(s)
             m == Cardinality(Counting)
             n == Cardinality(Counting')
             k == Len(connections)
             l == Len(connections')
             x == currentConnections + doubled
             y == currentConnections' + doubled'
  <2>1. /\ a \in Int /\ b \in Int /\ m \in Int /\ n \in Int /\ k \in Int /\ l \in Int
        /\ x \in Int /\ y \in Int
        /\ n + a = m + b /\ x = k + m
    BY <1>1, <1>2, <1>3
  <2>3. y + k + a = x + l + b
    OBVIOUS
  <2> HIDE DEF a, b, m, n, k, l, x, y
  <2>2. y = l + n
    BY <2>1, <2>3
  <2> QED
    BY <2>2 DEF y, l, n
<1>5. currentConnections' <= MaxConnections \/ currentConnections' <= MinConnections
  <2>1. currentConnections <= MaxConnections \/ currentConnections <= MinConnections
    BY DEF Counted
  <2>2. currentConnections' <= currentConnections \/ currentConnections' <= MaxConnections
    OBVIOUS
  <2> QED
    BY ONLY <1>1, <2>1, <2>2
<1> QED
  BY <1>4, <1>5 DEF Counted

\* Nothing that is counted moves.
LEMMA CountedSame ==
  ASSUME Counted, UNCHANGED <<currentConnections, doubled, connections, stage>>
  PROVE  Counted'
<1>1. Counting' = Counting
  BY DEF Counting
<1> QED
  BY <1>1 DEF Counted

LEMMA CountedStep ==
  ASSUME TypeInv, TypeInv', Counted, NEW p \in Procs, Step(p)
  PROVE  Counted'
<1>0. /\ TypeOK /\ currentConnections \in Int /\ doubled \in Nat /\ Len(connections) \in Nat
      /\ stage[p] \in Holding <=> held[p] # NoConn
      /\ held[p] \in Conns \cup {NoConn} /\ MaxConnections \in Nat
  BY PgPoolAssumption DEF TypeInv, TypeOK, Shape
<1>h. /\ {"ready", "get", "wait", "connect", "thrown", "execute", "finish"} \subseteq Stages
      /\ {"execute", "finish"} \subseteq Holding
      /\ \A s \in {"ready", "get", "wait", "thrown", "finish"} : Share(s) = 0
      /\ \A s \in {"connect", "execute"} : Share(s) = 1
  BY DEF Stages, Share, Holding
<1>1. CASE Begin(p)
  <2>1. /\ stage[p] = "ready" /\ stage' = [stage EXCEPT ![p] = "get"]
        /\ UNCHANGED <<connections, currentConnections, doubled>>
    BY <1>1 DEF Begin, Goto
  <2>2. Share(stage[p]) = 0 /\ Share("get") = 0 /\ "get" \in Stages
    BY <1>h, <2>1
  <2>3. currentConnections' + doubled' + Len(connections) + Share(stage[p])
        = currentConnections + doubled + Len(connections') + Share("get")
    BY <1>0, <2>1, <2>2
  <2>4. currentConnections' <= currentConnections \/ currentConnections' <= MaxConnections
    BY <1>0, <2>1
  <2> QED
    BY <2>1, <2>2, <2>3, <2>4, CountedMoved
<1>2. CASE GetIdle(p) \/ (Woken(p) /\ connections # <<>>)
  <2>1. /\ stage[p] \in {"get", "wait"} /\ Take(p) /\ connections # <<>>
        /\ UNCHANGED <<currentConnections, doubled>>
    BY <1>2 DEF GetIdle, Woken
  <2>2. stage' = [stage EXCEPT ![p] = "execute"] /\ Len(connections') = Len(connections) - 1
    BY <1>0, <2>1, TakeFacts
  <2>3. Share(stage[p]) = 0 /\ Share("execute") = 1 /\ "execute" \in Stages
    BY <1>h, <2>1
  <2>4. currentConnections' + doubled' + Len(connections) + Share(stage[p])
        = currentConnections + doubled + Len(connections') + Share("execute")
    BY <1>0, <2>1, <2>2, <2>3
  <2>5. currentConnections' <= currentConnections
    BY <1>0, <2>1
  <2> QED
    BY <2>2, <2>3, <2>4, <2>5, CountedMoved
<1>3. CASE Woken(p) /\ connections = <<>>
  <2>1. UNCHANGED <<currentConnections, doubled, connections, stage>>
    BY <1>3 DEF Woken
  <2> QED
    BY <2>1, CountedSame
<1>4. CASE GetNew(p)
  <2>1. /\ stage[p] = "get" /\ stage' = [stage EXCEPT ![p] = "connect"]
        /\ currentConnections' = currentConnections + 1 /\ currentConnections < MaxConnections
        /\ UNCHANGED <<connections, doubled>>
    BY <1>4 DEF GetNew, Goto
  <2>2. Share(stage[p]) = 0 /\ Share("connect") = 1 /\ "connect" \in Stages
    BY <1>h, <2>1
  <2>3. currentConnections' + doubled' + Len(connections) + Share(stage[p])
        = currentConnections + doubled + Len(connections') + Share("connect")
    BY <1>0, <2>1, <2>2
  <2>4. currentConnections' <= currentConnections \/ currentConnections' <= MaxConnections
    BY <1>0, <2>1
  <2> QED
    BY <2>1, <2>2, <2>3, <2>4, CountedMoved
<1>5. CASE Wait(p)
  <2>1. /\ stage[p] = "get" /\ stage' = [stage EXCEPT ![p] = "wait"]
        /\ UNCHANGED <<connections, currentConnections, doubled>>
    BY <1>5 DEF Wait, Goto
  <2>2. Share(stage[p]) = 0 /\ Share("wait") = 0 /\ "wait" \in Stages
    BY <1>h, <2>1
  <2>3. currentConnections' + doubled' + Len(connections) + Share(stage[p])
        = currentConnections + doubled + Len(connections') + Share("wait")
    BY <1>0, <2>1, <2>2
  <2>4. currentConnections' <= currentConnections \/ currentConnections' <= MaxConnections
    BY <1>0, <2>1
  <2> QED
    BY <2>1, <2>2, <2>3, <2>4, CountedMoved
<1>6. CASE Connects(p)
  <2>1. /\ stage[p] = "connect" /\ stage' = [stage EXCEPT ![p] = "execute"]
        /\ UNCHANGED <<connections, currentConnections, doubled>>
    BY <1>6 DEF Connects, Goto
  <2>2. Share(stage[p]) = 1 /\ Share("execute") = 1 /\ "execute" \in Stages
    BY <1>h, <2>1
  <2>3. currentConnections' + doubled' + Len(connections) + Share(stage[p])
        = currentConnections + doubled + Len(connections') + Share("execute")
    BY <1>0, <2>1, <2>2
  <2>4. currentConnections' <= currentConnections \/ currentConnections' <= MaxConnections
    BY <1>0, <2>1
  <2> QED
    BY <2>1, <2>2, <2>3, <2>4, CountedMoved
<1>7. CASE ConnectFails(p)
  <2>1. /\ stage[p] = "connect" /\ currentConnections' = currentConnections - 1
        /\ UNCHANGED <<connections, doubled>>
    BY <1>7 DEF ConnectFails
  <2>2. PICK s \in {"get", "ready"} : stage' = [stage EXCEPT ![p] = s]
    BY <1>0, <1>7, TryFacts DEF ConnectFails
  <2>3. Share(stage[p]) = 1 /\ Share(s) = 0 /\ s \in Stages
    BY <1>h, <2>1, <2>2
  <2>4. currentConnections' + doubled' + Len(connections) + Share(stage[p])
        = currentConnections + doubled + Len(connections') + Share(s)
    BY <1>0, <2>1, <2>3
  <2>5. currentConnections' <= currentConnections
    BY <1>0, <2>1
  <2> QED
    BY <2>2, <2>3, <2>4, <2>5, CountedMoved
<1>8. CASE PrepareFails(p)
  <2>1. /\ stage[p] = "connect" /\ currentConnections' = currentConnections - 1
        /\ stage' = [stage EXCEPT ![p] = "thrown"]
        /\ UNCHANGED <<connections, doubled>>
    BY <1>8 DEF PrepareFails, Goto
  <2>2. Share(stage[p]) = 1 /\ Share("thrown") = 0 /\ "thrown" \in Stages
    BY <1>h, <2>1
  <2>3. currentConnections' + doubled' + Len(connections) + Share(stage[p])
        = currentConnections + doubled + Len(connections') + Share("thrown")
    BY <1>0, <2>1, <2>2
  <2>4. currentConnections' <= currentConnections \/ currentConnections' <= MaxConnections
    BY <1>0, <2>1
  <2> QED
    BY <2>1, <2>2, <2>3, <2>4, CountedMoved
<1>9. CASE CountsTwice(p)
  <2>1. /\ stage[p] = "thrown" /\ currentConnections' = currentConnections - 1
        /\ doubled' = doubled + 1 /\ UNCHANGED connections
    BY <1>9 DEF CountsTwice
  <2>2. PICK s \in {"get", "ready"} : stage' = [stage EXCEPT ![p] = s]
    BY <1>0, <1>9, TryFacts DEF CountsTwice
  <2>3. Share(stage[p]) = 0 /\ Share(s) = 0 /\ s \in Stages
    BY <1>h, <2>1, <2>2
  <2>4. currentConnections' + doubled' + Len(connections) + Share(stage[p])
        = currentConnections + doubled + Len(connections') + Share(s)
    BY <1>0, <2>1, <2>3
  <2>5. currentConnections' <= currentConnections
    BY <1>0, <2>1
  <2> QED
    BY <2>2, <2>3, <2>4, <2>5, CountedMoved
<1>10. CASE Succeeds(p) \/ Errs(p)
  <2>1. /\ stage[p] = "execute" /\ Release(p) /\ (TryAgain(p) \/ Done(p))
        /\ UNCHANGED <<currentConnections, doubled>>
    BY <1>10 DEF Succeeds, Errs
  <2>2. Len(connections') = Len(connections) + 1
    <3>1. held[p] \in Conns
      BY <1>0, <1>h, <2>1
    <3> QED
      BY <1>0, <2>1, <3>1, ReleaseFacts
  <2>3. PICK s \in {"get", "ready"} : stage' = [stage EXCEPT ![p] = s]
    BY <1>0, <2>1, TryFacts
  <2>4. Share(stage[p]) = 1 /\ Share(s) = 0 /\ s \in Stages
    BY <1>h, <2>1, <2>3
  <2>5. currentConnections' + doubled' + Len(connections) + Share(stage[p])
        = currentConnections + doubled + Len(connections') + Share(s)
    BY <1>0, <2>1, <2>2, <2>4
  <2>6. currentConnections' <= currentConnections
    BY <1>0, <2>1
  <2> QED
    BY <2>3, <2>4, <2>5, <2>6, CountedMoved
<1>11. CASE Breaks(p)
  <2>1. /\ stage[p] = "execute" /\ currentConnections' = currentConnections - 1
        /\ stage' = [stage EXCEPT ![p] = "finish"]
        /\ UNCHANGED <<connections, doubled>>
    BY <1>11 DEF Breaks, Goto
  <2>2. Share(stage[p]) = 1 /\ Share("finish") = 0 /\ "finish" \in Stages
    BY <1>h, <2>1
  <2>3. currentConnections' + doubled' + Len(connections) + Share(stage[p])
        = currentConnections + doubled + Len(connections') + Share("finish")
    BY <1>0, <2>1, <2>2
  <2>4. currentConnections' <= currentConnections \/ currentConnections' <= MaxConnections
    BY <1>0, <2>1
  <2> QED
    BY <2>1, <2>2, <2>3, <2>4, CountedMoved
<1>12. CASE Finishes(p)
  <2>1. stage[p] = "finish" /\ UNCHANGED <<currentConnections, connections, doubled>>
    BY <1>12 DEF Finishes
  <2>2. PICK s \in {"get", "ready"} : stage' = [stage EXCEPT ![p] = s]
    BY <1>0, <1>12, TryFacts DEF Finishes
  <2>3. Share(stage[p]) = 0 /\ Share(s) = 0 /\ s \in Stages
    BY <1>h, <2>1, <2>2
  <2>4. currentConnections' + doubled' + Len(connections) + Share(stage[p])
        = currentConnections + doubled + Len(connections') + Share(s)
    BY <1>0, <2>1, <2>3
  <2>5. currentConnections' <= currentConnections
    BY <1>0, <2>1
  <2> QED
    BY <2>2, <2>3, <2>4, <2>5, CountedMoved
<1> QED
  BY <1>1, <1>2, <1>3, <1>4, <1>5, <1>6, <1>7, <1>8, <1>9, <1>10, <1>11, <1>12 DEF Step

LEMMA CountedNext == TypeInv /\ Counted /\ [Next]_vars => Counted'
<1> SUFFICES ASSUME TypeInv, Counted, [Next]_vars PROVE Counted'
  OBVIOUS
<1>1. TypeInv'
  BY NextType
<1>2. ASSUME NEW p \in Procs, Step(p) PROVE Counted'
  BY <1>1, <1>2, CountedStep
<1>3. CASE ManagerShrinks
  <2>1. Len(connections') = Len(connections) - ToClose
    BY <1>3, ShrinkFacts DEF TypeInv
  <2>2. ToClose \in 1 .. Len(connections)
    BY <1>3, ShrinkArithmetic DEF ManagerShrinks, TypeInv
  <2>3. /\ currentConnections' = currentConnections - ToClose
        /\ UNCHANGED <<stage, doubled>>
    BY <1>3 DEF ManagerShrinks, procVars
  <2>4. Counting' = Counting
    BY <2>3 DEF Counting
  <2>5. Cardinality(Counting) \in Nat
    BY PgPoolAssumption, FS_Subset, FS_CardinalityType DEF Counting
  <2>6. /\ currentConnections \in Int /\ doubled \in Nat /\ Len(connections) \in Nat
        /\ ToClose \in Int /\ ToClose >= 1 /\ MinConnections \in Nat /\ MaxConnections \in Nat
    BY <2>2, PgPoolAssumption DEF TypeInv, TypeOK
  <2>7. currentConnections' + doubled' = Len(connections') + Cardinality(Counting')
    BY <2>1, <2>3, <2>4, <2>5, <2>6 DEF Counted
  <2>8. currentConnections' <= MaxConnections \/ currentConnections' <= MinConnections
    BY <2>3, <2>6 DEF Counted
  <2> QED
    BY <2>7, <2>8 DEF Counted
<1>4. CASE Stops \/ Starts \/ ManagerWaits \/ ManagerCloses \/ UNCHANGED vars
  <2>1. UNCHANGED <<currentConnections, doubled, connections, stage>>
    BY <1>4 DEF Stops, Starts, ManagerWaits, ManagerCloses, vars, procVars
  <2> QED
    BY <2>1, CountedSame
<1> QED
  BY <1>2, <1>3, <1>4 DEF Next

\* The count and the maximum, but for the connections counted off twice.
THEOREM Accounting == Spec => []Counted
<1>1. Init => Counted
  <2> SUFFICES ASSUME Init PROVE Counted
    OBVIOUS
  <2>1. currentConnections = Len(connections) /\ Len(connections) \in 0 .. MinConnections
    BY InitFacts
  <2>2. Counting = {} /\ doubled = 0
    BY DEF Init, Counting
  <2> QED
    BY <2>1, <2>2, FS_EmptySet, PgPoolAssumption DEF Counted
<1> QED
  BY <1>1, InitType, NextType, CountedNext, PTL DEF Spec

-----------------------------------------------------------------------------
(* The pool implements ConnectionPool. *)

OpenConns == {c \in Conns : health[c] # "none"}

\* Nothing moves, and no connection opens or closes.
LEMMA NothingMoves ==
  ASSUME UNCHANGED <<connections, held, conns_to_close>>,
         \A c \in Conns : health'[c] = "none" <=> health[c] = "none"
  PROVE  UNCHANGED Pool!poolVars
<1>1. Idle' = Idle
  BY DEF Idle
<1>2. {c \in Conns : health'[c] # "none"} = {c \in Conns : health[c] # "none"}
  OBVIOUS
<1> QED
  BY <1>1, <1>2 DEF Pool!poolVars

LEMMA TakeLends ==
  ASSUME TypeInv, Placed, NEW p \in Procs, held[p] = NoConn, connections # <<>>, Take(p),
         UNCHANGED <<health, conns_to_close>>
  PROVE  \E c \in Conns : Pool!Lend(p, c)
<1>1. PICK c \in Conns :
         /\ held' = [held EXCEPT ![p] = c] /\ Idle = Idle' \cup {c} /\ c \notin Idle'
  BY TakeFacts, PlacedDistinct DEF TypeInv
<1>2. Idle' = Idle \ {c} /\ c \in Idle
  BY <1>1
<1>3. Pool!Lend(p, c)
  BY <1>1, <1>2 DEF Pool!Lend
<1> QED
  BY <1>3

LEMMA StepImplements ==
  ASSUME TypeInv, Placed, NEW p \in Procs, Step(p)
  PROVE  \/ \E c \in Conns : Pool!Open(p, c) \/ Pool!Lend(p, c)
         \/ Pool!GiveBack(p) \/ Pool!Discard(p)
         \/ UNCHANGED Pool!poolVars
<1>0. /\ held \in [Procs -> Conns \cup {NoConn}] /\ health \in [Conns -> {"none", "good", "dead"}]
      /\ \A q \in Procs : stage[q] \in Holding <=> held[q] # NoConn
  BY DEF TypeInv, TypeOK, Shape
<1>1. CASE GetIdle(p)
  <2>1. held[p] = NoConn
    BY <1>0, <1>1 DEF GetIdle, Holding
  <2> QED
    BY <1>1, <2>1, TakeLends DEF GetIdle, managerVars
<1>2. CASE Woken(p)
  <2>1. held[p] = NoConn /\ UNCHANGED <<health, conns_to_close>>
    BY <1>0, <1>2 DEF Woken, Holding, managerVars
  <2>2. CASE UNCHANGED <<connections, stage, held>>
    BY <2>1, <2>2, NothingMoves
  <2> QED
    BY <1>2, <2>1, <2>2, TakeLends DEF Woken
<1>3. CASE Connects(p)
  <2>1. PICK c \in Conns : /\ health[c] = "none" /\ health' = [health EXCEPT ![c] = "good"]
                           /\ held' = [held EXCEPT ![p] = c]
    BY <1>3 DEF Connects, Hold
  <2>2. held[p] = NoConn /\ UNCHANGED <<connections, conns_to_close>>
    BY <1>0, <1>3 DEF Connects, Holding, managerVars
  <2>3. Idle' = Idle
    BY <2>2 DEF Idle
  <2>4. OpenConns' = OpenConns \cup {c}
    BY <1>0, <2>1 DEF OpenConns
  <2>5. Pool!Open(p, c)
    BY <2>1, <2>2, <2>3, <2>4 DEF Pool!Open, OpenConns
  <2> QED
    BY <2>5
<1>4. CASE Succeeds(p) \/ Errs(p)
  <2>1. held[p] \in Conns /\ Release(p) /\ UNCHANGED <<health, conns_to_close>>
    BY <1>0, <1>4 DEF Succeeds, Errs, Holding, managerVars
  <2>2. held' = [held EXCEPT ![p] = NoConn] /\ Idle' = Idle \cup {held[p]}
    BY <2>1, ReleaseFacts DEF TypeInv
  <2>3. Pool!GiveBack(p)
    BY <2>1, <2>2, PgPoolAssumption DEF Pool!GiveBack
  <2> QED
    BY <2>3
<1>5. CASE Finishes(p)
  <2>1. /\ held[p] \in Conns /\ held[p] # NoConn /\ health' = [health EXCEPT ![held[p]] = "none"]
        /\ held' = [held EXCEPT ![p] = NoConn] /\ UNCHANGED <<connections, conns_to_close>>
    BY <1>0, <1>5 DEF Finishes, Hold, Holding, managerVars
  <2>2. Idle' = Idle
    BY <2>1 DEF Idle
  <2>3. OpenConns' = OpenConns \ {held[p]}
    BY <1>0, <2>1 DEF OpenConns
  <2>4. Pool!Discard(p)
    BY <2>1, <2>2, <2>3 DEF Pool!Discard, OpenConns
  <2> QED
    BY <2>4
<1>6. CASE Begin(p) \/ GetNew(p) \/ Wait(p) \/ ConnectFails(p) \/ PrepareFails(p)
           \/ CountsTwice(p) \/ Breaks(p)
  <2>1. UNCHANGED <<connections, held, conns_to_close, health>>
    BY <1>6 DEF Begin, GetNew, Wait, ConnectFails, PrepareFails, CountsTwice, Breaks, managerVars
  <2> QED
    BY <2>1, NothingMoves
<1> QED
  BY <1>1, <1>2, <1>3, <1>4, <1>5, <1>6 DEF Step

LEMMA NextImplements == TypeInv /\ Placed /\ [Next]_vars => [Pool!Next]_(Pool!poolVars)
<1> SUFFICES ASSUME TypeInv, Placed, [Next]_vars PROVE [Pool!Next]_(Pool!poolVars)
  OBVIOUS
<1>0. health \in [Conns -> {"none", "good", "dead"}]
  BY DEF TypeInv, TypeOK
<1>1. CASE Stops
  BY <1>0, <1>1, NothingMoves DEF Stops, procVars, managerVars
<1>2. CASE Starts \/ ManagerWaits \/ UNCHANGED vars
  <2>1. UNCHANGED <<connections, held, conns_to_close, health>>
    BY <1>2 DEF Starts, ManagerWaits, vars, procVars, managerVars
  <2> QED
    BY <2>1, NothingMoves
<1>3. ASSUME NEW p \in Procs, Step(p) PROVE [Pool!Next]_(Pool!poolVars)
  BY <1>3, StepImplements DEF Pool!Next
<1>4. CASE ManagerShrinks
  <2>1. Idle = Idle' \cup conns_to_close' /\ Idle' \cap conns_to_close' = {}
    BY <1>4, ShrinkFacts, PlacedDistinct DEF TypeInv
  <2>2. conns_to_close = {} /\ health' = health /\ held' = held
    BY <1>4 DEF ManagerShrinks, procVars
  <2>3. CASE conns_to_close' = {}
    BY <2>1, <2>2, <2>3 DEF Pool!poolVars
  <2>4. CASE conns_to_close' # {}
    <3>1. Pool!Retire(conns_to_close')
      BY <2>1, <2>2, <2>4 DEF Pool!Retire
    <3>2. conns_to_close' \in SUBSET Idle
      BY <2>1
    <3> QED
      BY <3>1, <3>2 DEF Pool!Next
  <2> QED
    BY <2>3, <2>4
<1>5. CASE ManagerCloses
  <2>1. /\ health' = [c \in Conns |-> IF c \in conns_to_close THEN "none" ELSE health[c]]
        /\ conns_to_close' = {} /\ UNCHANGED <<connections, held>> /\ Idle' = Idle
    BY <1>5 DEF ManagerCloses, procVars, Idle
  <2>2. OpenConns' = OpenConns \ conns_to_close
    BY <1>0, <2>1 DEF OpenConns
  <2>3. Pool!CloseRetired
    BY <2>1, <2>2 DEF Pool!CloseRetired, OpenConns
  <2> QED
    BY <2>3 DEF Pool!Next
<1> QED
  BY <1>1, <1>2, <1>3, <1>4, <1>5 DEF Next

\* Although connections are opened and closed outside the mutex, each is opened by the
\* thread that gets it, lent, returned and closed as ConnectionPool allows.
THEOREM Implementation == Spec => KeepsPool
<1>1. Init => Pool!Init
  <2> SUFFICES ASSUME Init PROVE Pool!Init
    OBVIOUS
  <2>1. connections \in Seq(Conns) /\ \A c \in Conns : health[c] = IF c \in Idle THEN "good" ELSE "none"
    BY InitFacts
  <2>2. Idle \subseteq Conns
    BY <2>1 DEF Idle
  <2>3. OpenConns = Idle
    BY <2>1, <2>2 DEF OpenConns
  <2> QED
    BY <2>3 DEF Init, Pool!Init, OpenConns
<1>2. Spec => [](TypeInv /\ Placed)
  BY InitType, InitPlaced, NextType, PlacedNext, PTL DEF Spec
<1> QED
  BY <1>1, <1>2, NextImplements, PTL DEF Spec, KeepsPool, Pool!Spec

=============================================================================
