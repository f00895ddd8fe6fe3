-------------------------- MODULE UserRegistryProofs --------------------------
(* Theorems about UserRegistry, for every value of its constants. *)
EXTENDS UserRegistry, TLAPS

-----------------------------------------------------------------------------
(* Type correctness, with the steps each kind of request has. *)

RegisterSteps == {"check", "insert", "erase", "registered", "CREATEUSER", "SETLASTSYNC",
                  "CLEARLIST", "INSERT"}
DeleteSteps == {"count", "compare", "lookup", "forget", "GETACCOUNTS", "DELACCOUNT",
                "DELACCOUNTLIST", "DELUSER", "DELUSERSYNC", "DELETE"}
SyncSteps == {"count", "compare", "synced", "ADDTOACCOUNTS", "SETACCOUNT", "TOUCH", "UPSERT",
              "UPDATE"}
CleanSteps == {"read", "next", "GETACCOUNTS", "DELACCOUNT", "DELACCOUNTLIST"}

\* Request o may be at step s.
Fits(o, s) ==
    CASE o = "none" -> s = "idle"
      [] o = "register" -> s \in RegisterSteps
      [] o = "delete" -> s \in DeleteSteps
      [] o = "sync" -> s \in SyncSteps
      [] OTHER -> s \in CleanSteps

InPlace(p) ==
    /\ Fits(op[p], step[p])
    /\ IF p = Cleaner THEN op[p] \in {"none", "clean"} ELSE op[p] # "clean"
    /\ op[p] \in {"register", "delete", "sync"} => user[p] \in Users
    /\ step[p] \in Commands => user[p] \in Users

RequestTypes ==
    /\ step \in [Procs -> Steps]
    /\ op \in [Procs -> {"none", "register", "delete", "sync", "clean"}]
    /\ user \in [Procs -> Users \cup {NoUser}] /\ password \in [Procs -> Known]
    /\ attempt \in [Procs -> Nat] /\ seen \in [Procs -> BOOLEAN] /\ clean \in [Procs -> BOOLEAN]

StateTypes ==
    /\ store_type \in StoreTypes /\ loaded \in BOOLEAN /\ torn \in BOOLEAN
    /\ user_infos \in [Users -> Known] /\ store \in [Users -> Rows]
    /\ unread \subseteq Users /\ old \subseteq Users /\ failures \in Nat
    /\ promise \in [Users -> Answers]
    /\ safe \subseteq Users /\ doubtMap \subseteq Users /\ doubtStore \subseteq Users

Fitting == \A p \in Procs : InPlace(p)

TypeInv == TypeOK /\ Fitting

LEMMA TypeParts == TypeInv <=> RequestTypes /\ StateTypes /\ Fitting
BY DEF TypeInv, TypeOK, RequestTypes, StateTypes

LEMMA StepSets ==
  /\ RegisterSteps \subseteq Steps /\ DeleteSteps \subseteq Steps /\ SyncSteps \subseteq Steps
  /\ CleanSteps \subseteq Steps /\ "idle" \in Steps
BY DEF RegisterSteps, DeleteSteps, SyncSteps, CleanSteps, Steps, MapSteps, Commands, Statements

LEMMA FitsStep ==
  ASSUME NEW o \in {"none", "register", "delete", "sync", "clean"}, NEW s, Fits(o, s)
  PROVE  s \in Steps
BY StepSets DEF Fits

\* p goes to another step of its request.
LEMMA GoesFacts ==
  ASSUME TypeInv, NEW p \in Procs, NEW s, Goto(p, s), Fits(op[p], s),
         s \in Commands => user[p] \in Users,
         UNCHANGED <<op, user, password>>
  PROVE  /\ step' \in [Procs -> Steps]
         /\ Fitting'
<1>1. /\ step \in [Procs -> Steps] /\ op[p] \in {"none", "register", "delete", "sync", "clean"}
      /\ Fitting
  BY DEF TypeInv, TypeOK
<1>2. s \in Steps
  BY <1>1, FitsStep
<1>3. \A q \in Procs : step'[q] = IF q = p THEN s ELSE step[q]
  BY <1>1 DEF Goto
<1>4. Fitting'
  BY <1>1, <1>3 DEF InPlace, Fitting
<1> QED
  BY <1>1, <1>2, <1>4 DEF Goto

\* p's request ends.
LEMMA EndsFacts ==
  ASSUME TypeInv, NEW p \in Procs, Ends(p)
  PROVE  RequestTypes' /\ Fitting'
<1>1. /\ RequestTypes /\ Fitting
  BY DEF TypeInv, TypeOK, RequestTypes
<1>2. RequestTypes'
  BY <1>1, StepSets DEF Ends, Goto, RequestTypes, Known
<1>3. /\ step'[p] = "idle" /\ op'[p] = "none" /\ user'[p] = NoUser
      /\ \A q \in Procs \ {p} : step'[q] = step[q] /\ op'[q] = op[q] /\ user'[q] = user[q]
  BY <1>1 DEF Ends, Goto, RequestTypes
<1>4. InPlace(p)'
  BY <1>3 DEF InPlace, Fits, Commands
<1>5. ASSUME NEW q \in Procs \ {p} PROVE InPlace(q)'
  BY <1>1, <1>3 DEF InPlace, Fitting
<1> QED
  BY <1>2, <1>4, <1>5 DEF Fitting

\* What is found in the map is a password, and what is written leaves it a map.
LEMMA MapFacts ==
  ASSUME TypeOK
  PROVE  /\ \A u \in Users : Found(u) \subseteq Known
         /\ Nobody \in [Users -> Known]
         /\ Tear => user_infos' \in [Users -> Known] /\ torn' \in BOOLEAN
         /\ \A t \in Threads, v \in Known :
               Write(t, v) => user_infos' \in [Users -> Known] /\ torn' \in BOOLEAN
<1>1. Nobody \in [Users -> Known]
  BY DEF Nobody, Known
<1>2. \A u \in Users : Found(u) \subseteq Known
  BY DEF Found, TypeOK
<1>3. Tear => user_infos' \in [Users -> Known] /\ torn' \in BOOLEAN
  BY <1>1 DEF Tear
<1>4. ASSUME NEW t \in Threads, NEW v \in Known, Write(t, v)
      PROVE  user_infos' \in [Users -> Known] /\ torn' \in BOOLEAN
  BY <1>3, <1>4 DEF Write, TypeOK
<1> QED
  BY <1>1, <1>2, <1>3, <1>4

\* A command leaves a row a row, and is followed by a step of the same request.
LEMMA CommandFacts ==
  ASSUME TypeInv, NEW p \in Procs, step[p] \in Commands
  PROVE  /\ user[p] \in Users /\ Applied(p) \in Rows
         /\ Fits(op[p], Following(p))
         /\ op[p] \in {"register", "delete", "sync", "clean"}
         /\ Fits(op[p], FirstCommand(p))
<1>1. /\ user[p] \in Users /\ store[user[p]] \in Rows /\ password[p] \in Known
      /\ Fits(op[p], step[p]) /\ op[p] \in {"none", "register", "delete", "sync", "clean"}
  BY DEF TypeInv, TypeOK, InPlace, Fitting
<1>2. op[p] # "none"
  BY <1>1 DEF Fits, Commands
<1>3. Applied(p) \in Rows
  BY <1>1 DEF Applied, Rows, Known, Ages
<1>4. Fits(op[p], Following(p))
  BY <1>1, <1>2 DEF Fits, Following, Commands, RegisterSteps, DeleteSteps, SyncSteps, CleanSteps
<1>5. Fits(op[p], FirstCommand(p))
  BY <1>1, <1>2 DEF Fits, FirstCommand, Commands, RegisterSteps, DeleteSteps, SyncSteps,
                    CleanSteps
<1> QED
  BY <1>1, <1>2, <1>3, <1>4, <1>5

-----------------------------------------------------------------------------
(* The steps of the handlers. *)

\* A step from a handler to the next one, or the end, which changes no more of
\* the request than where it is.
Moves(p) ==
    \/ Ends(p)
    \/ \E s \in Steps : Goes(p, s) /\ Fits(op[p], s) /\ (s \in Commands => user[p] \in Users)

LEMMA MovesFacts ==
  ASSUME TypeInv, NEW p \in Procs, Moves(p)
  PROVE  RequestTypes' /\ Fitting'
<1>1. CASE Ends(p)
  BY <1>1, EndsFacts
<1>2. ASSUME NEW s \in Steps, Goes(p, s), Fits(op[p], s), s \in Commands => user[p] \in Users
      PROVE  RequestTypes' /\ Fitting'
  <2>1. Goto(p, s) /\ UNCHANGED <<op, user, password, attempt, seen, clean>>
    BY <1>2 DEF Goes
  <2>2. step' \in [Procs -> Steps] /\ Fitting'
    BY <1>2, <2>1, GoesFacts
  <2> QED
    BY <2>1, <2>2 DEF TypeInv, TypeOK, RequestTypes
<1> QED
  BY <1>1, <1>2 DEF Moves

LEMMA HandlerMoves ==
  ASSUME TypeInv, NEW t \in Threads, Handlers(t)
  PROVE  Moves(t) /\ user[t] \in Users /\ op[t] \in {"register", "delete", "sync"}
<1>0. /\ Fits(op[t], step[t]) /\ op[t] \in {"none", "register", "delete", "sync"}
      /\ op[t] \in {"register", "delete", "sync"} => user[t] \in Users
  BY RegistryAssumption DEF TypeInv, TypeOK, Fitting, InPlace, Procs
<1>1. CASE Check(t)
  BY <1>0, <1>1 DEF Check, Moves, Fits, RegisterSteps, DeleteSteps, SyncSteps, Steps, MapSteps
<1>2. CASE Insert(t)
  BY <1>0, <1>2 DEF Insert, Moves, Fits, RegisterSteps, DeleteSteps, SyncSteps, Steps, Commands,
                    Statements
<1>3. CASE Registered(t)
  BY <1>0, <1>3 DEF Registered, Moves, Fits
<1>4. CASE Erase(t)
  BY <1>0, <1>4 DEF Erase, Moves, Fits
<1>5. CASE Count(t)
  BY <1>0, <1>5 DEF Count, Moves, Fits, RegisterSteps, DeleteSteps, SyncSteps, Steps, MapSteps
<1>6. CASE Compare(t)
  <2>1. op[t] \in {"delete", "sync"} /\ user[t] \in Users
    BY <1>0, <1>6 DEF Compare, Fits, RegisterSteps
  <2>2. Ends(t) \/ Goes(t, IF op[t] = "delete" THEN "lookup"
                          ELSE IF Redis THEN "ADDTOACCOUNTS" ELSE "UPSERT")
    BY <1>6 DEF Compare
  <2> QED
    BY <2>1, <2>2 DEF Moves, Fits, DeleteSteps, SyncSteps, Steps, MapSteps, Commands, Statements
<1>7. CASE Lookup(t)
  <2>1. op[t] = "delete" /\ user[t] \in Users
    BY <1>0, <1>7 DEF Lookup, Fits, RegisterSteps, SyncSteps
  <2>2. Ends(t) \/ Goes(t, IF Redis THEN "GETACCOUNTS" ELSE "DELETE")
    BY <1>7 DEF Lookup
  <2> QED
    BY <2>1, <2>2 DEF Moves, Fits, DeleteSteps, Steps, Commands, Statements
<1>8. CASE Forget(t)
  BY <1>0, <1>8 DEF Forget, Moves, Fits
<1>9. CASE Synced(t)
  BY <1>0, <1>9 DEF Synced, Moves, Fits
<1> QED
  BY <1>1, <1>2, <1>3, <1>4, <1>5, <1>6, <1>7, <1>8, <1>9 DEF Handlers

LEMMA OpenAnswer == Open \in Answers
BY DEF Open, Answers, Known

LEMMA HandlerState ==
  ASSUME TypeInv, NEW t \in Threads, Handlers(t)
  PROVE  StateTypes'
<1>0. /\ TypeOK /\ user[t] \in Users /\ password[t] \in Known /\ NoPassword \in Known
  BY HandlerMoves DEF TypeInv, TypeOK, Procs, Known
<1>1. CASE Check(t)
  <2>1. doubtStore' \subseteq Users
    BY <1>0, <1>1 DEF Check, Doubts, TypeOK
  <2> QED
    BY <1>0, <1>1, <2>1 DEF Check, TypeOK, StateTypes, cleanerVars
<1>2. CASE Insert(t)
  <2>1. user_infos' \in [Users -> Known] /\ torn' \in BOOLEAN
    BY <1>0, <1>2, MapFacts DEF Insert
  <2>2. promise' \in [Users -> Answers] /\ safe' \subseteq Users
    BY <1>0, <1>2, OpenAnswer DEF Insert, TypeOK
  <2> QED
    BY <1>0, <1>2, <2>1, <2>2 DEF Insert, TypeOK, StateTypes, cleanerVars
<1>3. CASE Registered(t)
  <2>1. promise' \in [Users -> Answers]
    BY <1>0, <1>3 DEF Registered, TypeOK, Answers, Procs
  <2> QED
    BY <1>0, <1>3, <2>1 DEF Registered, TypeOK, StateTypes, cleanerVars
<1>4. CASE Erase(t)
  <2>1. user_infos' \in [Users -> Known] /\ torn' \in BOOLEAN
    BY <1>0, <1>4, MapFacts DEF Erase
  <2> QED
    BY <1>0, <1>4, <2>1 DEF Erase, TypeOK, StateTypes, cleanerVars, historyVars
<1>5. CASE Count(t)
  BY <1>0, <1>5 DEF Count, TypeOK, StateTypes, cleanerVars, historyVars
<1>6. CASE Compare(t)
  <2>1. user_infos' \in [Users -> Known] /\ torn' \in BOOLEAN
    BY <1>0, <1>6, MapFacts DEF Compare, TypeOK
  <2>2. doubtStore' \subseteq Users
    BY <1>0, <1>6 DEF Compare, Doubts, TypeOK
  <2> QED
    BY <1>0, <1>6, <2>1, <2>2 DEF Compare, TypeOK, StateTypes, cleanerVars
<1>7. CASE Lookup(t)
  <2>1. user_infos' \in [Users -> Known] /\ torn' \in BOOLEAN
    BY <1>0, <1>7, MapFacts DEF Lookup, TypeOK
  <2>2. promise' \in [Users -> Answers] /\ safe' \subseteq Users
    BY <1>0, <1>7, OpenAnswer DEF Lookup, TypeOK
  <2> QED
    BY <1>0, <1>7, <2>1, <2>2 DEF Lookup, TypeOK, StateTypes, cleanerVars
<1>8. CASE Forget(t)
  <2>1. user_infos' \in [Users -> Known] /\ torn' \in BOOLEAN
    BY <1>0, <1>8, MapFacts DEF Forget
  <2>2. promise' \in [Users -> Answers]
    BY <1>0, <1>8 DEF Forget, TypeOK, Answers, Procs
  <2> QED
    BY <1>0, <1>8, <2>1, <2>2 DEF Forget, TypeOK, StateTypes, cleanerVars
<1>9. CASE Synced(t)
  BY <1>0, <1>9 DEF Synced, TypeOK, StateTypes, cleanerVars
<1> QED
  BY <1>1, <1>2, <1>3, <1>4, <1>5, <1>6, <1>7, <1>8, <1>9 DEF Handlers

-----------------------------------------------------------------------------
(* The steps of the stores. *)

\* The last try: the operation gives up.
LEMMA GivesUpMoves ==
  ASSUME TypeInv, NEW p \in Procs, step[p] \in Commands, GivesUp(p)
  PROVE  Moves(p)
<1>1. CASE op[p] = "register"
  BY <1>1 DEF GivesUp, Moves, Fits, RegisterSteps, Steps, MapSteps, Commands
<1>2. CASE op[p] # "register"
  BY <1>2 DEF GivesUp, Moves
<1> QED
  BY <1>1, <1>2

LEMMA RedisType ==
  ASSUME TypeInv, NEW p \in Procs, RedisStep(p)
  PROVE  TypeInv'
<1>0. /\ TypeOK /\ Fitting /\ RequestTypes /\ StateTypes
      /\ step[p] \in Commands
      /\ user[p] \in Users /\ Applied(p) \in Rows /\ store[user[p]] \in Rows
      /\ Fits(op[p], Following(p)) /\ Fits(op[p], FirstCommand(p))
      /\ op[p] \in {"register", "delete", "sync", "clean"}
  <2>1. step[p] \in Commands
    BY DEF RedisStep, Command, Refused, Breaks, Unsent, Swallowed, Nested, Commands
  <2> QED
    BY <2>1, CommandFacts, TypeParts DEF TypeInv, TypeOK
<1>1. CASE Command(p)
  <2>1. Goto(p, Following(p)) /\ UNCHANGED <<op, user, password, attempt, clean>>
    BY <1>1 DEF Command
  <2>2. step' \in [Procs -> Steps] /\ Fitting'
    BY <1>0, <2>1, GoesFacts
  <2>3. seen' \in [Procs -> BOOLEAN]
    <3>1. Sees(p) \in BOOLEAN /\ seen' = [seen EXCEPT ![p] = Sees(p)]
      BY <1>1 DEF Sees, Command
    <3> DEFINE s == Sees(p)
    <3>2. s \in BOOLEAN /\ seen' = [seen EXCEPT ![p] = s]
      BY <3>1
    <3> HIDE DEF s
    <3> QED
      BY <1>0, <3>2 DEF RequestTypes
  <2>4. RequestTypes'
    BY <1>0, <2>1, <2>2, <2>3 DEF RequestTypes
  <2>5. store' \in [Users -> Rows]
    BY <1>0, <1>1 DEF Command, Apply, StateTypes
  <2>6. StateTypes'
    BY <1>0, <1>1, <2>5 DEF Command, StateTypes, cleanerVars, historyVars
  <2> QED
    BY <2>2, <2>4, <2>6, TypeParts DEF TypeInv, TypeOK, RequestTypes, StateTypes
<1>2. CASE Refused(p)
  <2>1. Goto(p, Following(p)) /\ UNCHANGED <<op, user, password, attempt, seen>>
    BY <1>2 DEF Refused
  <2>2. step' \in [Procs -> Steps] /\ Fitting'
    BY <1>0, <2>1, GoesFacts
  <2>3. clean' \in [Procs -> BOOLEAN]
    BY <1>0, <1>2 DEF Refused, RequestTypes
  <2>4. RequestTypes'
    BY <1>0, <2>1, <2>2, <2>3 DEF RequestTypes
  <2>5. doubtMap' \subseteq Users /\ doubtStore' \subseteq Users /\ failures' \in Nat
    BY <1>0, <1>2 DEF Refused, Fails, StateTypes
  <2>6. StateTypes'
    BY <1>0, <1>2, <2>5 DEF Refused, StateTypes, cleanerVars
  <2> QED
    BY <2>2, <2>4, <2>6 DEF TypeInv, TypeOK, RequestTypes, StateTypes
<1>3. CASE Breaks(p)
  <2>1. store' \in [Users -> Rows] /\ failures' \in Nat
    BY <1>0, <1>3 DEF Breaks, Apply, Fails, StateTypes
  <2>2. CASE attempt[p] < Tries(p)
    <3>1. /\ Goto(p, FirstCommand(p)) /\ attempt' = [attempt EXCEPT ![p] = @ + 1]
          /\ UNCHANGED <<op, password, seen, clean, doubtMap>>
      BY <1>3, <2>2 DEF Breaks
    <3>2. attempt' \in [Procs -> Nat]
      BY <1>0, <3>1 DEF RequestTypes
    <3>d. doubtStore' \subseteq Users
      BY <1>0, <1>3, <2>2 DEF Breaks, StateTypes
    <3>3. CASE op[p] = "clean"
      <4>1. /\ user' = [user EXCEPT ![p] = NoUser] /\ old' = {} /\ unread' \subseteq Users
        BY <1>3, <2>2, <3>3 DEF Breaks
      <4>2. FirstCommand(p) = "read"
        BY <3>3 DEF FirstCommand
      <4>3. step' = [step EXCEPT ![p] = "read"]
        BY <3>1, <4>2 DEF Goto
      <4>4. Fitting'
        <5>1. /\ step'[p] = "read" /\ op'[p] = "clean"
              /\ \A q \in Procs \ {p} : step'[q] = step[q] /\ op'[q] = op[q] /\ user'[q] = user[q]
          BY <1>0, <3>1, <3>3, <4>1, <4>3 DEF RequestTypes
        <5>2. InPlace(p)'
          <6>1. InPlace(p)
            BY <1>0 DEF Fitting
          <6>2. p = Cleaner
            BY <3>3, <6>1 DEF InPlace
          <6> QED
            BY <5>1, <6>2 DEF InPlace, Fits, CleanSteps, Commands
        <5>3. ASSUME NEW q \in Procs \ {p} PROVE InPlace(q)'
          BY <1>0, <5>1 DEF InPlace, Fitting
        <5> QED
          BY <5>2, <5>3 DEF Fitting
      <4>5. RequestTypes'
        BY <1>0, <3>1, <3>2, <4>1, <4>3, StepSets DEF RequestTypes, CleanSteps
      <4>6. StateTypes'
        BY <1>0, <1>3, <2>1, <3>1, <3>d, <4>1 DEF Breaks, StateTypes
      <4> QED
        BY <4>4, <4>5, <4>6 DEF TypeInv, TypeOK, RequestTypes, StateTypes
    <3>4. CASE op[p] # "clean"
      <4>1. UNCHANGED <<user, unread, old>>
        BY <1>3, <2>2, <3>4 DEF Breaks, cleanerVars
      <4>2. step' \in [Procs -> Steps] /\ Fitting'
        BY <1>0, <3>1, <4>1, GoesFacts
      <4>3. RequestTypes'
        BY <1>0, <3>1, <3>2, <4>1, <4>2 DEF RequestTypes
      <4>4. StateTypes'
        BY <1>0, <1>3, <2>1, <3>1, <3>d, <4>1 DEF Breaks, StateTypes
      <4> QED
        BY <4>2, <4>3, <4>4 DEF TypeInv, TypeOK, RequestTypes, StateTypes
    <3> QED
      BY <3>3, <3>4
  <2>3. CASE ~(attempt[p] < Tries(p))
    <3>1. GivesUp(p)
      BY <1>3, <2>3 DEF Breaks
    <3>2. RequestTypes' /\ Fitting'
      BY <1>0, <3>1, GivesUpMoves, MovesFacts
    <3>3. /\ unread' \subseteq Users /\ old' \subseteq Users
          /\ doubtMap' \subseteq Users /\ doubtStore' \subseteq Users
      BY <1>0, <1>3, <2>3 DEF Breaks, StateTypes
    <3>4. StateTypes'
      BY <1>0, <1>3, <2>1, <3>3 DEF Breaks, StateTypes
    <3> QED
      BY <3>2, <3>4 DEF TypeInv, TypeOK, RequestTypes, StateTypes
  <2> QED
    BY <2>2, <2>3
<1>4. CASE Unsent(p)
  <2>1. /\ Goto(p, IF step[p] = "TOUCH" THEN "synced" ELSE "TOUCH")
        /\ UNCHANGED <<op, user, password, attempt, seen>>
    BY <1>4 DEF Unsent
  <2>2. op[p] = "sync"
    <3>1. Fits(op[p], step[p])
      BY <1>0 DEF Fitting, InPlace
    <3> QED
      BY <1>0, <1>4, <3>1 DEF Unsent, Fits, RegisterSteps, DeleteSteps, CleanSteps
  <2>3. step' \in [Procs -> Steps] /\ Fitting'
    BY <1>0, <2>1, <2>2, GoesFacts DEF Fits, SyncSteps
  <2>4. clean' \in [Procs -> BOOLEAN]
    BY <1>0, <1>4 DEF Unsent, RequestTypes
  <2>5. RequestTypes'
    BY <1>0, <2>1, <2>3, <2>4 DEF RequestTypes
  <2>6. StateTypes'
    BY <1>0, <1>4 DEF Unsent, Fails, StateTypes, cleanerVars
  <2> QED
    BY <2>3, <2>5, <2>6 DEF TypeInv, TypeOK, RequestTypes, StateTypes
<1>5. CASE Swallowed(p)
  <2>1. Goto(p, Following(p)) /\ UNCHANGED <<op, user, password, attempt, clean>>
    BY <1>5 DEF Swallowed
  <2>2. step' \in [Procs -> Steps] /\ Fitting'
    BY <1>0, <2>1, GoesFacts
  <2>3. seen' \in [Procs -> BOOLEAN]
    BY <1>0, <1>5 DEF Swallowed, RequestTypes
  <2>4. RequestTypes'
    BY <1>0, <2>1, <2>2, <2>3 DEF RequestTypes
  <2>5. StateTypes'
    BY <1>0, <1>5 DEF Swallowed, Fails, StateTypes, cleanerVars
  <2> QED
    BY <2>2, <2>4, <2>5 DEF TypeInv, TypeOK, RequestTypes, StateTypes
<1> QED
  BY <1>1, <1>2, <1>3, <1>4, <1>5 DEF RedisStep

\* A statement's possible results are rows.
LEMMA StatementFacts ==
  ASSUME TypeInv, NEW t \in Threads, step[t] \in Statements
  PROVE  /\ user[t] \in Users /\ Results(t) \subseteq Rows
         /\ op[t] \in {"register", "delete", "sync"} /\ Fits(op[t], Answered(t))
         /\ Answered(t) \notin Commands
<1>1. /\ Fits(op[t], step[t]) /\ op[t] \in {"none", "register", "delete", "sync"}
      /\ op[t] \in {"register", "delete", "sync"} => user[t] \in Users
      /\ password[t] \in Known
  BY RegistryAssumption DEF TypeInv, TypeOK, Fitting, InPlace, Procs
<1>2. op[t] \in {"register", "delete", "sync"}
  BY <1>1 DEF Fits, Statements
<1>3. store[user[t]] \in Rows
  BY <1>1, <1>2 DEF TypeInv, TypeOK
<1>4. Results(t) \subseteq Rows
  <2>1. CASE step[t] = "INSERT"
    BY <1>1, <1>3, <2>1 DEF Results, Rows, Ages
  <2>2. CASE step[t] = "DELETE"
    BY <1>1, <1>3, <2>2 DEF Results, Rows, Ages, Known
  <2>3. CASE step[t] = "UPSERT"
    BY <1>1, <1>3, <2>3 DEF Results, Rows, Ages
  <2>4. CASE step[t] = "UPDATE"
    BY <1>1, <1>3, <2>4 DEF Results, Rows, Ages
  <2> QED
    BY <2>1, <2>2, <2>3, <2>4 DEF Statements
<1>5. Fits(op[t], Answered(t)) /\ Answered(t) \notin Commands
  BY <1>1, <1>2 DEF Fits, Answered, Statements, Commands, RegisterSteps, DeleteSteps, SyncSteps
<1> QED
  BY <1>1, <1>2, <1>4, <1>5

\* A statement that failed.
LEMMA SqlFailsFacts ==
  ASSUME TypeInv, NEW t \in Threads, user[t] \in Users, SqlFails(t)
  PROVE  /\ RequestTypes' /\ Fitting'
         /\ doubtMap' \subseteq Users /\ doubtStore' \subseteq Users
<1>0. t \in Procs /\ RequestTypes /\ StateTypes /\ Fitting
  BY TypeParts DEF Procs
<1>1. CASE attempt[t] < PgAttempts
  BY <1>0, <1>1 DEF SqlFails, RequestTypes, StateTypes, Fitting, InPlace
<1>2. CASE ~(attempt[t] < PgAttempts)
  BY <1>0, <1>2, EndsFacts DEF SqlFails, StateTypes
<1> QED
  BY <1>1, <1>2

LEMMA SqlType ==
  ASSUME TypeInv, NEW t \in Threads, SqlStep(t)
  PROVE  TypeInv'
<1>0. /\ t \in Procs /\ RequestTypes /\ StateTypes /\ Fitting /\ TypeOK
  BY TypeParts DEF Procs, TypeInv
<1>s. /\ step[t] \in Statements
      /\ user[t] \in Users /\ Results(t) \subseteq Rows
      /\ Fits(op[t], Answered(t)) /\ Answered(t) \notin Commands
  <2>1. step[t] \in Statements
    BY DEF SqlStep, Execute, Rejected, Lost, Duplicate, Statements
  <2> QED
    BY <2>1, StatementFacts
<1>1. CASE Execute(t)
  <2>1. Goto(t, Answered(t)) /\ UNCHANGED <<op, user, password, seen, clean>>
    BY <1>1 DEF Execute
  <2>2. step' \in [Procs -> Steps] /\ Fitting'
    BY <1>0, <1>s, <2>1, GoesFacts
  <2>3. RequestTypes'
    BY <1>0, <1>1, <2>1, <2>2 DEF Execute, RequestTypes
  <2>4. store' \in [Users -> Rows]
    BY <1>0, <1>s, <1>1 DEF Execute, Apply, StateTypes
  <2>5. StateTypes'
    BY <1>0, <1>1, <2>4 DEF Execute, StateTypes, cleanerVars, historyVars
  <2> QED
    BY <2>2, <2>3, <2>5 DEF TypeInv, TypeOK, RequestTypes, StateTypes
<1>2. CASE Rejected(t)
  <2>1. /\ RequestTypes' /\ Fitting'
        /\ doubtMap' \subseteq Users /\ doubtStore' \subseteq Users
    BY <1>s, <1>2, SqlFailsFacts DEF Rejected
  <2>2. StateTypes'
    BY <1>0, <1>2, <2>1 DEF Rejected, StateTypes, cleanerVars
  <2> QED
    BY <2>1, <2>2 DEF TypeInv, TypeOK, RequestTypes, StateTypes
<1>3. CASE Lost(t)
  <2>1. /\ RequestTypes' /\ Fitting'
        /\ doubtMap' \subseteq Users /\ doubtStore' \subseteq Users
    BY <1>s, <1>3, SqlFailsFacts DEF Lost
  <2>2. store' \in [Users -> Rows] /\ failures' \in Nat
    BY <1>0, <1>s, <1>3 DEF Lost, Apply, Fails, StateTypes
  <2>3. StateTypes'
    BY <1>0, <1>3, <2>1, <2>2 DEF Lost, StateTypes, cleanerVars
  <2> QED
    BY <2>1, <2>3 DEF TypeInv, TypeOK, RequestTypes, StateTypes
<1> QED
  BY <1>1, <1>2, <1>3 DEF SqlStep

-----------------------------------------------------------------------------
(* The other steps. *)

LEMMA RequestType ==
  ASSUME TypeInv, NEW t \in Threads, NEW o \in Registering \cup {"sync"}, NEW u \in Users,
         NEW w \in Passwords, Request(t, o, u, w)
  PROVE  TypeInv'
<1>0. /\ t \in Procs /\ t # Cleaner /\ RequestTypes /\ StateTypes /\ Fitting
      /\ o \in {"register", "delete", "sync"}
  BY TypeParts, RegistryAssumption DEF Procs, Registering
<1>1. /\ step' = [step EXCEPT ![t] = IF o = "register" THEN "check" ELSE "count"]
      /\ op' = [op EXCEPT ![t] = o] /\ user' = [user EXCEPT ![t] = u]
      /\ password' = [password EXCEPT ![t] = w]
  BY DEF Request, Goto
<1>2. /\ clean' \in [Procs -> BOOLEAN] /\ doubtMap' \subseteq Users /\ doubtStore' \subseteq Users
  <2> DEFINE others == {v \in Procs \ {t} : On(v, u)}
  <2>1. clean' = [q \in Procs |-> IF q = t THEN \A r \in others : ~Disturbs(op[r], o)
                                   ELSE clean[q] /\ ~(q \in others /\ Disturbs(o, op[q]))]
    BY DEF Request, Overlap
  <2> HIDE DEF others
  <2>2. \A q \in Procs : clean[q] \in BOOLEAN
    BY <1>0 DEF RequestTypes
  <2>3. clean' \in [Procs -> BOOLEAN]
    BY <2>1, <2>2, Zenon
  <2>4. doubtMap' \subseteq Users /\ doubtStore' \subseteq Users
    BY <1>0 DEF Request, Overlap, StateTypes
  <2> QED
    BY <2>3, <2>4
<1>3. RequestTypes'
  <2>1. {"check", "count"} \subseteq Steps
    BY DEF Steps, MapSteps
  <2>2. step' \in [Procs -> Steps]
    BY <1>0, <1>1, <2>1 DEF RequestTypes
  <2> QED
    BY <1>0, <1>1, <1>2, <2>2 DEF Request, RequestTypes, Known
<1>4. Fitting'
  <2>1. /\ step'[t] = (IF o = "register" THEN "check" ELSE "count") /\ op'[t] = o /\ user'[t] = u
        /\ \A q \in Procs \ {t} : step'[q] = step[q] /\ op'[q] = op[q] /\ user'[q] = user[q]
    BY <1>0, <1>1 DEF RequestTypes
  <2>2. InPlace(t)'
    BY <1>0, <2>1 DEF InPlace, Fits, RegisterSteps, DeleteSteps, SyncSteps, Commands
  <2>3. ASSUME NEW q \in Procs \ {t} PROVE InPlace(q)'
    BY <1>0, <2>1 DEF InPlace, Fitting
  <2> QED
    BY <2>2, <2>3 DEF Fitting
<1>5. StateTypes'
  BY <1>0, <1>2 DEF Request, StateTypes, cleanerVars
<1> QED
  BY <1>3, <1>4, <1>5 DEF TypeInv, TypeOK, RequestTypes, StateTypes

LEMMA DiesType == TypeInv /\ Dies => TypeInv'
<1> SUFFICES ASSUME TypeInv, Dies PROVE TypeInv'
  OBVIOUS
<1>0. StateTypes
  BY TypeParts
<1>1. RequestTypes'
  BY StepSets DEF Dies, RequestTypes, Known
<1>2. Fitting'
  BY DEF Dies, Fitting, InPlace, Fits, Commands
<1>3. StateTypes'
  <2>1. Nobody \in [Users -> Known]
    BY DEF Nobody, Known
  <2> QED
    BY <1>0, <2>1 DEF Dies, StateTypes
<1> QED
  BY <1>1, <1>2, <1>3 DEF TypeInv, TypeOK, RequestTypes, StateTypes

LEMMA DataCleanerType == TypeInv /\ DataCleaner => TypeInv'
<1> SUFFICES ASSUME TypeInv, DataCleaner PROVE TypeInv'
  OBVIOUS
<1>0. /\ Cleaner \in Procs /\ RequestTypes /\ StateTypes /\ Fitting
      /\ op[Cleaner] \in {"none", "clean"} /\ Fits(op[Cleaner], step[Cleaner])
  BY TypeParts DEF Procs, Fitting, InPlace
<1>1. CASE CleanerStarts
  <2>1. /\ step' = [step EXCEPT ![Cleaner] = "read"] /\ op' = [op EXCEPT ![Cleaner] = "clean"]
        /\ UNCHANGED <<user, password, attempt, seen>>
    BY <1>1 DEF CleanerStarts, Goto
  <2>2. clean' \in [Procs -> BOOLEAN]
    <3>1. \A p \in Procs : clean[p] \in BOOLEAN
      BY <1>0 DEF RequestTypes
    <3>2. clean' = [p \in Procs |-> clean[p] /\ op[p] # "sync"]
      BY <1>1 DEF CleanerStarts
    <3> QED
      BY <3>1, <3>2, Zenon
  <2>3. RequestTypes'
    BY <1>0, <2>1, <2>2, StepSets DEF RequestTypes, CleanSteps
  <2>4. Fitting'
    <3>1. /\ step'[Cleaner] = "read" /\ op'[Cleaner] = "clean"
          /\ \A q \in Procs \ {Cleaner} : step'[q] = step[q] /\ op'[q] = op[q] /\ user'[q] = user[q]
      BY <1>0, <2>1 DEF RequestTypes
    <3>2. InPlace(Cleaner)'
      BY <3>1 DEF InPlace, Fits, CleanSteps, Commands
    <3>3. ASSUME NEW q \in Procs \ {Cleaner} PROVE InPlace(q)'
      BY <1>0, <3>1 DEF InPlace, Fitting
    <3> QED
      BY <3>2, <3>3 DEF Fitting
  <2>5. StateTypes'
    BY <1>0, <1>1 DEF CleanerStarts, StateTypes
  <2> QED
    BY <2>3, <2>4, <2>5 DEF TypeInv, TypeOK, RequestTypes, StateTypes
<1>2. CASE ReadsNext
  <2>1. step[Cleaner] = "read" /\ Goes(Cleaner, "next")
    BY <1>2 DEF ReadsNext
  <2>2. op[Cleaner] = "clean"
    BY <1>0, <2>1 DEF Fits
  <2>3. Moves(Cleaner)
    BY <2>1, <2>2, StepSets DEF Moves, Fits, CleanSteps, Commands
  <2>4. RequestTypes' /\ Fitting'
    BY <1>0, <2>3, MovesFacts
  <2>5. StateTypes'
    BY <1>0, <1>2 DEF ReadsNext, Fails, StateTypes, historyVars
  <2> QED
    BY <2>4, <2>5 DEF TypeInv, TypeOK, RequestTypes, StateTypes
<1>3. CASE CleanerEnds
  <2>1. RequestTypes' /\ Fitting'
    BY <1>0, <1>3, EndsFacts DEF CleanerEnds
  <2>2. StateTypes'
    BY <1>0, <1>3 DEF CleanerEnds, StateTypes, cleanerVars, historyVars
  <2> QED
    BY <2>1, <2>2 DEF TypeInv, TypeOK, RequestTypes, StateTypes
<1>4. CASE DeleteOld
  <2>1. store' \in [Users -> Rows]
    BY <1>0, <1>4 DEF DeleteOld, StateTypes, Rows
  <2> QED
    BY <1>0, <1>4, <2>1 DEF DeleteOld, TypeInv, TypeOK, RequestTypes, StateTypes, Fitting, InPlace,
                            requestVars, cleanerVars, historyVars
<1>5. ASSUME NEW u \in Users, ReadsLastSync(u) PROVE TypeInv'
  <2>1. CASE Dies
    BY <2>1, DiesType
  <2>2. CASE ~Dies
    <3>1. /\ UNCHANGED <<store_type, loaded, user_infos, torn, store, requestVars, failures,
                         historyVars>>
          /\ unread' \subseteq Users /\ old' \subseteq Users
      BY <1>0, <1>5, <2>2 DEF ReadsLastSync, StateTypes
    <3> QED
      BY <1>0, <3>1 DEF TypeInv, TypeOK, RequestTypes, StateTypes, Fitting, InPlace, requestVars,
                        historyVars
  <2> QED
    BY <2>1, <2>2
<1>6. ASSUME NEW u \in Users, CleansUser(u) PROVE TypeInv'
  <2>1. /\ step' = [step EXCEPT ![Cleaner] = "GETACCOUNTS"]
        /\ user' = [user EXCEPT ![Cleaner] = u] /\ step[Cleaner] = "next"
        /\ UNCHANGED <<op, password, attempt, seen, clean>>
    BY <1>6 DEF CleansUser, Goto
  <2>2. RequestTypes'
    BY <1>0, <2>1, StepSets DEF RequestTypes, CleanSteps
  <2>3. Fitting'
    <3>1. /\ step'[Cleaner] = "GETACCOUNTS" /\ op'[Cleaner] = op[Cleaner] /\ user'[Cleaner] = u
          /\ \A q \in Procs \ {Cleaner} : step'[q] = step[q] /\ op'[q] = op[q] /\ user'[q] = user[q]
      BY <1>0, <2>1 DEF RequestTypes
    <3>2. op[Cleaner] = "clean"
      BY <1>0, <2>1 DEF Fits
    <3>3. InPlace(Cleaner)'
      BY <3>1, <3>2 DEF InPlace, Fits, CleanSteps
    <3>4. ASSUME NEW q \in Procs \ {Cleaner} PROVE InPlace(q)'
      BY <1>0, <3>1 DEF InPlace, Fitting
    <3> QED
      BY <3>3, <3>4 DEF Fitting
  <2>4. StateTypes'
    BY <1>0, <1>6 DEF CleansUser, StateTypes, historyVars
  <2> QED
    BY <2>2, <2>3, <2>4 DEF TypeInv, TypeOK, RequestTypes, StateTypes
<1>7. CASE Unconnected
  <2>0. StateTypes'
    BY <1>0, <1>7 DEF Unconnected, Fails, StateTypes, historyVars
  <2>1. CASE attempt[Cleaner] < Tries(Cleaner)
    <3>1. /\ attempt' = [attempt EXCEPT ![Cleaner] = @ + 1]
          /\ UNCHANGED <<step, op, user, password, seen, clean>>
      BY <1>7, <2>1 DEF Unconnected
    <3>2. RequestTypes' /\ Fitting'
      BY <1>0, <3>1 DEF RequestTypes, Fitting, InPlace
    <3> QED
      BY <2>0, <3>2 DEF TypeInv, TypeOK, RequestTypes, StateTypes
  <2>2. CASE ~(attempt[Cleaner] < Tries(Cleaner))
    <3>1. RequestTypes' /\ Fitting'
      BY <1>0, <1>7, <2>2, EndsFacts DEF Unconnected
    <3> QED
      BY <2>0, <3>1 DEF TypeInv, TypeOK, RequestTypes, StateTypes
  <2> QED
    BY <2>1, <2>2
<1> QED
  BY <1>1, <1>2, <1>3, <1>4, <1>5, <1>6, <1>7 DEF DataCleaner

LEMMA NextType == TypeInv /\ [Next]_vars => TypeInv'
<1> SUFFICES ASSUME TypeInv, [Next]_vars PROVE TypeInv'
  OBVIOUS
<1>0. RequestTypes /\ StateTypes /\ Fitting
  BY TypeParts
<1>1. ASSUME NEW t \in Threads, NEW o \in Registering \cup {"sync"}, NEW u \in Users,
             NEW w \in Passwords, Request(t, o, u, w)
      PROVE  TypeInv'
  BY <1>1, RequestType
<1>2. ASSUME NEW t \in Threads, Handlers(t) PROVE TypeInv'
  <2>1. RequestTypes' /\ Fitting' /\ StateTypes'
    BY <1>2, HandlerMoves, MovesFacts, HandlerState DEF Procs
  <2> QED
    BY <2>1 DEF TypeInv, TypeOK, RequestTypes, StateTypes
<1>3. ASSUME NEW t \in Threads, SqlStep(t) PROVE TypeInv'
  BY <1>3, SqlType
<1>4. ASSUME NEW p \in Procs, RedisStep(p) PROVE TypeInv'
  BY <1>4, RedisType
<1>5. CASE DataCleaner
  BY <1>5, DataCleanerType
<1>6. CASE Load
  <2>1. user_infos' \in [Users -> Known]
    BY <1>0, <1>6 DEF Load, StateTypes, Rows, Nobody, Known
  <2>2. doubtMap' \subseteq Users /\ failures' \in Nat /\ loaded' \in BOOLEAN
    BY <1>0, <1>6 DEF Load, Fails, StateTypes
  <2> QED
    <3>1. UNCHANGED <<store_type, torn, store, requestVars, cleanerVars, promise, safe, doubtStore>>
      BY <1>6 DEF Load
    <3>2. StateTypes'
      BY <1>0, <2>1, <2>2, <3>1 DEF StateTypes, cleanerVars
    <3>3. RequestTypes' /\ Fitting'
      BY <1>0, <3>1 DEF RequestTypes, Fitting, InPlace, requestVars
    <3> QED
      BY <3>2, <3>3 DEF TypeInv, TypeOK, RequestTypes, StateTypes
<1>7. CASE Crash
  BY <1>7, DiesType DEF Crash
<1>8. CASE Age
  <2>1. store' \in [Users -> Rows]
    <3>1. store' = [u \in Users |->
            [store[u] EXCEPT !.last_sync = IF @ = "recent" THEN "old" ELSE @,
                             !.account = IF Postgres /\ @ = "recent" THEN "old" ELSE @]]
      BY <1>8 DEF Age
    <3>2. ASSUME NEW u \in Users PROVE store'[u] \in Rows
      <4>1. store[u] \in Rows
        BY <1>0 DEF StateTypes
      <4> QED
        BY <3>1, <4>1 DEF Rows, Ages
    <3> QED
      BY <3>1, <3>2
  <2> QED
    BY <1>0, <1>8, <2>1 DEF Age, TypeInv, TypeOK, RequestTypes, StateTypes, Fitting, InPlace,
                            requestVars, cleanerVars
<1>9. CASE UNCHANGED vars
  BY <1>9 DEF vars, TypeInv, TypeOK, Fitting, InPlace, requestVars, cleanerVars, historyVars
<1> QED
  BY <1>1, <1>2, <1>3, <1>4, <1>5, <1>6, <1>7, <1>8, <1>9 DEF Next

LEMMA InitType == Init => TypeInv
<1> SUFFICES ASSUME Init PROVE TypeInv
  OBVIOUS
<1>1. RequestTypes
  BY StepSets DEF Init, RequestTypes, Known
<1>2. Fitting
  BY DEF Init, Fitting, InPlace, Fits, Commands
<1>3. StateTypes
  <2>1. NoRow \in Rows
    BY DEF NoRow, Rows, Known, Ages
  <2> QED
    BY <2>1, OpenAnswer DEF Init, StateTypes, Nobody, Known
<1> QED
  BY <1>1, <1>2, <1>3, TypeParts

\* The map, the store, the requests and the cleaner keep their types.
THEOREM TypeCorrect == Spec => []TypeOK
<1>1. TypeInv => TypeOK
  BY DEF TypeInv
<1> QED
  BY <1>1, InitType, NextType, PTL DEF Spec

-----------------------------------------------------------------------------
(* Answers. *)

\* A registration or deletion before it changes anything.
Early == {"check", "insert", "count", "compare", "lookup"}

\* An undisturbed one after the store has taken, or dropped, the password.
Stored == {"SETLASTSYNC", "CLEARLIST", "registered"}
Gone == {"DELUSERSYNC", "forget"}

\* An answer that says nothing of the store, or is excused.
Free(answer) == answer.excused \/ answer.word = "unknown"

\* What a registration or deletion relies on at each step.
Reliance(p) ==
    op[p] \in Registering =>
        /\ step[p] \notin Early => Free(promise[user[p]])
        /\ clean[p] /\ step[p] \in Stored => store[user[p]].password = password[p]
        /\ clean[p] /\ step[p] \in Gone => store[user[p]].password = NoPassword

Same(p, q) == op[p] \in Registering /\ op[q] \in Registering /\ user[p] = user[q]

\* Of two registrations or deletions of one user neither is undisturbed.
NoneAlone == \A p, q \in Procs : p # q /\ Same(p, q) => ~clean[p] /\ ~clean[q]

AnswerInv ==
    /\ TypeInv
    /\ AnswersKept
    /\ NoneAlone
    /\ \A p \in Procs : Reliance(p)

\* The other processes stay as they are, or are disturbed.
OthersStay(p) ==
    \A q \in Procs \ {p} :
        /\ step'[q] = step[q] /\ op'[q] = op[q] /\ user'[q] = user[q]
        /\ password'[q] = password[q] /\ (clean'[q] => clean[q])

\* p's request goes on or ends.
GoesOn(p) ==
    op'[p] \in Registering =>
        /\ op'[p] = op[p] /\ user'[p] = user[p] /\ password'[p] = password[p]
        /\ (clean'[p] => clean[p])

\* Passwords stay and promises stay or are taken back, except for the user of a
\* registration or deletion: only if it is undisturbed it may make one that binds.
Keeps(p) ==
    \A u \in Users :
        \/ store'[u].password = store[u].password /\ promise'[u] \in {promise[u], Open}
        \/ /\ u = user[p] /\ op[p] \in Registering
           /\ promise'[u] = promise[u] \/ Free(promise'[u]) \/ clean[p]
           /\ promise'[u].excused \/ promise'[u].word \in {"unknown", store'[u].password}

\* What the others rely on is not taken away by p.
LEMMA OthersRely ==
  ASSUME AnswerInv, NEW p \in Procs, OthersStay(p), Keeps(p), NEW q \in Procs \ {p}
  PROVE  Reliance(q)'
<1> SUFFICES ASSUME op'[q] \in Registering PROVE Reliance(q)'
  BY DEF Reliance
<1>1. /\ step'[q] = step[q] /\ op'[q] = op[q] /\ user'[q] = user[q]
      /\ password'[q] = password[q] /\ (clean'[q] => clean[q])
  BY DEF OthersStay
<1>2. user[q] \in Users /\ Reliance(q) /\ op[q] \in Registering
  BY <1>1 DEF AnswerInv, TypeInv, Fitting, InPlace, Registering
<1>3. CASE /\ store'[user[q]].password = store[user[q]].password
           /\ promise'[user[q]] \in {promise[user[q]], Open}
  <2>1. step[q] \notin Early => Free(promise'[user[q]])
    BY <1>2, <1>3 DEF Reliance, Free, Open
  <2>2. clean'[q] /\ step[q] \in Stored => store'[user[q]].password = password[q]
    BY <1>1, <1>2, <1>3 DEF Reliance
  <2>3. clean'[q] /\ step[q] \in Gone => store'[user[q]].password = NoPassword
    BY <1>1, <1>2, <1>3 DEF Reliance
  <2> QED
    BY <1>1, <2>1, <2>2, <2>3 DEF Reliance
<1>4. CASE /\ user[q] = user[p] /\ op[p] \in Registering
           /\ \/ promise'[user[q]] = promise[user[q]] \/ Free(promise'[user[q]])
              \/ clean[p]
  <2>1. ~clean[p] /\ ~clean[q]
    BY <1>2, <1>4 DEF AnswerInv, NoneAlone, Same
  <2>2. step[q] \notin Early => Free(promise'[user[q]])
    BY <1>2, <1>4, <2>1 DEF Reliance
  <2> QED
    BY <1>1, <2>1, <2>2 DEF Reliance
<1> QED
  BY <1>2, <1>3, <1>4 DEF Keeps

\* The invariant, from what one step of p does.
LEMMA StepKeeps ==
  ASSUME AnswerInv, TypeInv', NEW p \in Procs, OthersStay(p), GoesOn(p), Keeps(p), Reliance(p)'
  PROVE  AnswerInv'
<1>1. AnswersKept'
  <2> SUFFICES ASSUME NEW u \in Users
               PROVE  promise'[u].excused \/ promise'[u].word \in {"unknown", store'[u].password}
    BY DEF AnswersKept
  <2>1. promise[u].excused \/ promise[u].word \in {"unknown", store[u].password}
    BY DEF AnswerInv, AnswersKept
  <2> QED
    BY <2>1 DEF Keeps, Open
<1>2. NoneAlone'
  <2> SUFFICES ASSUME NEW q \in Procs, NEW r \in Procs, q # r, Same(q, r)'
               PROVE  ~clean'[q] /\ ~clean'[r]
    BY DEF NoneAlone
  <2>1. ASSUME NEW s \in {q, r}
        PROVE  op[s] \in Registering /\ op'[s] = op[s] /\ user'[s] = user[s]
               /\ (clean'[s] => clean[s])
    BY DEF OthersStay, GoesOn, Same
  <2>2. Same(q, r)
    BY <2>1 DEF Same
  <2>3. ~clean[q] /\ ~clean[r]
    BY <2>2 DEF AnswerInv, NoneAlone
  <2> QED
    BY <2>1, <2>3
<1>3. \A q \in Procs : Reliance(q)'
  BY OthersRely
<1> QED
  BY <1>1, <1>2, <1>3 DEF AnswerInv

\* Moving on or ending, p leaves the others alone.
LEMMA MoveStays ==
  ASSUME TypeInv, NEW p \in Procs,
         \/ Ends(p)
         \/ UNCHANGED <<op, user, password, clean>> /\ \E s \in Steps : Goto(p, s)
  PROVE  OthersStay(p) /\ GoesOn(p)
<1>0. RequestTypes
  BY TypeParts
<1>1. CASE Ends(p)
  <2>1. /\ \A q \in Procs \ {p} : /\ step'[q] = step[q] /\ op'[q] = op[q] /\ user'[q] = user[q]
                                  /\ password'[q] = password[q] /\ clean'[q] = clean[q]
        /\ op'[p] = "none"
    BY <1>0, <1>1 DEF Ends, Goto, RequestTypes
  <2> QED
    BY <2>1 DEF OthersStay, GoesOn, Registering
<1>2. ASSUME UNCHANGED <<op, user, password, clean>>, NEW s \in Steps, Goto(p, s)
      PROVE  OthersStay(p) /\ GoesOn(p)
  <2>1. \A q \in Procs \ {p} : step'[q] = step[q]
    BY <1>0, <1>2 DEF Goto, RequestTypes
  <2> QED
    BY <1>2, <2>1 DEF OthersStay, GoesOn
<1> QED
  BY <1>1, <1>2

\* A step that leaves passwords and promises alone.
Quiet == UNCHANGED <<store, promise>>

LEMMA QuietKeeps == ASSUME Quiet, NEW p \in Procs PROVE Keeps(p)
BY DEF Quiet, Keeps

\* Nothing is relied on by a request that is over or has not changed anything.
LEMMA NothingRelied ==
  ASSUME NEW p \in Procs, op'[p] \notin Registering \/ step'[p] \in Early
  PROVE  Reliance(p)'
BY DEF Reliance, Early, Stored, Gone

LEMMA MoveResult ==
  ASSUME TypeInv, NEW p \in Procs
  PROVE  /\ Ends(p) => step'[p] = "idle" /\ op'[p] = "none"
         /\ \A s \in Steps : Goto(p, s) => step'[p] = s
<1>1. RequestTypes
  BY TypeParts
<1> QED
  BY <1>1 DEF Ends, Goto, RequestTypes

LEMMA HandlerAnswers ==
  ASSUME AnswerInv, TypeInv', NEW t \in Threads, Handlers(t)
  PROVE  AnswerInv'
<1>0. /\ t \in Procs /\ TypeInv /\ RequestTypes /\ StateTypes
      /\ Moves(t) /\ user[t] \in Users /\ op[t] \in {"register", "delete", "sync"}
      /\ Fits(op[t], step[t])
      /\ Reliance(t)
  BY HandlerMoves, TypeParts DEF Procs, AnswerInv, TypeInv, Fitting, InPlace
<1>m. OthersStay(t) /\ GoesOn(t)
  BY <1>0, MoveStays DEF Moves, Goes
<1>r. /\ Ends(t) => step'[t] = "idle" /\ op'[t] = "none"
      /\ \A s \in Steps : Goes(t, s) => step'[t] = s /\ op'[t] = op[t] /\ user'[t] = user[t]
  BY <1>0, MoveResult DEF Goes
<1>s. {"insert", "CREATEUSER", "INSERT", "compare", "lookup", "ADDTOACCOUNTS", "UPSERT",
       "GETACCOUNTS", "DELETE"} \subseteq Steps
  BY DEF Steps, MapSteps, Commands, Statements
<1>k. Keeps(t) /\ Reliance(t)'
  <2>1. CASE Check(t)
    <3>1. Quiet
      BY <2>1 DEF Check, Quiet
    <3>2. Ends(t) \/ Goes(t, "insert")
      BY <2>1 DEF Check
    <3>3. op'[t] \notin Registering \/ step'[t] \in Early
      BY <1>r, <1>s, <3>2 DEF Registering, Early
    <3> QED
      BY <1>0, <3>1, <3>3, QuietKeeps, NothingRelied
  <2>2. CASE Insert(t)
    <3>1. /\ store' = store /\ promise' = [promise EXCEPT ![user[t]] = Open]
          /\ Goes(t, IF Redis THEN "CREATEUSER" ELSE "INSERT")
      BY <2>2 DEF Insert
    <3>2. step'[t] \in {"CREATEUSER", "INSERT"} /\ user'[t] = user[t]
      BY <1>r, <1>s, <3>1
    <3>3. \A u \in Users : promise'[u] = IF u = user[t] THEN Open ELSE promise[u]
      BY <1>0, <3>1 DEF StateTypes
    <3> QED
      BY <1>0, <3>1, <3>2, <3>3 DEF Keeps, Reliance, Free, Open, Stored, Gone
  <2>3. CASE Registered(t)
    <3>1. /\ store' = store /\ step[t] = "registered"
          /\ promise' = [promise EXCEPT ![user[t]] =
                          [word |-> password[t], excused |-> ~clean[t]]]
          /\ op'[t] = "none"
      BY <1>r, <2>3 DEF Registered
    <3>2. \A u \in Users :
             promise'[u] = IF u = user[t] THEN [word |-> password[t], excused |-> ~clean[t]]
                           ELSE promise[u]
      BY <1>0, <3>1 DEF StateTypes
    <3>3. op[t] \in Registering
      BY <1>0, <3>1 DEF Fits, DeleteSteps, SyncSteps, Registering
    <3>4. clean[t] => store[user[t]].password = password[t]
      BY <1>0, <3>1, <3>3 DEF Reliance, Stored
    <3>5. Keeps(t)
      <4> SUFFICES ASSUME NEW u \in Users
                   PROVE  \/ /\ store'[u].password = store[u].password
                             /\ promise'[u] \in {promise[u], Open}
                          \/ /\ u = user[t] /\ op[t] \in Registering
                             /\ promise'[u] = promise[u] \/ Free(promise'[u]) \/ clean[t]
                             /\ \/ promise'[u].excused
                                \/ promise'[u].word \in {"unknown", store'[u].password}
        BY DEF Keeps
      <4>1. CASE u # user[t]
        BY <3>1, <3>2, <4>1
      <4>2. CASE u = user[t] /\ clean[t]
        <5>1. promise'[u].word = store'[u].password
          BY <3>1, <3>2, <3>4, <4>2
        <5> QED
          BY <3>3, <4>2, <5>1
      <4>3. CASE u = user[t] /\ ~clean[t]
        <5> DEFINE b == ~clean[t]
        <5>1. b = TRUE /\ promise'[u] = [word |-> password[t], excused |-> b]
          BY <3>2, <4>3
        <5> HIDE DEF b
        <5>2. promise'[u].excused = TRUE
          BY <5>1
        <5> QED
          BY <3>3, <4>3, <5>2 DEF Free
      <4> QED
        BY <4>1, <4>2, <4>3
    <3> QED
      BY <1>0, <3>1, <3>5, NothingRelied DEF Registering
  <2>4. CASE Erase(t)
    <3>1. Quiet /\ op'[t] \notin Registering
      BY <1>r, <2>4 DEF Erase, Quiet, historyVars, Registering
    <3> QED
      BY <1>0, <3>1, QuietKeeps, NothingRelied
  <2>5. CASE Count(t)
    <3>1. Quiet
      BY <2>5 DEF Count, Quiet, historyVars
    <3>2. Ends(t) \/ Goes(t, "compare")
      BY <2>5 DEF Count
    <3>3. op'[t] \notin Registering \/ step'[t] \in Early
      BY <1>r, <1>s, <3>2 DEF Registering, Early
    <3> QED
      BY <1>0, <3>1, <3>3, QuietKeeps, NothingRelied
  <2>6. CASE Compare(t)
    <3>1. Quiet
      BY <2>6 DEF Compare, Quiet
    <3>2. \/ Ends(t)
          \/ op[t] = "delete" /\ Goes(t, "lookup")
          \/ op[t] # "delete" /\ Goes(t, IF Redis THEN "ADDTOACCOUNTS" ELSE "UPSERT")
      BY <2>6 DEF Compare
    <3>3. op[t] # "register"
      BY <1>0, <2>6 DEF Compare, Fits, RegisterSteps
    <3>4. op'[t] \notin Registering \/ step'[t] \in Early
      BY <1>0, <1>r, <1>s, <3>2, <3>3 DEF Registering, Early
    <3> QED
      BY <1>0, <3>1, <3>4, QuietKeeps, NothingRelied
  <2>7. CASE Lookup(t)
    <3>1. /\ store' = store /\ promise' = [promise EXCEPT ![user[t]] = Open]
          /\ Ends(t) \/ Goes(t, IF Redis THEN "GETACCOUNTS" ELSE "DELETE")
      BY <2>7 DEF Lookup
    <3>2. op'[t] = "none" \/ (step'[t] \in {"GETACCOUNTS", "DELETE"} /\ user'[t] = user[t])
      BY <1>r, <1>s, <3>1
    <3>3. \A u \in Users : promise'[u] = IF u = user[t] THEN Open ELSE promise[u]
      BY <1>0, <3>1 DEF StateTypes
    <3>4. Keeps(t)
      BY <3>1, <3>3 DEF Keeps
    <3> QED
      BY <1>0, <3>2, <3>3, <3>4 DEF Reliance, Free, Open, Stored, Gone, Registering
  <2>8. CASE Forget(t)
    <3>1. /\ store' = store /\ step[t] = "forget"
          /\ promise' = [promise EXCEPT ![user[t]] =
                          [word |-> NoPassword, excused |-> ~clean[t]]]
          /\ op'[t] = "none"
      BY <1>r, <2>8 DEF Forget
    <3>2. \A u \in Users :
             promise'[u] = IF u = user[t] THEN [word |-> NoPassword, excused |-> ~clean[t]]
                           ELSE promise[u]
      BY <1>0, <3>1 DEF StateTypes
    <3>3. op[t] \in Registering
      BY <1>0, <3>1 DEF Fits, RegisterSteps, SyncSteps, Registering
    <3>4. clean[t] => store[user[t]].password = NoPassword
      BY <1>0, <3>1, <3>3 DEF Reliance, Gone
    <3>5. Keeps(t)
      <4> SUFFICES ASSUME NEW u \in Users
                   PROVE  \/ /\ store'[u].password = store[u].password
                             /\ promise'[u] \in {promise[u], Open}
                          \/ /\ u = user[t] /\ op[t] \in Registering
                             /\ promise'[u] = promise[u] \/ Free(promise'[u]) \/ clean[t]
                             /\ \/ promise'[u].excused
                                \/ promise'[u].word \in {"unknown", store'[u].password}
        BY DEF Keeps
      <4>1. CASE u # user[t]
        BY <3>1, <3>2, <4>1
      <4>2. CASE u = user[t] /\ clean[t]
        <5>1. promise'[u].word = store'[u].password
          BY <3>1, <3>2, <3>4, <4>2
        <5> QED
          BY <3>3, <4>2, <5>1
      <4>3. CASE u = user[t] /\ ~clean[t]
        <5> DEFINE b == ~clean[t]
        <5>1. b = TRUE /\ promise'[u] = [word |-> NoPassword, excused |-> b]
          BY <3>2, <4>3
        <5> HIDE DEF b
        <5>2. promise'[u].excused = TRUE
          BY <5>1
        <5> QED
          BY <3>3, <4>3, <5>2 DEF Free
      <4> QED
        BY <4>1, <4>2, <4>3
    <3> QED
      BY <1>0, <3>1, <3>5, NothingRelied DEF Registering
  <2>9. CASE Synced(t)
    <3>1. Quiet /\ op'[t] \notin Registering
      BY <1>r, <2>9 DEF Synced, Quiet, Registering
    <3> QED
      BY <1>0, <3>1, QuietKeeps, NothingRelied
  <2> QED
    BY <2>1, <2>2, <2>3, <2>4, <2>5, <2>6, <2>7, <2>8, <2>9 DEF Handlers
<1> QED
  BY <1>0, <1>m, <1>k, StepKeeps

\* The password a command leaves: that of a user is only changed by CREATEUSER and
\* DELUSER.
LEMMA AppliedPassword ==
  ASSUME TypeInv, NEW p \in Procs, step[p] \in Commands
  PROVE  Applied(p).password = CASE step[p] = "CREATEUSER" -> password[p]
                                 [] step[p] = "DELUSER" -> NoPassword
                                 [] OTHER -> store[user[p]].password
<1>1. store[user[p]] \in Rows
  BY CommandFacts DEF TypeInv, TypeOK
<1> QED
  BY <1>1 DEF Applied, Rows, Commands

LEMMA ResultPassword ==
  ASSUME TypeInv, NEW t \in Threads, step[t] \in Statements, NEW row \in Results(t)
  PROVE  row.password = CASE step[t] = "INSERT" -> password[t]
                          [] step[t] = "DELETE" -> NoPassword
                          [] OTHER -> store[user[t]].password
<1>1. store[user[t]] \in Rows
  BY StatementFacts DEF TypeInv, TypeOK
<1>2. CASE step[t] = "INSERT"
  BY <1>1, <1>2 DEF Results, Rows
<1>3. CASE step[t] = "DELETE"
  BY <1>1, <1>3 DEF Results, Rows
<1>4. CASE step[t] = "UPSERT"
  BY <1>1, <1>4 DEF Results, Rows
<1>5. CASE step[t] = "UPDATE"
  BY <1>1, <1>5 DEF Results, Rows
<1> QED
  BY <1>2, <1>3, <1>4, <1>5 DEF Statements

\* The user's row is replaced by one with the same password, or by a registration
\* or deletion that has already taken the promise back.
LEMMA RowKeeps ==
  ASSUME AnswerInv, NEW p \in Procs, user[p] \in Users, NEW row \in Rows, Apply(p, row),
         promise' = promise,
         row.password = store[user[p]].password \/ Free(promise[user[p]]),
         row.password = store[user[p]].password \/ op[p] \in Registering
  PROVE  Keeps(p)
<1>1. \A u \in Users : store'[u] = IF u = user[p] THEN row ELSE store[u]
  BY DEF Apply, AnswerInv, TypeInv, TypeOK
<1> QED
  BY <1>1 DEF Keeps, Free

LEMMA RedisAnswers ==
  ASSUME AnswerInv, TypeInv', NEW p \in Procs, RedisStep(p)
  PROVE  AnswerInv'
<1>0. /\ TypeInv /\ RequestTypes /\ StateTypes /\ Reliance(p) /\ Fits(op[p], step[p])
      /\ step[p] \in Commands /\ user[p] \in Users /\ Applied(p) \in Rows
      /\ store[user[p]] \in Rows
      /\ op[p] \in {"register", "delete", "sync", "clean"}
      /\ Fits(op[p], Following(p)) /\ Fits(op[p], FirstCommand(p))
  <2>1. step[p] \in Commands
    BY DEF RedisStep, Command, Refused, Breaks, Unsent, Swallowed, Nested, Commands
  <2> QED
    BY <2>1, CommandFacts, TypeParts DEF AnswerInv, TypeInv, TypeOK, Fitting, InPlace
<1>1. Following(p) \in Steps /\ FirstCommand(p) \in Steps
  BY <1>0, FitsStep
<1>2. op[p] \in Registering => Free(promise[user[p]])
  BY <1>0 DEF Reliance, Commands, Early
<1>3. step[p] \in {"CREATEUSER", "DELUSER"} => op[p] \in Registering
  BY <1>0 DEF Fits, SyncSteps, CleanSteps, Registering
<1>4. Applied(p).password = CASE step[p] = "CREATEUSER" -> password[p]
                              [] step[p] = "DELUSER" -> NoPassword
                              [] OTHER -> store[user[p]].password
  BY <1>0, AppliedPassword
<1>5. ASSUME Apply(p, store[user[p]]) \/ Apply(p, Applied(p)), promise' = promise
      PROVE  Keeps(p)
  BY <1>0, <1>2, <1>3, <1>4, <1>5, RowKeeps
<1>6. CASE Command(p)
  <2>1. /\ Apply(p, Applied(p)) /\ Goto(p, Following(p)) /\ promise' = promise
        /\ UNCHANGED <<op, user, password, clean>>
    BY <1>6 DEF Command, historyVars
  <2>2. OthersStay(p) /\ GoesOn(p)
    BY <1>0, <1>1, <2>1, MoveStays
  <2>3. Keeps(p)
    BY <1>5, <2>1
  <2>4. Reliance(p)'
    <3> SUFFICES ASSUME op[p] \in Registering
                 PROVE  Reliance(p)'
      BY <2>1 DEF Reliance
    <3>1. step'[p] = Following(p) /\ store'[user[p]] = Applied(p)
      BY <1>0, <1>1, <2>1, MoveResult DEF Apply, StateTypes
    <3>2. Free(promise'[user[p]])
      BY <1>2, <2>1
    <3>3. clean[p] /\ Following(p) \in Stored => Applied(p).password = password[p]
      <4>1. CASE step[p] = "CREATEUSER"
        BY <1>4, <4>1
      <4>2. CASE step[p] \in {"SETLASTSYNC", "CLEARLIST"}
        BY <1>0, <1>4, <4>2 DEF Reliance, Stored
      <4>3. CASE step[p] \notin {"CREATEUSER", "SETLASTSYNC", "CLEARLIST"}
        BY <1>0, <4>3 DEF Following, Commands, Stored
      <4> QED
        BY <4>1, <4>2, <4>3
    <3>4. clean[p] /\ Following(p) \in Gone => Applied(p).password = NoPassword
      <4>1. CASE step[p] = "DELUSER"
        BY <1>4, <4>1
      <4>2. CASE step[p] = "DELUSERSYNC"
        BY <1>0, <1>4, <4>2 DEF Reliance, Gone
      <4>3. CASE step[p] \notin {"DELUSER", "DELUSERSYNC"}
        BY <1>0, <4>3 DEF Following, Commands, Gone
      <4> QED
        BY <4>1, <4>2, <4>3
    <3> QED
      BY <2>1, <3>1, <3>2, <3>3, <3>4 DEF Reliance
  <2> QED
    BY <1>0, <2>2, <2>3, <2>4, StepKeeps
<1>7. CASE Refused(p)
  <2>1. /\ Goto(p, Following(p)) /\ UNCHANGED <<store, promise, op, user, password>>
        /\ clean' = [clean EXCEPT ![p] = @ /\ op[p] # "sync" /\ step[p] \notin UserCommands]
    BY <1>7 DEF Refused
  <2>2. /\ step'[p] = Following(p) /\ \A q \in Procs \ {p} : step'[q] = step[q]
        /\ clean'[p] => clean[p] /\ step[p] \notin UserCommands
        /\ \A q \in Procs \ {p} : clean'[q] = clean[q]
    BY <1>0, <2>1 DEF Goto, RequestTypes
  <2>3. OthersStay(p) /\ GoesOn(p) /\ Keeps(p)
    BY <2>1, <2>2, QuietKeeps DEF OthersStay, GoesOn, Quiet
  <2>4. clean'[p] /\ Following(p) \in Stored => step[p] \in Stored
    BY <1>0, <2>2 DEF UserCommands, Following, Commands, Stored
  <2>5. clean'[p] /\ Following(p) \in Gone => step[p] \in Gone
    BY <1>0, <2>2 DEF UserCommands, Following, Commands, Gone
  <2>6. Reliance(p)'
    BY <1>0, <1>2, <2>1, <2>2, <2>4, <2>5 DEF Reliance
  <2> QED
    BY <1>0, <2>3, <2>6, StepKeeps
<1>8. CASE Breaks(p)
  <2>1. Keeps(p)
    BY <1>5, <1>8 DEF Breaks
  <2>2. CASE attempt[p] < Tries(p) /\ op[p] \in Registering
    <3>1. Goto(p, FirstCommand(p)) /\ UNCHANGED <<promise, op, user, password, clean>>
      BY <1>8, <2>2 DEF Breaks, Registering
    <3>2. OthersStay(p) /\ GoesOn(p) /\ step'[p] = FirstCommand(p)
      BY <1>0, <1>1, <3>1, MoveStays, MoveResult
    <3>3. FirstCommand(p) \notin Stored \cup Gone
      BY <2>2 DEF FirstCommand, Stored, Gone, Registering
    <3>4. Reliance(p)'
      BY <1>2, <2>2, <3>1, <3>2, <3>3 DEF Reliance
    <3> QED
      BY <1>0, <2>1, <3>2, <3>4, StepKeeps
  <2>3. CASE attempt[p] < Tries(p) /\ op[p] \notin Registering
    <3>1. /\ Goto(p, FirstCommand(p)) /\ UNCHANGED <<op, password, clean>>
          /\ user' = user \/ user' = [user EXCEPT ![p] = NoUser]
      BY <1>8, <2>3 DEF Breaks
    <3>2. \A q \in Procs \ {p} : step'[q] = step[q] /\ user'[q] = user[q]
      BY <1>0, <3>1 DEF Goto, RequestTypes
    <3>3. OthersStay(p) /\ GoesOn(p) /\ Reliance(p)'
      BY <2>3, <3>1, <3>2, NothingRelied DEF OthersStay, GoesOn
    <3> QED
      BY <1>0, <2>1, <3>3, StepKeeps
  <2>4. CASE ~(attempt[p] < Tries(p))
    <3>1. /\ Ends(p) \/ (op[p] = "register" /\ Goes(p, "erase"))
          /\ promise' = promise
      BY <1>8, <2>4 DEF Breaks, GivesUp
    <3>2. "erase" \in Steps
      BY DEF Steps, MapSteps
    <3>3. OthersStay(p) /\ GoesOn(p)
      BY <1>0, <3>1, <3>2, MoveStays DEF Goes
    <3>4. \/ op'[p] = "none"
          \/ /\ step'[p] = "erase" /\ op[p] \in Registering /\ Free(promise'[user[p]])
             /\ user' = user
      BY <1>0, <1>2, <3>1, <3>2, MoveResult DEF Goes, Registering
    <3>5. Reliance(p)'
      BY <3>4 DEF Reliance, Registering, Stored, Gone
    <3> QED
      BY <1>0, <2>1, <3>3, <3>5, StepKeeps
  <2> QED
    BY <2>2, <2>3, <2>4
<1>9. CASE Unsent(p)
  <2>1. /\ UNCHANGED <<store, promise, op, user, password>>
        /\ step' = [step EXCEPT ![p] = IF step[p] = "TOUCH" THEN "synced" ELSE "TOUCH"]
        /\ clean' = [clean EXCEPT ![p] = FALSE]
        /\ step[p] \in {"ADDTOACCOUNTS", "TOUCH"}
    BY <1>9 DEF Unsent, Goto
  <2>2. /\ \A q \in Procs \ {p} : step'[q] = step[q]
        /\ ~clean'[p] /\ \A q \in Procs \ {p} : clean'[q] = clean[q]
    BY <1>0, <2>1 DEF RequestTypes
  <2>3. op[p] \notin Registering
    BY <1>0, <2>1 DEF Fits, RegisterSteps, DeleteSteps, Registering
  <2>4. OthersStay(p) /\ GoesOn(p) /\ Keeps(p) /\ Reliance(p)'
    BY <2>1, <2>2, <2>3, QuietKeeps, NothingRelied DEF OthersStay, GoesOn, Quiet
  <2> QED
    BY <1>0, <2>4, StepKeeps
<1>10. CASE Swallowed(p)
  <2>1. /\ Quiet /\ Goto(p, Following(p)) /\ UNCHANGED <<op, user, password, clean>>
        /\ op[p] = "clean"
    BY <1>10 DEF Swallowed, Nested, Quiet
  <2>2. OthersStay(p) /\ GoesOn(p)
    BY <1>0, <1>1, <2>1, MoveStays
  <2>3. Keeps(p) /\ Reliance(p)'
    BY <2>1, QuietKeeps, NothingRelied DEF Registering
  <2> QED
    BY <1>0, <2>2, <2>3, StepKeeps
<1> QED
  BY <1>6, <1>7, <1>8, <1>9, <1>10 DEF RedisStep

LEMMA SqlAnswers ==
  ASSUME AnswerInv, TypeInv', NEW t \in Threads, SqlStep(t)
  PROVE  AnswerInv'
<1>0. /\ t \in Procs /\ TypeInv /\ RequestTypes /\ StateTypes /\ Reliance(t)
      /\ Fits(op[t], step[t]) /\ step[t] \in Statements
      /\ user[t] \in Users /\ Results(t) \subseteq Rows /\ store[user[t]] \in Rows
      /\ op[t] \in {"register", "delete", "sync"} /\ Fits(op[t], Answered(t))
  <2>1. step[t] \in Statements
    BY DEF SqlStep, Execute, Rejected, Lost, Duplicate, Statements
  <2> QED
    BY <2>1, StatementFacts, TypeParts DEF AnswerInv, TypeInv, TypeOK, Fitting, InPlace, Procs
<1>1. op[t] \in Registering => Free(promise[user[t]])
  BY <1>0 DEF Reliance, Statements, Early
<1>2. step[t] \in {"INSERT", "DELETE"} => op[t] \in Registering
  BY <1>0 DEF Fits, SyncSteps, Registering
<1>3. \A row \in Results(t) :
         row.password = CASE step[t] = "INSERT" -> password[t]
                          [] step[t] = "DELETE" -> NoPassword
                          [] OTHER -> store[user[t]].password
  BY <1>0, ResultPassword
<1>4. ASSUME NEW row \in Results(t), Apply(t, row), promise' = promise
      PROVE  Keeps(t)
  BY <1>0, <1>1, <1>2, <1>3, <1>4, RowKeeps
<1>5. CASE Execute(t)
  <2>1. PICK row \in Results(t) : Apply(t, row)
    BY <1>5 DEF Execute
  <2>2. Goto(t, Answered(t)) /\ UNCHANGED <<promise, op, user, password, clean>>
    BY <1>5 DEF Execute, historyVars
  <2>3. Answered(t) \in Steps
    BY <1>0, FitsStep
  <2>4. /\ OthersStay(t) /\ GoesOn(t) /\ Keeps(t)
        /\ step'[t] = Answered(t) /\ store'[user[t]] = row
    BY <1>0, <1>4, <2>1, <2>2, <2>3, MoveStays, MoveResult DEF Apply, StateTypes
  <2>5. Reliance(t)'
    <3>1. CASE op[t] \notin Registering
      BY <1>0, <2>2, <3>1, NothingRelied
    <3>2. CASE op[t] \in Registering /\ step[t] = "INSERT"
      BY <1>1, <1>3, <2>2, <2>4, <3>2 DEF Answered, Reliance, Gone
    <3>3. CASE op[t] \in Registering /\ step[t] = "DELETE"
      BY <1>1, <1>3, <2>2, <2>4, <3>3 DEF Answered, Reliance, Stored
    <3>4. CASE op[t] \in Registering /\ step[t] \notin {"INSERT", "DELETE"}
      BY <1>0, <3>4 DEF Fits, RegisterSteps, DeleteSteps, Statements, Registering
    <3> QED
      BY <3>1, <3>2, <3>3, <3>4
  <2> QED
    BY <1>0, <2>4, <2>5, StepKeeps
<1>6. ASSUME SqlFails(t), promise' = promise, Keeps(t)
      PROVE  AnswerInv'
  <2>1. CASE Ends(t)
    <3>1. OthersStay(t) /\ GoesOn(t) /\ op'[t] \notin Registering
      BY <1>0, <2>1, MoveStays, MoveResult DEF Registering
    <3> QED
      BY <1>0, <1>6, <3>1, NothingRelied, StepKeeps
  <2>2. CASE UNCHANGED <<step, op, user, password, clean>>
    <3>1. OthersStay(t) /\ GoesOn(t)
      BY <2>2 DEF OthersStay, GoesOn
    <3>2. Reliance(t)'
      BY <1>0, <1>1, <1>6, <2>2 DEF Reliance, Stored, Gone, Statements
    <3> QED
      BY <1>0, <1>6, <3>1, <3>2, StepKeeps
  <2> QED
    BY <1>6, <2>1, <2>2 DEF SqlFails
<1>7. CASE Rejected(t)
  BY <1>0, <1>6, <1>7, QuietKeeps DEF Rejected, Quiet
<1>8. CASE Lost(t)
  <2>1. Keeps(t)
    <3>1. promise' = promise
      BY <1>8 DEF Lost
    <3>2. store' = store \/ \E row \in Results(t) : Apply(t, row)
      BY <1>8 DEF Lost
    <3> QED
      BY <1>0, <1>4, <3>1, <3>2, QuietKeeps DEF Quiet
  <2> QED
    BY <1>6, <1>8, <2>1 DEF Lost
<1> QED
  BY <1>5, <1>7, <1>8 DEF SqlStep

\* Nobody relies on more, and the store and the promises say the same.
LEMMA Untouched ==
  ASSUME AnswerInv, TypeInv', promise' = promise,
         \A u \in Users : store'[u].password = store[u].password,
         \A q \in Procs : op'[q] \in Registering =>
            /\ step'[q] = step[q] /\ op'[q] = op[q] /\ user'[q] = user[q]
            /\ password'[q] = password[q] /\ (clean'[q] => clean[q])
  PROVE  AnswerInv'
<1>1. AnswersKept'
  BY DEF AnswerInv, AnswersKept
<1>2. NoneAlone'
  BY DEF AnswerInv, NoneAlone, Same
<1>3. ASSUME NEW q \in Procs PROVE Reliance(q)'
  <2> SUFFICES ASSUME op'[q] \in Registering PROVE Reliance(q)'
    BY DEF Reliance
  <2>1. Reliance(q) /\ user[q] \in Users
    BY DEF AnswerInv, TypeInv, Fitting, InPlace, Registering
  <2>2. store'[user[q]].password = store[user[q]].password
    BY <2>1
  <2>3. /\ step'[q] = step[q] /\ op'[q] = op[q] /\ user'[q] = user[q]
        /\ password'[q] = password[q] /\ (clean'[q] => clean[q])
    OBVIOUS
  <2> QED
    BY <2>1, <2>2, <2>3 DEF Reliance
<1> QED
  BY <1>1, <1>2, <1>3 DEF AnswerInv

LEMMA RequestAnswers ==
  ASSUME AnswerInv, TypeInv', NEW t \in Threads, NEW o \in Registering \cup {"sync"},
         NEW u \in Users, NEW w \in Passwords, Request(t, o, u, w)
  PROVE  AnswerInv'
<1> DEFINE others == {v \in Procs \ {t} : On(v, u)}
<1>0. t \in Procs /\ RequestTypes /\ store' = store /\ promise' = promise
  BY TypeParts DEF Procs, AnswerInv, Request
<1>1. /\ step'[t] \in {"check", "count"} /\ op'[t] = o /\ user'[t] = u
      /\ \A q \in Procs \ {t} : /\ step'[q] = step[q] /\ op'[q] = op[q] /\ user'[q] = user[q]
                                /\ password'[q] = password[q]
  BY <1>0 DEF Request, Goto, RequestTypes
<1>2. clean' = [q \in Procs |-> IF q = t THEN \A r \in others : ~Disturbs(op[r], o)
                                 ELSE clean[q] /\ ~(q \in others /\ Disturbs(o, op[q]))]
  BY DEF Request, Overlap
<1> HIDE DEF others
<1>3. /\ clean'[t] <=> \A r \in others : ~Disturbs(op[r], o)
      /\ \A q \in Procs \ {t} :
            clean'[q] => clean[q] /\ ~(q \in others /\ Disturbs(o, op[q]))
  BY <1>0, <1>2, Zenon
<1>4. OthersStay(t) /\ Keeps(t)
  BY <1>0, <1>1, <1>3, QuietKeeps DEF OthersStay, Quiet
<1>5. \A q \in Procs : Reliance(q)'
  BY <1>0, <1>1, <1>4, OthersRely, NothingRelied DEF Early
<1>6. ASSUME NEW q \in Procs \ {t}, Same(t, q)'
      PROVE  ~clean'[t] /\ ~clean'[q]
  <2>1. op[q] \in Registering /\ user[q] = u /\ o \in Registering
    BY <1>1, <1>6 DEF Same
  <2>2. q \in others /\ Disturbs(op[q], o) /\ Disturbs(o, op[q])
    BY <2>1 DEF others, On, Disturbs, Registering
  <2> QED
    BY <1>3, <2>2
<1>7. NoneAlone'
  <2> SUFFICES ASSUME NEW q \in Procs, NEW r \in Procs, q # r, Same(q, r)'
               PROVE  ~clean'[q] /\ ~clean'[r]
    BY DEF NoneAlone
  <2>1. CASE q = t
    BY <1>6, <2>1
  <2>2. CASE r = t
    <3>1. Same(t, q)'
      BY <2>2 DEF Same
    <3> QED
      BY <1>6, <2>2, <3>1
  <2>3. CASE q # t /\ r # t
    <3>1. Same(q, r)
      BY <1>1, <2>3 DEF Same
    <3> QED
      BY <1>3, <2>3, <3>1 DEF AnswerInv, NoneAlone
  <2> QED
    BY <2>1, <2>2, <2>3
<1>8. AnswersKept'
  BY <1>0 DEF AnswerInv, AnswersKept
<1> QED
  BY <1>5, <1>7, <1>8 DEF AnswerInv

LEMMA DiesAnswers == AnswerInv /\ TypeInv' /\ Dies => AnswerInv'
<1> SUFFICES ASSUME AnswerInv, TypeInv', Dies PROVE AnswerInv'
  OBVIOUS
<1>1. promise' = promise /\ store' = store /\ \A q \in Procs : op'[q] \notin Registering
  BY DEF Dies, Registering
<1> QED
  BY <1>1, Untouched

LEMMA DataCleanerAnswers == AnswerInv /\ TypeInv' /\ DataCleaner => AnswerInv'
<1> SUFFICES ASSUME AnswerInv, TypeInv', DataCleaner PROVE AnswerInv'
  OBVIOUS
<1>0. /\ Cleaner \in Procs /\ TypeInv /\ RequestTypes /\ StateTypes
      /\ op[Cleaner] \in {"none", "clean"}
  BY TypeParts DEF Procs, AnswerInv, TypeInv, Fitting, InPlace
<1>1. CASE CleanerStarts
  <2>1. /\ step' = [step EXCEPT ![Cleaner] = "read"] /\ op' = [op EXCEPT ![Cleaner] = "clean"]
        /\ UNCHANGED <<store, promise, user, password>>
    BY <1>1 DEF CleanerStarts, Goto
  <2>2. \A q \in Procs : clean'[q] => clean[q]
    <3>1. clean' = [p \in Procs |-> clean[p] /\ op[p] # "sync"]
      BY <1>1 DEF CleanerStarts
    <3> QED
      BY <3>1, Zenon
  <2>3. /\ op'[Cleaner] = "clean"
        /\ \A q \in Procs \ {Cleaner} : step'[q] = step[q] /\ op'[q] = op[q]
    BY <1>0, <2>1 DEF RequestTypes
  <2> QED
    BY <2>1, <2>2, <2>3, Untouched DEF Registering
<1>2. ASSUME ReadsNext \/ CleanerEnds PROVE AnswerInv'
  <2>1. Quiet
    BY <1>2 DEF ReadsNext, CleanerEnds, Quiet, historyVars
  <2>2. Ends(Cleaner) \/ Goes(Cleaner, "next")
    BY <1>2 DEF ReadsNext, CleanerEnds
  <2>3. "next" \in Steps
    BY DEF Steps
  <2>4. OthersStay(Cleaner) /\ GoesOn(Cleaner)
    BY <1>0, <2>2, <2>3, MoveStays DEF Goes
  <2>5. op'[Cleaner] \notin Registering
    BY <1>0, <2>2, MoveResult DEF Goes, Registering
  <2> QED
    BY <1>0, <2>1, <2>4, <2>5, QuietKeeps, NothingRelied, StepKeeps
<1>3. CASE DeleteOld
  <2>1. \A u \in Users : store'[u].password = store[u].password
    BY <1>0, <1>3 DEF DeleteOld, StateTypes, Rows
  <2> QED
    BY <1>3, <2>1, Untouched DEF DeleteOld, requestVars, historyVars
<1>4. ASSUME NEW u \in Users, ReadsLastSync(u) PROVE AnswerInv'
  <2>1. CASE Dies
    BY <2>1, DiesAnswers
  <2>2. CASE ~Dies
    BY <1>4, <2>2, Untouched DEF ReadsLastSync, requestVars, historyVars
  <2> QED
    BY <2>1, <2>2
<1>5. ASSUME NEW u \in Users, CleansUser(u) PROVE AnswerInv'
  <2>1. /\ step' = [step EXCEPT ![Cleaner] = "GETACCOUNTS"]
        /\ user' = [user EXCEPT ![Cleaner] = u]
        /\ UNCHANGED <<store, promise, op, password, clean>>
    BY <1>5 DEF CleansUser, Goto, historyVars
  <2>2. \A q \in Procs \ {Cleaner} : step'[q] = step[q] /\ user'[q] = user[q]
    BY <1>0, <2>1 DEF RequestTypes
  <2> QED
    BY <1>0, <2>1, <2>2, Untouched DEF Registering
<1>6. CASE Unconnected
  <2>1. /\ UNCHANGED <<store, promise>>
        /\ \/ UNCHANGED <<step, op, user, password, clean>>
           \/ Ends(Cleaner)
    BY <1>6 DEF Unconnected, historyVars
  <2>2. CASE UNCHANGED <<step, op, user, password, clean>>
    BY <2>1, <2>2, Untouched
  <2>3. CASE Ends(Cleaner)
    <3>1. OthersStay(Cleaner) /\ GoesOn(Cleaner) /\ op'[Cleaner] \notin Registering
      BY <1>0, <2>3, MoveStays, MoveResult DEF Registering
    <3> QED
      BY <1>0, <2>1, <3>1, QuietKeeps, NothingRelied, StepKeeps DEF Quiet
  <2> QED
    BY <2>1, <2>2, <2>3
<1> QED
  BY <1>1, <1>2, <1>3, <1>4, <1>5, <1>6 DEF DataCleaner

LEMMA NextAnswers == AnswerInv /\ [Next]_vars => AnswerInv'
<1> SUFFICES ASSUME AnswerInv, [Next]_vars PROVE AnswerInv'
  OBVIOUS
<1>0. TypeInv'
  BY NextType DEF AnswerInv
<1>s. StateTypes
  BY TypeParts DEF AnswerInv
<1>1. ASSUME NEW t \in Threads, NEW o \in Registering \cup {"sync"}, NEW u \in Users,
             NEW w \in Passwords, Request(t, o, u, w)
      PROVE  AnswerInv'
  BY <1>0, <1>1, RequestAnswers
<1>2. ASSUME NEW t \in Threads, Handlers(t) PROVE AnswerInv'
  BY <1>0, <1>2, HandlerAnswers
<1>3. ASSUME NEW t \in Threads, SqlStep(t) PROVE AnswerInv'
  BY <1>0, <1>3, SqlAnswers
<1>4. ASSUME NEW p \in Procs, RedisStep(p) PROVE AnswerInv'
  BY <1>0, <1>4, RedisAnswers
<1>5. CASE DataCleaner
  BY <1>0, <1>5, DataCleanerAnswers
<1>6. CASE Load
  BY <1>0, <1>6, Untouched DEF Load, requestVars
<1>7. CASE Crash
  BY <1>0, <1>7, DiesAnswers DEF Crash
<1>8. CASE Age
  <2>1. \A u \in Users : store'[u].password = store[u].password
    BY <1>s, <1>8 DEF Age, StateTypes, Rows
  <2> QED
    BY <1>0, <1>8, <2>1, Untouched DEF Age, requestVars
<1>9. CASE UNCHANGED vars
  BY <1>0, <1>9, Untouched DEF vars, requestVars, historyVars
<1> QED
  BY <1>1, <1>2, <1>3, <1>4, <1>5, <1>6, <1>7, <1>8, <1>9 DEF Next

LEMMA InitAnswers == Init => AnswerInv
<1> SUFFICES ASSUME Init PROVE AnswerInv
  OBVIOUS
<1>1. AnswersKept
  BY DEF Init, AnswersKept, Open
<1>2. \A p \in Procs : op[p] \notin Registering
  BY DEF Init, Registering
<1> QED
  BY <1>1, <1>2, InitType DEF AnswerInv, NoneAlone, Same, Reliance

\* An answer 200 to register or delete stays true of the store, whatever other
\* requests, failures, retries, the cleaner and restarts do, until the next request
\* that may change it; unless its request overlapped another to register or delete
\* the user, or had its CREATEUSER or DELUSER answered by an error, which the code
\* takes for success (RedisStore.cpp:577): such an answer may be false at once.
THEOREM AnswersStayTrue == Spec => []AnswersKept
<1>1. AnswerInv => AnswersKept
  BY DEF AnswerInv
<1> QED
  BY <1>1, InitAnswers, NextAnswers, PTL DEF Spec

-----------------------------------------------------------------------------
(* Map and store. *)

Before == {"check", "count", "compare", "lookup"}
Adding == {"CREATEUSER", "INSERT"}
Removing == {"GETACCOUNTS", "DELACCOUNT", "DELACCOUNTLIST", "DELUSER", "DELETE"}

\* What the map and the store have of a user whose registration or deletion is at a
\* step, with the password it came with.
MidAt(at, word, map, row) ==
    /\ at \in Before \cup {"insert"} => map = row
    /\ at \in {"insert", "erase"} \cup Gone => row = NoPassword
    /\ at \in Adding \cup Stored => map = word
    /\ at \in Adding => row \in {NoPassword, word}
    /\ at \in Stored => row = word
    /\ at \in Removing => row \in {map, NoPassword}

Mid(p) == MidAt(step[p], password[p], user_infos[user[p]], store[user[p]].password)

\* Of a user no two registrations or deletions are under way; if one is, map and
\* store are where it has brought them, if none is they agree.
Settled(u) ==
    /\ \A p, q \in Procs : Same(p, q) /\ user[p] = u => p = q
    /\ \A p \in Procs : op[p] \in Registering /\ user[p] = u => Mid(p)
    /\ (\A p \in Procs : op[p] \in Registering => user[p] # u) =>
           user_infos[u] = store[u].password

AgreeInv ==
    /\ TypeInv
    /\ ~loaded => \A p \in Procs : op[p] = "none"
    /\ loaded /\ ~torn => \A u \in Users \ doubtMap : Settled(u)

\* What p's step must come to, if it registers or deletes.
Arrives(p) ==
    IF op'[p] \in Registering
    THEN MidAt(step'[p], password[p], user_infos'[user[p]], store'[user[p]].password)
    ELSE user_infos'[user[p]] = store'[user[p]].password

\* Map and passwords stay, but for the user that p registers or deletes.
Spares(p) ==
    \A u \in Users :
        \/ op[p] \in Registering /\ u = user[p]
        \/ user_infos'[u] = user_infos[u] /\ store'[u].password = store[u].password

\* The invariant, from what one step of p does.
LEMMA StepAgrees ==
  ASSUME AgreeInv, TypeInv', NEW p \in Procs, OthersStay(p), GoesOn(p),
         loaded, loaded', torn => torn', doubtMap \subseteq doubtMap',
         ~torn' => Spares(p),
         ~torn' /\ op[p] \in Registering /\ user[p] \notin doubtMap' => Arrives(p)
  PROVE  AgreeInv'
<1> SUFFICES ASSUME ~torn', NEW u \in Users \ doubtMap' PROVE Settled(u)'
  BY DEF AgreeInv
<1>0. Settled(u) /\ Spares(p)
  BY DEF AgreeInv
<1>1. ASSUME NEW q \in Procs, op'[q] \in Registering
      PROVE  op[q] = op'[q] /\ user[q] = user'[q] /\ password[q] = password'[q]
  BY <1>1 DEF OthersStay, GoesOn
<1>2. ASSUME NEW q \in Procs, NEW r \in Procs, Same(q, r)', user'[q] = u
      PROVE  q = r
  <2>1. Same(q, r) /\ user[q] = u
    BY <1>1, <1>2 DEF Same
  <2> QED
    BY <1>0, <2>1 DEF Settled
<1>3. ASSUME NEW q \in Procs, op'[q] \in Registering, user'[q] = u
      PROVE  Mid(q)'
  <2>1. op[q] \in Registering /\ user[q] = u /\ password'[q] = password[q]
    BY <1>1, <1>3
  <2>2. CASE q = p
    <3>1. Arrives(p)
      BY <2>1, <2>2
    <3> QED
      BY <1>3, <2>1, <2>2, <3>1 DEF Arrives, Mid
  <2>3. CASE q # p
    <3>1. ~(op[p] \in Registering /\ user[p] = u)
      BY <1>0, <2>1, <2>3 DEF Settled, Same
    <3>2. user_infos'[u] = user_infos[u] /\ store'[u].password = store[u].password
      BY <1>0, <3>1 DEF Spares
    <3>3. step'[q] = step[q]
      BY <2>3 DEF OthersStay
    <3>4. Mid(q)
      BY <1>0, <2>1 DEF Settled
    <3> QED
      BY <1>3, <2>1, <3>2, <3>3, <3>4 DEF Mid
  <2> QED
    BY <2>2, <2>3
<1>4. ASSUME \A q \in Procs : op'[q] \in Registering => user'[q] # u
      PROVE  user_infos'[u] = store'[u].password
  <2>1. CASE op[p] \in Registering /\ user[p] = u
    <3>1. op'[p] \notin Registering
      BY <1>1, <1>4, <2>1
    <3> QED
      BY <2>1, <3>1 DEF Arrives
  <2>2. CASE ~(op[p] \in Registering /\ user[p] = u)
    <3>1. \A q \in Procs : op[q] \in Registering => user[q] # u
      BY <1>4, <2>2 DEF OthersStay
    <3>2. user_infos[u] = store[u].password
      BY <1>0, <3>1 DEF Settled
    <3> QED
      BY <1>0, <2>2, <3>2 DEF Spares
  <2> QED
    BY <2>1, <2>2
<1> QED
  BY <1>2, <1>3, <1>4 DEF Settled

\* Where the registration or deletion p has brought map and store.
LEMMA MidNow ==
  ASSUME AgreeInv, NEW p \in Procs, op[p] # "none"
  PROVE  /\ loaded
         /\ op[p] \in Registering /\ ~torn /\ user[p] \notin doubtMap => Mid(p)
<1>1. loaded /\ (op[p] \in Registering => user[p] \in Users)
  BY DEF AgreeInv, TypeInv, Fitting, InPlace, Registering
<1> QED
  BY <1>1 DEF AgreeInv, Settled

LEMMA WriteFacts ==
  ASSUME TypeInv, NEW t \in Threads, NEW v, Write(t, v), ~torn'
  PROVE  ~torn /\ user_infos' = [user_infos EXCEPT ![user[t]] = v]
BY DEF Write, Tear

LEMMA HandlerAgrees ==
  ASSUME AgreeInv, TypeInv', NEW t \in Threads, Handlers(t)
  PROVE  AgreeInv'
<1>0. /\ t \in Procs /\ TypeInv /\ RequestTypes /\ StateTypes
      /\ Moves(t) /\ user[t] \in Users /\ op[t] \in {"register", "delete", "sync"}
      /\ Fits(op[t], step[t])
  BY HandlerMoves, TypeParts DEF Procs, AgreeInv, TypeInv, Fitting, InPlace
<1>m. OthersStay(t) /\ GoesOn(t)
  BY <1>0, MoveStays DEF Moves, Goes
<1>r. /\ Ends(t) => step'[t] = "idle" /\ op'[t] = "none"
      /\ \A s \in Steps : Goes(t, s) => step'[t] = s /\ op'[t] = op[t]
  BY <1>0, MoveResult DEF Goes
<1>s. {"insert", "CREATEUSER", "INSERT", "compare", "lookup", "ADDTOACCOUNTS", "UPSERT",
       "GETACCOUNTS", "DELETE"} \subseteq Steps
  BY DEF Steps, MapSteps, Commands, Statements
<1>n. /\ loaded
      /\ op[t] \in Registering /\ ~torn /\ user[t] \notin doubtMap => Mid(t)
  BY <1>0, MidNow
<1>f. store' = store /\ loaded' = loaded /\ doubtMap' = doubtMap
  BY DEF Handlers, Check, Insert, Registered, Erase, Count, Compare, Lookup, Forget, Synced,
         historyVars
<1> DEFINE Own == op[t] \in Registering /\ user[t] \notin doubtMap
           Result == (torn => torn') /\ (~torn' => Spares(t)) /\ (~torn' /\ Own => Arrives(t))
<1>u. ASSUME UNCHANGED <<user_infos, torn>> PROVE (torn => torn') /\ Spares(t)
  BY <1>f, <1>u DEF Spares
<1>v. ASSUME NEW v, Write(t, v), op[t] \in Registering
      PROVE  /\ torn => torn'
             /\ ~torn' => Spares(t) /\ user_infos'[user[t]] = v /\ ~torn
  <2>1. ~torn' => ~torn /\ user_infos' = [user_infos EXCEPT ![user[t]] = v]
    BY <1>0, <1>v, WriteFacts
  <2>2. ~torn' => \A u \in Users : user_infos'[u] = IF u = user[t] THEN v ELSE user_infos[u]
    BY <1>0, <2>1 DEF StateTypes
  <2> QED
    BY <1>0, <1>f, <1>v, <2>1, <2>2 DEF Spares
<1>k. Result
  <2>1. CASE Check(t)
    <3>1. UNCHANGED <<user_infos, torn>> /\ step[t] = "check"
      BY <2>1 DEF Check
    <3>2. ~torn => Ends(t) \/ (Goes(t, "insert") /\ user_infos[user[t]] = NoPassword)
      BY <2>1 DEF Check, Found
    <3>3. ~torn /\ Own => user_infos[user[t]] = store[user[t]].password
      BY <1>n, <3>1 DEF Mid, MidAt, Before
    <3>4. ~torn /\ Own => Arrives(t)
      BY <1>f, <1>r, <1>s, <3>1, <3>2, <3>3
         DEF Arrives, MidAt, Before, Adding, Stored, Removing, Registering
    <3> QED
      BY <1>u, <3>1, <3>4
  <2>2. CASE Insert(t)
    <3>1. /\ Write(t, password[t]) /\ step[t] = "insert"
          /\ Goes(t, IF Redis THEN "CREATEUSER" ELSE "INSERT")
      BY <2>2 DEF Insert
    <3>2. step'[t] \in Adding /\ op'[t] = op[t]
      BY <1>r, <1>s, <3>1 DEF Adding
    <3>3. op[t] \in Registering
      BY <1>0, <3>1 DEF Fits, SyncSteps, Registering
    <3>4. ~torn /\ Own => store[user[t]].password = NoPassword
      BY <1>n, <3>1 DEF Mid, MidAt
    <3>5. ~torn' /\ Own => Arrives(t)
      BY <1>f, <1>v, <3>1, <3>2, <3>3, <3>4
         DEF Arrives, MidAt, Before, Adding, Stored, Removing, Gone
    <3> QED
      BY <1>v, <3>1, <3>3, <3>5
  <2>3. CASE Registered(t)
    <3>1. UNCHANGED <<user_infos, torn>> /\ step[t] = "registered" /\ op'[t] = "none"
      BY <1>r, <2>3 DEF Registered
    <3>2. ~torn /\ Own => Arrives(t)
      BY <1>f, <1>n, <3>1 DEF Mid, MidAt, Stored, Arrives, Registering
    <3> QED
      BY <1>u, <3>1, <3>2
  <2>4. CASE Erase(t)
    <3>1. Write(t, NoPassword) /\ step[t] = "erase" /\ op'[t] = "none"
      BY <1>r, <2>4 DEF Erase
    <3>2. op[t] \in Registering
      BY <1>0, <3>1 DEF Fits, SyncSteps, Registering
    <3>3. ~torn' /\ Own => Arrives(t)
      BY <1>f, <1>n, <1>v, <3>1, <3>2 DEF Mid, MidAt, Arrives, Registering
    <3> QED
      BY <1>v, <3>1, <3>2, <3>3
  <2>5. CASE Count(t)
    <3>1. UNCHANGED <<user_infos, torn>> /\ step[t] = "count" /\ (Ends(t) \/ Goes(t, "compare"))
      BY <2>5 DEF Count
    <3>2. ~torn /\ Own => user_infos[user[t]] = store[user[t]].password
      BY <1>n, <3>1 DEF Mid, MidAt, Before
    <3>3. ~torn /\ Own => Arrives(t)
      BY <1>f, <1>r, <1>s, <3>1, <3>2
         DEF Arrives, MidAt, Before, Adding, Stored, Removing, Gone, Registering
    <3> QED
      BY <1>u, <3>1, <3>3
  <2>6. CASE Compare(t)
    <3>1. /\ UNCHANGED <<user_infos, torn>> \/ torn'
          /\ step[t] = "compare"
          /\ \/ Ends(t)
             \/ op[t] = "delete" /\ Goes(t, "lookup")
             \/ op[t] # "delete"
      BY <2>6 DEF Compare, Tear
    <3>2. op[t] # "register"
      BY <1>0, <3>1 DEF Fits, RegisterSteps
    <3>3. ~torn' /\ Own => user_infos[user[t]] = store[user[t]].password
      BY <1>n, <3>1 DEF Mid, MidAt, Before
    <3>4. ~torn' /\ Own => Arrives(t)
      BY <1>f, <1>r, <1>s, <3>1, <3>2, <3>3
         DEF Arrives, MidAt, Before, Adding, Stored, Removing, Gone, Registering
    <3> QED
      BY <1>u, <3>1, <3>4
  <2>7. CASE Lookup(t)
    <3>1. /\ \/ torn'
             \/ /\ UNCHANGED <<user_infos, torn>>
                /\ Goes(t, IF Redis THEN "GETACCOUNTS" ELSE "DELETE")
          /\ step[t] = "lookup"
      BY <2>7 DEF Lookup, Tear
    <3>2. ~torn' => step'[t] \in Removing
      BY <1>r, <1>s, <3>1 DEF Removing
    <3>3. ~torn' /\ Own => user_infos[user[t]] = store[user[t]].password
      BY <1>n, <3>1 DEF Mid, MidAt, Before
    <3>4. ~torn' /\ Own => Arrives(t)
      BY <1>f, <1>r, <1>s, <3>1, <3>2, <3>3
         DEF Arrives, MidAt, Before, Adding, Stored, Removing, Gone, Registering
    <3> QED
      BY <1>u, <3>1, <3>4
  <2>8. CASE Forget(t)
    <3>1. torn' \/ Write(t, NoPassword)
      BY <2>8 DEF Forget, Tear
    <3>2. step[t] = "forget" /\ op'[t] = "none"
      BY <1>r, <2>8 DEF Forget
    <3>3. op[t] \in Registering
      BY <1>0, <3>2 DEF Fits, RegisterSteps, SyncSteps, Registering
    <3>4. ~torn' /\ Own => Arrives(t)
      BY <1>f, <1>n, <1>v, <3>1, <3>2, <3>3 DEF Mid, MidAt, Arrives, Gone, Registering
    <3> QED
      BY <1>v, <3>1, <3>3, <3>4
  <2>9. CASE Synced(t)
    <3>1. UNCHANGED <<user_infos, torn>> /\ step[t] = "synced"
      BY <2>9 DEF Synced
    <3>2. op[t] \notin Registering
      BY <1>0, <3>1 DEF Fits, RegisterSteps, DeleteSteps, Registering
    <3> QED
      BY <1>u, <3>1, <3>2
  <2> QED
    BY <2>1, <2>2, <2>3, <2>4, <2>5, <2>6, <2>7, <2>8, <2>9 DEF Handlers
<1> QED
  BY <1>0, <1>m, <1>n, <1>f, <1>k, StepAgrees

\* A row is replaced: a registration or deletion may change the password, and
\* nothing else does.
LEMMA RowSpares ==
  ASSUME TypeInv, NEW p \in Procs, user[p] \in Users, NEW row \in Rows, Apply(p, row),
         row.password = store[user[p]].password \/ op[p] \in Registering,
         user_infos' = user_infos
  PROVE  Spares(p) /\ store'[user[p]] = row
<1>1. \A u \in Users : store'[u] = IF u = user[p] THEN row ELSE store[u]
  BY DEF Apply, TypeInv, TypeOK
<1> QED
  BY <1>1 DEF Spares

LEMMA RedisAgrees ==
  ASSUME AgreeInv, TypeInv', NEW p \in Procs, RedisStep(p)
  PROVE  AgreeInv'
<1>0. /\ TypeInv /\ RequestTypes /\ StateTypes /\ Fits(op[p], step[p])
      /\ step[p] \in Commands /\ user[p] \in Users /\ Applied(p) \in Rows
      /\ store[user[p]] \in Rows
      /\ op[p] \in {"register", "delete", "sync", "clean"}
      /\ Fits(op[p], Following(p)) /\ Fits(op[p], FirstCommand(p))
  <2>1. step[p] \in Commands
    BY DEF RedisStep, Command, Refused, Breaks, Unsent, Swallowed, Nested, Commands
  <2> QED
    BY <2>1, CommandFacts, TypeParts DEF AgreeInv, TypeInv, TypeOK, Fitting, InPlace
<1>1. Following(p) \in Steps /\ FirstCommand(p) \in Steps
  BY <1>0, FitsStep
<1>2. UNCHANGED <<loaded, user_infos, torn>>
  BY DEF RedisStep, Command, Refused, Breaks, Unsent, Swallowed
<1>3. step[p] \in {"CREATEUSER", "DELUSER"} => op[p] \in Registering
  BY <1>0 DEF Fits, SyncSteps, CleanSteps, Registering
<1>4. Applied(p).password = CASE step[p] = "CREATEUSER" -> password[p]
                              [] step[p] = "DELUSER" -> NoPassword
                              [] OTHER -> store[user[p]].password
  BY <1>0, AppliedPassword
<1>5. /\ Apply(p, Applied(p)) => Spares(p) /\ store'[user[p]] = Applied(p)
      /\ Apply(p, store[user[p]]) => Spares(p) /\ store'[user[p]] = store[user[p]]
  BY <1>0, <1>2, <1>3, <1>4, RowSpares
<1> DEFINE Own == ~torn /\ op[p] \in Registering /\ user[p] \notin doubtMap
<1>n. loaded /\ (Own => Mid(p))
  BY <1>0, MidNow
<1>a. Own => \/ /\ op[p] = "register" /\ step[p] \in {"CREATEUSER", "SETLASTSYNC", "CLEARLIST"}
                /\ user_infos[user[p]] = password[p]
                /\ store[user[p]].password \in {NoPassword, password[p]}
             \/ /\ op[p] = "delete"
                /\ step[p] \in {"GETACCOUNTS", "DELACCOUNT", "DELACCOUNTLIST", "DELUSER",
                                "DELUSERSYNC"}
                /\ store[user[p]].password \in {NoPassword, user_infos[user[p]]}
  BY <1>0, <1>n DEF Mid, MidAt, Adding, Removing, Stored, Gone, Fits, RegisterSteps,
                    DeleteSteps, Commands, Registering
<1>b. ASSUME Own, step'[p] = Following(p), UNCHANGED <<op, user, password>>,
             store'[user[p]].password = Applied(p).password
      PROVE  Arrives(p)
  <2>1. CASE step[p] \in {"CREATEUSER", "SETLASTSYNC", "CLEARLIST"}
    <3>1. step'[p] \in Stored
      BY <1>b, <2>1 DEF Following, Stored
    <3>2. step[p] \in Stored => store[user[p]].password = password[p]
      BY <1>n, <1>b DEF Mid, MidAt
    <3>3. /\ store'[user[p]].password = password[p]
          /\ user_infos'[user[p]] = password[p]
      BY <1>2, <1>4, <1>a, <1>b, <2>1, <3>2 DEF Stored
    <3> QED
      BY <1>b, <3>1, <3>3 DEF Arrives, MidAt, Before, Adding, Stored, Removing, Gone, Registering
  <2>2. CASE step[p] \in {"GETACCOUNTS", "DELACCOUNT", "DELACCOUNTLIST"}
    <3>1. step'[p] \in Removing
      BY <1>a, <1>b, <2>2 DEF Following, Removing
    <3>2. store'[user[p]].password \in {NoPassword, user_infos'[user[p]]}
      BY <1>2, <1>4, <1>a, <1>b, <2>2
    <3> QED
      BY <1>b, <3>1, <3>2 DEF Arrives, MidAt, Before, Adding, Stored, Removing, Gone
  <2>3. CASE step[p] \in {"DELUSER", "DELUSERSYNC"}
    <3>1. step'[p] \in Gone
      BY <1>b, <2>3 DEF Following, Gone
    <3>2. step[p] = "DELUSERSYNC" => store[user[p]].password = NoPassword
      BY <1>n, <1>b DEF Mid, MidAt, Gone
    <3>3. store'[user[p]].password = NoPassword
      BY <1>4, <1>b, <2>3, <3>2
    <3> QED
      BY <1>b, <3>1, <3>3 DEF Arrives, MidAt, Before, Adding, Stored, Removing, Gone
  <2> QED
    BY <1>a, <1>b, <2>1, <2>2, <2>3
<1>6. CASE Command(p)
  <2>1. /\ Apply(p, Applied(p)) /\ Goto(p, Following(p)) /\ doubtMap' = doubtMap
        /\ UNCHANGED <<op, user, password, clean>>
    BY <1>6 DEF Command, historyVars
  <2>2. OthersStay(p) /\ GoesOn(p) /\ step'[p] = Following(p)
    BY <1>0, <1>1, <2>1, MoveStays, MoveResult
  <2>3. Own => Arrives(p)
    BY <1>5, <1>b, <2>1, <2>2
  <2> QED
    BY <1>0, <1>2, <1>5, <1>n, <2>1, <2>2, <2>3, StepAgrees
<1>7. CASE Refused(p)
  <2>1. /\ Goto(p, Following(p)) /\ UNCHANGED <<store, op, user, password>>
        /\ clean' = [clean EXCEPT ![p] = @ /\ op[p] # "sync" /\ step[p] \notin UserCommands]
        /\ doubtMap' = doubtMap \cup {u \in {user[p]} : step[p] \in UserCommands}
    BY <1>7 DEF Refused
  <2>2. /\ step'[p] = Following(p) /\ \A q \in Procs \ {p} : step'[q] = step[q]
        /\ \A q \in Procs : clean'[q] => clean[q]
    BY <1>0, <2>1 DEF Goto, RequestTypes
  <2>3. OthersStay(p) /\ GoesOn(p) /\ Spares(p)
    BY <1>2, <2>1, <2>2 DEF OthersStay, GoesOn, Spares
  <2>4. ASSUME Own, user[p] \notin doubtMap' PROVE Arrives(p)
    <3>1. step[p] \notin UserCommands
      BY <2>1, <2>4
    <3>2. store'[user[p]].password = Applied(p).password
      BY <1>4, <2>1, <3>1 DEF UserCommands
    <3> QED
      BY <1>b, <2>1, <2>2, <2>4, <3>2
  <2>5. doubtMap \subseteq doubtMap'
    BY <2>1
  <2> QED
    BY <1>0, <1>2, <1>n, <2>3, <2>4, <2>5, StepAgrees
<1>8. CASE Breaks(p)
  <2>1. /\ Spares(p)
        /\ store'[user[p]] = Applied(p) \/ store'[user[p]] = store[user[p]]
    BY <1>5, <1>8 DEF Breaks
  <2>2. Own => /\ op[p] = "register" => store'[user[p]].password \in {NoPassword, password[p]}
               /\ op[p] = "delete" =>
                    store'[user[p]].password \in {NoPassword, user_infos[user[p]]}
    BY <1>4, <1>a, <2>1
  <2>3. CASE attempt[p] < Tries(p) /\ op[p] \in Registering
    <3>1. Goto(p, FirstCommand(p)) /\ UNCHANGED <<doubtMap, op, user, password, clean>>
      BY <1>8, <2>3 DEF Breaks, Registering
    <3>2. OthersStay(p) /\ GoesOn(p) /\ step'[p] = FirstCommand(p)
      BY <1>0, <1>1, <3>1, MoveStays, MoveResult
    <3>3. ASSUME Own PROVE Arrives(p)
      <4>1. \/ op[p] = "register" /\ step'[p] = "CREATEUSER"
            \/ op[p] = "delete" /\ step'[p] = "GETACCOUNTS"
        BY <2>3, <3>2 DEF FirstCommand, Registering
      <4> QED
        BY <1>2, <1>a, <2>2, <3>1, <3>3, <4>1
           DEF Arrives, MidAt, Before, Adding, Stored, Removing, Gone
    <3> QED
      BY <1>0, <1>2, <1>n, <2>1, <3>1, <3>2, <3>3, StepAgrees
  <2>4. CASE attempt[p] < Tries(p) /\ op[p] \notin Registering
    <3>1. /\ Goto(p, FirstCommand(p)) /\ UNCHANGED <<doubtMap, op, password, clean>>
          /\ user' = user \/ user' = [user EXCEPT ![p] = NoUser]
      BY <1>8, <2>4 DEF Breaks
    <3>2. \A q \in Procs \ {p} : step'[q] = step[q] /\ user'[q] = user[q]
      BY <1>0, <3>1 DEF Goto, RequestTypes
    <3>3. OthersStay(p) /\ GoesOn(p)
      BY <2>4, <3>1, <3>2 DEF OthersStay, GoesOn
    <3> QED
      BY <1>0, <1>2, <1>n, <2>1, <2>4, <3>1, <3>3, StepAgrees
  <2>5. CASE ~(attempt[p] < Tries(p))
    <3>1. /\ IF op[p] = "register" THEN Goes(p, "erase") ELSE Ends(p)
          /\ doubtMap' = doubtMap \cup {u \in {user[p]} : HalfDone(p, store'[u])}
      BY <1>8, <2>5 DEF Breaks, GivesUp
    <3>2. "erase" \in Steps
      BY DEF Steps, MapSteps
    <3>3. OthersStay(p) /\ GoesOn(p)
      BY <1>0, <3>1, <3>2, MoveStays DEF Goes
    <3>4. IF op[p] = "register" THEN step'[p] = "erase" /\ op' = op ELSE op'[p] = "none"
      BY <1>0, <3>1, <3>2, MoveResult DEF Goes
    <3>5. ASSUME Own, user[p] \notin doubtMap' PROVE Arrives(p)
      <4>1. ~HalfDone(p, store'[user[p]])
        BY <3>1, <3>5
      <4>2. CASE op[p] = "register"
        <5>1. store'[user[p]].password = NoPassword
          BY <4>1, <4>2 DEF HalfDone, Registering
        <5> QED
          BY <3>4, <4>2, <5>1 DEF Arrives, MidAt, Before, Adding, Stored, Removing, Gone,
                                  Registering
      <4>3. CASE op[p] = "delete"
        <5>1. store'[user[p]].password # NoPassword
          BY <4>1, <4>3 DEF HalfDone, Registering
        <5> QED
          BY <1>2, <2>2, <3>4, <3>5, <4>3, <5>1 DEF Arrives, Registering
      <4> QED
        BY <3>5, <4>2, <4>3 DEF Registering
    <3>6. doubtMap \subseteq doubtMap'
      BY <3>1
    <3> QED
      BY <1>0, <1>2, <1>n, <2>1, <3>3, <3>5, <3>6, StepAgrees
  <2> QED
    BY <2>3, <2>4, <2>5
<1>9. CASE Unsent(p)
  <2>1. /\ UNCHANGED <<store, doubtMap, op, user, password>>
        /\ step' = [step EXCEPT ![p] = IF step[p] = "TOUCH" THEN "synced" ELSE "TOUCH"]
        /\ clean' = [clean EXCEPT ![p] = FALSE]
        /\ step[p] \in {"ADDTOACCOUNTS", "TOUCH"}
    BY <1>9 DEF Unsent, Goto
  <2>2. /\ \A q \in Procs \ {p} : step'[q] = step[q]
        /\ ~clean'[p] /\ \A q \in Procs \ {p} : clean'[q] = clean[q]
    BY <1>0, <2>1 DEF RequestTypes
  <2>3. op[p] \notin Registering
    BY <1>0, <2>1 DEF Fits, RegisterSteps, DeleteSteps, Registering
  <2>4. OthersStay(p) /\ GoesOn(p) /\ Spares(p)
    BY <1>2, <2>1, <2>2, <2>3 DEF OthersStay, GoesOn, Spares
  <2> QED
    BY <1>0, <1>2, <1>n, <2>1, <2>3, <2>4, StepAgrees
<1>10. CASE Swallowed(p)
  <2>1. /\ Goto(p, Following(p)) /\ UNCHANGED <<store, doubtMap, op, user, password, clean>>
        /\ op[p] = "clean"
    BY <1>10 DEF Swallowed, Nested
  <2>2. OthersStay(p) /\ GoesOn(p) /\ Spares(p)
    BY <1>0, <1>1, <1>2, <2>1, MoveStays DEF Spares
  <2> QED
    BY <1>0, <1>2, <1>n, <2>1, <2>2, StepAgrees DEF Registering
<1> QED
  BY <1>6, <1>7, <1>8, <1>9, <1>10 DEF RedisStep

LEMMA SqlAgrees ==
  ASSUME AgreeInv, TypeInv', NEW t \in Threads, SqlStep(t)
  PROVE  AgreeInv'
<1>0. /\ t \in Procs /\ TypeInv /\ RequestTypes /\ StateTypes
      /\ Fits(op[t], step[t]) /\ step[t] \in Statements
      /\ user[t] \in Users /\ Results(t) \subseteq Rows /\ store[user[t]] \in Rows
      /\ op[t] \in {"register", "delete", "sync"} /\ Fits(op[t], Answered(t))
  <2>1. step[t] \in Statements
    BY DEF SqlStep, Execute, Rejected, Lost, Duplicate, Statements
  <2> QED
    BY <2>1, StatementFacts, TypeParts DEF AgreeInv, TypeInv, TypeOK, Fitting, InPlace, Procs
<1>1. UNCHANGED <<loaded, user_infos, torn>>
  BY DEF SqlStep, Execute, Rejected, Lost
<1>2. step[t] \in {"INSERT", "DELETE"} => op[t] \in Registering
  BY <1>0 DEF Fits, SyncSteps, Registering
<1>3. \A row \in Results(t) :
         row.password = CASE step[t] = "INSERT" -> password[t]
                          [] step[t] = "DELETE" -> NoPassword
                          [] OTHER -> store[user[t]].password
  BY <1>0, ResultPassword
<1>4. ASSUME NEW row \in Results(t), Apply(t, row)
      PROVE  Spares(t) /\ store'[user[t]] = row
  BY <1>0, <1>1, <1>2, <1>3, <1>4, RowSpares
<1> DEFINE Own == ~torn /\ op[t] \in Registering /\ user[t] \notin doubtMap
<1>n. loaded /\ (Own => Mid(t))
  BY <1>0, MidNow
<1>a. Own => \/ /\ op[t] = "register" /\ step[t] = "INSERT"
                /\ user_infos[user[t]] = password[t]
                /\ store[user[t]].password \in {NoPassword, password[t]}
             \/ /\ op[t] = "delete" /\ step[t] = "DELETE"
                /\ store[user[t]].password \in {NoPassword, user_infos[user[t]]}
  BY <1>0, <1>n DEF Mid, MidAt, Adding, Removing, Fits, RegisterSteps, DeleteSteps, Statements,
                    Registering
<1>5. CASE Execute(t)
  <2>1. PICK row \in Results(t) : Apply(t, row)
    BY <1>5 DEF Execute
  <2>2. Goto(t, Answered(t)) /\ UNCHANGED <<doubtMap, op, user, password, clean>>
    BY <1>5 DEF Execute, historyVars
  <2>3. Answered(t) \in Steps
    BY <1>0, FitsStep
  <2>4. /\ OthersStay(t) /\ GoesOn(t) /\ Spares(t)
        /\ step'[t] = Answered(t) /\ store'[user[t]] = row
    BY <1>0, <1>4, <2>1, <2>2, <2>3, MoveStays, MoveResult
  <2>5. ASSUME Own PROVE Arrives(t)
    <3>1. CASE step[t] = "INSERT"
      BY <1>1, <1>3, <1>a, <2>2, <2>4, <2>5, <3>1
         DEF Answered, Arrives, MidAt, Before, Adding, Stored, Removing, Gone
    <3>2. CASE step[t] = "DELETE"
      BY <1>1, <1>3, <1>a, <2>2, <2>4, <2>5, <3>2
         DEF Answered, Arrives, MidAt, Before, Adding, Stored, Removing, Gone
    <3> QED
      BY <1>a, <2>5, <3>1, <3>2
  <2> QED
    BY <1>0, <1>1, <1>n, <2>2, <2>4, <2>5, StepAgrees
<1>6. ASSUME SqlFails(t), Spares(t),
             store'[user[t]] = store[user[t]] \/ store'[user[t]] \in Results(t)
      PROVE  AgreeInv'
  <2>1. CASE ~(attempt[t] < PgAttempts)
    <3>1. /\ Ends(t)
          /\ doubtMap' = doubtMap \cup {u \in {user[t]} : /\ op[t] \in Registering
                                                          /\ store'[u].password = NoPassword}
      BY <1>6, <2>1 DEF SqlFails
    <3>2. OthersStay(t) /\ GoesOn(t)
      BY <1>0, <3>1, MoveStays
    <3>3. op'[t] = "none"
      BY <1>0, <3>1, MoveResult
    <3>4. ASSUME Own, user[t] \notin doubtMap' PROVE Arrives(t)
      <4>1. store'[user[t]].password # NoPassword
        BY <3>1, <3>4
      <4>2. CASE step[t] = "INSERT"
        BY <1>1, <1>3, <1>6, <1>a, <3>3, <3>4, <4>1, <4>2 DEF Arrives, Registering
      <4>3. CASE step[t] = "DELETE"
        BY <1>1, <1>3, <1>6, <1>a, <3>3, <3>4, <4>1, <4>3 DEF Arrives, Registering
      <4> QED
        BY <1>a, <3>4, <4>2, <4>3
    <3>5. doubtMap \subseteq doubtMap'
      BY <3>1
    <3> QED
      BY <1>0, <1>1, <1>6, <1>n, <3>2, <3>4, <3>5, StepAgrees
  <2>2. CASE attempt[t] < PgAttempts
    <3>1. UNCHANGED <<step, op, user, password, clean, doubtMap>>
      BY <1>6, <2>2 DEF SqlFails
    <3>2. OthersStay(t) /\ GoesOn(t)
      BY <3>1 DEF OthersStay, GoesOn
    <3>3. ASSUME Own PROVE Arrives(t)
      <4>1. CASE step[t] = "INSERT"
        BY <1>1, <1>3, <1>6, <1>a, <3>1, <3>3, <4>1
           DEF Arrives, MidAt, Before, Adding, Stored, Removing, Gone
      <4>2. CASE step[t] = "DELETE"
        BY <1>1, <1>3, <1>6, <1>a, <3>1, <3>3, <4>2
           DEF Arrives, MidAt, Before, Adding, Stored, Removing, Gone
      <4> QED
        BY <1>a, <3>3, <4>1, <4>2
    <3> QED
      BY <1>0, <1>1, <1>6, <1>n, <3>1, <3>2, <3>3, StepAgrees
  <2> QED
    BY <2>1, <2>2
<1>7. CASE Rejected(t)
  <2>1. SqlFails(t) /\ store' = store
    BY <1>7 DEF Rejected
  <2> QED
    BY <1>1, <1>6, <2>1 DEF Spares
<1>8. CASE Lost(t)
  <2>1. SqlFails(t) /\ (store' = store \/ \E row \in Results(t) : Apply(t, row))
    BY <1>8 DEF Lost
  <2>2. /\ Spares(t)
        /\ store'[user[t]] = store[user[t]] \/ store'[user[t]] \in Results(t)
    BY <1>1, <1>4, <2>1 DEF Spares
  <2> QED
    BY <1>6, <2>1, <2>2
<1> QED
  BY <1>5, <1>7, <1>8 DEF SqlStep

\* Nobody registers or deletes more than before, and map and store stay.
LEMMA Unmoved ==
  ASSUME AgreeInv, TypeInv', loaded' = loaded, torn' = torn, doubtMap' = doubtMap,
         UNCHANGED <<user_infos, password>>,
         \A u \in Users : store'[u].password = store[u].password,
         \A q \in Procs : \/ step'[q] = step[q] /\ op'[q] = op[q] /\ user'[q] = user[q]
                          \/ loaded /\ {op[q], op'[q]} \cap Registering = {}
  PROVE  AgreeInv'
<1>1. \A q \in Procs : /\ op'[q] \in Registering <=> op[q] \in Registering
                       /\ op[q] \in Registering => /\ step'[q] = step[q] /\ op'[q] = op[q]
                                                   /\ user'[q] = user[q]
                       /\ ~loaded => op'[q] = op[q]
  OBVIOUS
<1>2. ASSUME NEW u \in Users, Settled(u) PROVE Settled(u)'
  <2>1. \A p, q \in Procs : Same(p, q)' /\ user'[p] = u => p = q
    BY <1>1, <1>2 DEF Settled, Same
  <2>2. ASSUME NEW p \in Procs, op'[p] \in Registering, user'[p] = u PROVE Mid(p)'
    <3>1. op[p] \in Registering /\ user[p] = u /\ step'[p] = step[p]
      BY <1>1, <2>2
    <3>2. Mid(p)
      BY <1>2, <3>1 DEF Settled
    <3> QED
      BY <2>2, <3>1, <3>2 DEF Mid
  <2>3. (\A p \in Procs : op'[p] \in Registering => user'[p] # u) =>
            user_infos'[u] = store'[u].password
    BY <1>1, <1>2 DEF Settled
  <2> QED
    BY <2>1, <2>2, <2>3 DEF Settled
<1> QED
  BY <1>1, <1>2 DEF AgreeInv

LEMMA RequestAgrees ==
  ASSUME AgreeInv, TypeInv', NEW t \in Threads, NEW o \in Registering \cup {"sync"},
         NEW u \in Users, NEW w \in Passwords, Request(t, o, u, w)
  PROVE  AgreeInv'
<1>0. /\ t \in Procs /\ RequestTypes /\ loaded /\ UNCHANGED <<loaded, user_infos, torn, store>>
      /\ Fits(op[t], step[t]) /\ step[t] = "idle"
  BY TypeParts DEF Procs, AgreeInv, TypeInv, Fitting, InPlace, Request
<1>1. op[t] \notin Registering
  BY <1>0 DEF Fits, RegisterSteps, DeleteSteps, Registering
<1>2. /\ step'[t] \in {"check", "count"} /\ op'[t] = o /\ user'[t] = u
      /\ \A q \in Procs \ {t} : /\ step'[q] = step[q] /\ op'[q] = op[q] /\ user'[q] = user[q]
                                /\ password'[q] = password[q]
  BY <1>0 DEF Request, Goto, RequestTypes
<1>3. doubtMap' = IF o \in Registering /\ \E q \in {r \in Procs \ {t} : On(r, u)} :
                                             op[q] \in Registering
                  THEN doubtMap \cup {u} ELSE doubtMap
  BY DEF Request, Overlap
<1> SUFFICES ASSUME ~torn', NEW v \in Users \ doubtMap' PROVE Settled(v)'
  BY <1>0 DEF AgreeInv
<1>4. Settled(v)
  BY <1>0, <1>3 DEF AgreeInv
<1>5. o \in Registering /\ u = v => \A q \in Procs : ~(op[q] \in Registering /\ user[q] = v)
  BY <1>1, <1>3 DEF On
<1>6. ASSUME NEW p \in Procs, NEW q \in Procs, Same(p, q)', user'[p] = v
      PROVE  p = q
  <2>1. CASE p = t \/ q = t
    <3>1. o \in Registering /\ u = v
      BY <1>2, <1>6, <2>1 DEF Same
    <3> QED
      BY <1>2, <1>5, <1>6, <3>1 DEF Same
  <2>2. CASE p # t /\ q # t
    BY <1>2, <1>4, <1>6, <2>2 DEF Same, Settled
  <2> QED
    BY <2>1, <2>2
<1>7. ASSUME NEW p \in Procs, op'[p] \in Registering, user'[p] = v
      PROVE  Mid(p)'
  <2>1. CASE p = t
    <3>1. user_infos[v] = store[v].password
      BY <1>2, <1>4, <1>5, <1>7, <2>1 DEF Settled
    <3> QED
      BY <1>0, <1>2, <1>7, <2>1, <3>1 DEF Mid, MidAt, Before, Adding, Stored, Removing, Gone
  <2>2. CASE p # t
    <3>1. Mid(p)
      BY <1>2, <1>4, <1>7, <2>2 DEF Settled
    <3> QED
      BY <1>0, <1>2, <2>2, <3>1 DEF Mid
  <2> QED
    BY <2>1, <2>2
<1>8. ASSUME \A p \in Procs : op'[p] \in Registering => user'[p] # v
      PROVE  user_infos'[v] = store'[v].password
  BY <1>0, <1>1, <1>2, <1>4, <1>8 DEF Settled
<1> QED
  BY <1>6, <1>7, <1>8 DEF Settled

LEMMA DiesAgrees == TypeInv' /\ Dies => AgreeInv'
<1> SUFFICES ASSUME TypeInv', Dies PROVE AgreeInv'
  OBVIOUS
<1>1. ~loaded' /\ \A p \in Procs : op'[p] = "none"
  BY DEF Dies
<1> QED
  BY <1>1 DEF AgreeInv

\* What is loaded agrees with what it is loaded from.
LEMMA LoadAgrees == AgreeInv /\ TypeInv' /\ Load => AgreeInv'
<1> SUFFICES ASSUME AgreeInv, TypeInv', Load PROVE AgreeInv'
  OBVIOUS
<1>1. /\ \A p \in Procs : op'[p] = "none"
      /\ loaded' /\ store' = store
      /\ user_infos' = [u \in Users |-> store[u].password] \/ doubtMap' = Users
  BY DEF Load, AgreeInv, requestVars
<1>2. ASSUME NEW u \in Users \ doubtMap' PROVE Settled(u)'
  BY <1>1, <1>2 DEF Settled, Same, Registering
<1> QED
  BY <1>1, <1>2 DEF AgreeInv

LEMMA DataCleanerAgrees == AgreeInv /\ TypeInv' /\ DataCleaner => AgreeInv'
<1> SUFFICES ASSUME AgreeInv, TypeInv', DataCleaner PROVE AgreeInv'
  OBVIOUS
<1>0. /\ Cleaner \in Procs /\ TypeInv /\ RequestTypes /\ StateTypes
      /\ op[Cleaner] \in {"none", "clean"} /\ Fits(op[Cleaner], step[Cleaner])
  BY TypeParts DEF Procs, AgreeInv, TypeInv, Fitting, InPlace
<1>n. step[Cleaner] # "idle" => loaded
  BY <1>0 DEF AgreeInv, Fits
<1>1. CASE CleanerStarts
  <2>1. /\ step' = [step EXCEPT ![Cleaner] = "read"] /\ op' = [op EXCEPT ![Cleaner] = "clean"]
        /\ loaded /\ UNCHANGED <<loaded, torn, store, user_infos, user, password, doubtMap>>
    BY <1>1 DEF CleanerStarts, Goto
  <2>2. /\ op'[Cleaner] = "clean"
        /\ \A q \in Procs \ {Cleaner} : step'[q] = step[q] /\ op'[q] = op[q]
    BY <1>0, <2>1 DEF RequestTypes
  <2> QED
    BY <1>0, <2>1, <2>2, Unmoved DEF Registering
<1>2. ASSUME ReadsNext \/ CleanerEnds PROVE AgreeInv'
  <2>1. /\ step[Cleaner] # "idle"
        /\ UNCHANGED <<loaded, torn, store, user_infos, doubtMap>>
    BY <1>2 DEF ReadsNext, CleanerEnds, historyVars
  <2>2. Ends(Cleaner) \/ Goes(Cleaner, "next")
    BY <1>2 DEF ReadsNext, CleanerEnds
  <2>3. "next" \in Steps
    BY DEF Steps
  <2>4. OthersStay(Cleaner) /\ GoesOn(Cleaner)
    BY <1>0, <2>2, <2>3, MoveStays DEF Goes
  <2>5. Spares(Cleaner)
    BY <2>1 DEF Spares
  <2> QED
    BY <1>0, <1>n, <2>1, <2>4, <2>5, StepAgrees DEF Registering
<1>3. CASE DeleteOld
  <2>1. \A u \in Users : store'[u].password = store[u].password
    BY <1>0, <1>3 DEF DeleteOld, StateTypes, Rows
  <2> QED
    BY <1>3, <2>1, Unmoved DEF DeleteOld, requestVars, historyVars
<1>4. ASSUME NEW u \in Users, ReadsLastSync(u) PROVE AgreeInv'
  <2>1. CASE Dies
    BY <2>1, DiesAgrees
  <2>2. CASE ~Dies
    BY <1>4, <2>2, Unmoved DEF ReadsLastSync, requestVars, historyVars
  <2> QED
    BY <2>1, <2>2
<1>5. ASSUME NEW u \in Users, CleansUser(u) PROVE AgreeInv'
  <2>1. /\ step' = [step EXCEPT ![Cleaner] = "GETACCOUNTS"]
        /\ user' = [user EXCEPT ![Cleaner] = u] /\ step[Cleaner] # "idle"
        /\ UNCHANGED <<loaded, torn, store, user_infos, doubtMap, op, password>>
    BY <1>5 DEF CleansUser, Goto, historyVars
  <2>2. \A q \in Procs \ {Cleaner} : step'[q] = step[q] /\ user'[q] = user[q]
    BY <1>0, <2>1 DEF RequestTypes
  <2> QED
    BY <1>0, <1>n, <2>1, <2>2, Unmoved DEF Registering
<1>6. CASE Unconnected
  <2>1. /\ step[Cleaner] # "idle" /\ UNCHANGED <<loaded, torn, store, user_infos, doubtMap>>
        /\ UNCHANGED <<step, op, user, password, clean>> \/ Ends(Cleaner)
    BY <1>6 DEF Unconnected, historyVars
  <2>2. CASE UNCHANGED <<step, op, user, password, clean>>
    BY <2>1, <2>2, Unmoved
  <2>3. CASE Ends(Cleaner)
    <3>1. OthersStay(Cleaner) /\ GoesOn(Cleaner) /\ Spares(Cleaner)
      BY <1>0, <2>1, <2>3, MoveStays DEF Spares
    <3> QED
      BY <1>0, <1>n, <2>1, <3>1, StepAgrees DEF Registering
  <2> QED
    BY <2>1, <2>2, <2>3
<1> QED
  BY <1>1, <1>2, <1>3, <1>4, <1>5, <1>6 DEF DataCleaner

LEMMA NextAgrees == AgreeInv /\ [Next]_vars => AgreeInv'
<1> SUFFICES ASSUME AgreeInv, [Next]_vars PROVE AgreeInv'
  OBVIOUS
<1>0. TypeInv'
  BY NextType DEF AgreeInv
<1>s. StateTypes
  BY TypeParts DEF AgreeInv
<1>1. ASSUME NEW t \in Threads, NEW o \in Registering \cup {"sync"}, NEW u \in Users,
             NEW w \in Passwords, Request(t, o, u, w)
      PROVE  AgreeInv'
  BY <1>0, <1>1, RequestAgrees
<1>2. ASSUME NEW t \in Threads, Handlers(t) PROVE AgreeInv'
  BY <1>0, <1>2, HandlerAgrees
<1>3. ASSUME NEW t \in Threads, SqlStep(t) PROVE AgreeInv'
  BY <1>0, <1>3, SqlAgrees
<1>4. ASSUME NEW p \in Procs, RedisStep(p) PROVE AgreeInv'
  BY <1>0, <1>4, RedisAgrees
<1>5. CASE DataCleaner
  BY <1>0, <1>5, DataCleanerAgrees
<1>6. CASE Load
  BY <1>0, <1>6, LoadAgrees
<1>7. CASE Crash
  BY <1>0, <1>7, DiesAgrees DEF Crash
<1>8. CASE Age
  <2>1. \A u \in Users : store'[u].password = store[u].password
    BY <1>s, <1>8 DEF Age, StateTypes, Rows
  <2> QED
    BY <1>0, <1>8, <2>1, Unmoved DEF Age, requestVars
<1>9. CASE UNCHANGED vars
  BY <1>0, <1>9, Unmoved DEF vars, requestVars, historyVars
<1> QED
  BY <1>1, <1>2, <1>3, <1>4, <1>5, <1>6, <1>7, <1>8, <1>9 DEF Next

\* Map and store agree on every user of whom no request is under way, except those
\* doubtMap names: two registrations or deletions of them overlapped, one gave up
\* half done, one had its CREATEUSER or DELUSER answered by an error, or the start
\* could not read the store.
THEOREM MapAgrees == Spec => []Agree
<1>1. Init => AgreeInv
  <2> SUFFICES ASSUME Init PROVE AgreeInv
    OBVIOUS
  <2>1. ~loaded /\ \A p \in Procs : op[p] = "none"
    BY DEF Init
  <2> QED
    BY <2>1, InitType DEF AgreeInv
<1>2. AgreeInv => Agree
  <2> SUFFICES ASSUME AgreeInv, loaded, ~torn, NEW u \in Users \ doubtMap, ~Busy(u)
               PROVE  user_infos[u] = store[u].password
    BY DEF Agree
  <2>1. Settled(u)
    BY DEF AgreeInv
  <2>2. ASSUME NEW p \in Procs, op[p] \in Registering PROVE user[p] # u
    <3>1. p # Cleaner
      BY <2>2 DEF AgreeInv, TypeInv, Fitting, InPlace, Registering
    <3> QED
      BY <3>1 DEF Busy, Procs
  <2> QED
    BY <2>1, <2>2 DEF Settled
<1> QED
  BY <1>1, <1>2, NextAgrees, PTL DEF Spec

-----------------------------------------------------------------------------
(* The rows of a user in Redis: all there or all gone, and spared by the cleaner. *)

Tidy(p) ==
    /\ Redis => step[p] \notin Statements
    /\ op[p] = "none" => user[p] = NoUser
    /\ op[p] \in Registering \cup {"sync"} => password[p] \in Passwords

TidyInv == TypeInv /\ \A p \in Procs : Tidy(p)

LEMMA SameType == [Next]_vars => store_type' = store_type
<1> SUFFICES ASSUME [Next]_vars PROVE store_type' = store_type
  OBVIOUS
<1>1. ASSUME NEW t \in Threads, NEW o \in Registering \cup {"sync"}, NEW u \in Users,
             NEW w \in Passwords, Request(t, o, u, w)
      PROVE  store_type' = store_type
  BY <1>1 DEF Request
<1>2. ASSUME NEW t \in Threads, Handlers(t) PROVE store_type' = store_type
  BY <1>2 DEF Handlers, Check, Insert, Registered, Erase, Count, Compare, Lookup, Forget, Synced
<1>3. ASSUME NEW t \in Threads, SqlStep(t) PROVE store_type' = store_type
  BY <1>3 DEF SqlStep, Execute, Rejected, Lost
<1>4. ASSUME NEW p \in Procs, RedisStep(p) PROVE store_type' = store_type
  BY <1>4 DEF RedisStep, Command, Refused, Breaks, Unsent, Swallowed
<1>5. CASE DataCleaner
  BY <1>5 DEF DataCleaner, CleanerStarts, ReadsNext, Unconnected, CleanerEnds, DeleteOld,
              ReadsLastSync, CleansUser, Dies
<1>6. CASE Load \/ Crash \/ Age \/ UNCHANGED vars
  BY <1>6 DEF Load, Crash, Dies, Age, vars
<1> QED
  BY <1>1, <1>2, <1>3, <1>4, <1>5, <1>6 DEF Next

\* p's request goes on or ends.
LEMMA TidyMove ==
  ASSUME TidyInv, NEW p \in Procs, store_type' = store_type, op[p] # "none",
         \/ Ends(p)
         \/ /\ \E s \in Steps : Goto(p, s) /\ (Redis => s \notin Statements)
            /\ UNCHANGED <<op, user, password>>
  PROVE  \A q \in Procs : Tidy(q)'
<1>0. RequestTypes
  BY TypeParts DEF TidyInv
<1>1. CASE Ends(p)
  <2>1. /\ step'[p] = "idle" /\ op'[p] = "none" /\ user'[p] = NoUser
        /\ \A q \in Procs \ {p} : /\ step'[q] = step[q] /\ op'[q] = op[q] /\ user'[q] = user[q]
                                  /\ password'[q] = password[q]
    BY <1>0, <1>1 DEF Ends, Goto, RequestTypes
  <2> QED
    BY <2>1 DEF TidyInv, Tidy, Redis, Registering, Statements
<1>2. ASSUME NEW s \in Steps, Goto(p, s), Redis => s \notin Statements,
             UNCHANGED <<op, user, password>>
      PROVE  \A q \in Procs : Tidy(q)'
  <2>1. \A q \in Procs : step'[q] = IF q = p THEN s ELSE step[q]
    BY <1>0, <1>2 DEF Goto, RequestTypes
  <2> QED
    BY <1>2, <2>1 DEF TidyInv, Tidy, Redis
<1> QED
  BY <1>1, <1>2

LEMMA NextTidy == TidyInv /\ [Next]_vars => TidyInv'
<1> SUFFICES ASSUME TidyInv, [Next]_vars PROVE TidyInv'
  OBVIOUS
<1>0. /\ TypeInv /\ TypeInv' /\ RequestTypes /\ store_type' = store_type
      /\ \A p \in Procs : Tidy(p) /\ Fits(op[p], step[p])
  BY NextType, SameType, TypeParts DEF TidyInv, TypeInv, Fitting, InPlace
<1> SUFFICES \A p \in Procs : Tidy(p)'
  BY <1>0 DEF TidyInv
<1>1. ASSUME NEW t \in Threads, NEW o \in Registering \cup {"sync"}, NEW u \in Users,
             NEW w \in Passwords, Request(t, o, u, w)
      PROVE  \A p \in Procs : Tidy(p)'
  <2>1. /\ t \in Procs
        /\ step'[t] \in {"check", "count"} /\ op'[t] = o /\ password'[t] = w
        /\ \A q \in Procs \ {t} : /\ step'[q] = step[q] /\ op'[q] = op[q] /\ user'[q] = user[q]
                                  /\ password'[q] = password[q]
    BY <1>0, <1>1 DEF Request, Goto, RequestTypes, Procs
  <2> QED
    BY <1>0, <2>1 DEF Tidy, Redis, Statements, Registering
<1>2. ASSUME NEW t \in Threads, Handlers(t) PROVE \A p \in Procs : Tidy(p)'
  <2>1. Ends(t) \/ \E s \in Steps : Goes(t, s) /\ (Redis => s \notin Statements)
    BY <1>2 DEF Handlers, Check, Insert, Registered, Erase, Count, Compare, Lookup, Forget,
                Synced, Steps, MapSteps, Commands, Statements
  <2> QED
    BY <1>0, <1>2, <2>1, HandlerMoves, TidyMove DEF Goes, Procs
<1>3. ASSUME NEW t \in Threads, SqlStep(t) PROVE \A p \in Procs : Tidy(p)'
  <2>1. /\ t \in Procs /\ step[t] \in Statements
    BY <1>3 DEF SqlStep, Execute, Rejected, Lost, Duplicate, Statements, Procs
  <2>2. Answered(t) \in Steps
    BY DEF Answered, Steps, MapSteps, Statements
  <2>3. op[t] # "none" /\ "UPDATE" \in Steps /\ step[t] \in Steps
    BY <1>0, <2>1 DEF Steps, Statements, Fits, RequestTypes
  <2>4. \/ Ends(t)
        \/ /\ \E s \in Steps : step' = [step EXCEPT ![t] = s]
           /\ UNCHANGED <<op, user, password>>
    <3>1. CASE Execute(t)
      BY <2>2, <2>3, <3>1 DEF Execute, Goto
    <3>2. CASE Rejected(t) \/ Lost(t)
      <4>1. Ends(t) \/ UNCHANGED <<step, op, user, password>>
        BY <3>2 DEF Rejected, Lost, SqlFails
      <4>2. step = [step EXCEPT ![t] = step[t]]
        BY <1>0 DEF RequestTypes
      <4> QED
        BY <2>3, <4>1, <4>2
    <3> QED
      BY <1>3, <3>1, <3>2 DEF SqlStep
  <2>5. ~Redis
    BY <1>0, <2>1 DEF Tidy
  <2> QED
    BY <1>0, <2>1, <2>3, <2>4, <2>5, TidyMove DEF Goto
<1>4. ASSUME NEW p \in Procs, RedisStep(p) PROVE \A q \in Procs : Tidy(q)'
  <2>1. step[p] \in Commands
    BY <1>4 DEF RedisStep, Command, Refused, Breaks, Unsent, Swallowed, Nested, Commands
  <2>2. /\ op[p] \in {"register", "delete", "sync", "clean"}
        /\ Following(p) \in Steps \ Statements /\ FirstCommand(p) \in Steps \ Statements
        /\ {"erase", "synced", "TOUCH"} \subseteq Steps \ Statements
    <3>1. Following(p) \notin Statements /\ FirstCommand(p) \notin Statements
      BY DEF Following, FirstCommand, Statements
    <3>2. {"erase", "synced", "TOUCH"} \subseteq Steps \ Statements
      BY DEF Steps, MapSteps, Commands, Statements
    <3> QED
      BY <1>0, <2>1, <3>1, <3>2, CommandFacts, FitsStep
  <2>3. CASE /\ \E s \in Steps \ Statements : Goto(p, s)
             /\ UNCHANGED <<op, user, password>>
    BY <1>0, <2>2, <2>3, TidyMove
  <2>4. CASE Command(p) \/ Refused(p) \/ Unsent(p) \/ Swallowed(p)
    BY <2>2, <2>3, <2>4 DEF Command, Refused, Unsent, Swallowed
  <2>5. CASE Breaks(p)
    <3>1. CASE ~(attempt[p] < Tries(p))
      <4>1. Ends(p) \/ Goes(p, "erase")
        BY <2>5, <3>1 DEF Breaks, GivesUp
      <4> QED
        BY <1>0, <2>2, <2>3, <4>1, TidyMove DEF Goes
    <3>2. CASE attempt[p] < Tries(p) /\ op[p] # "clean"
      <4>1. Goto(p, FirstCommand(p)) /\ UNCHANGED <<op, user, password>>
        BY <2>5, <3>2 DEF Breaks
      <4> QED
        BY <2>2, <2>3, <4>1
    <3>3. CASE attempt[p] < Tries(p) /\ op[p] = "clean"
      <4>1. /\ step' = [step EXCEPT ![p] = FirstCommand(p)]
            /\ user' = [user EXCEPT ![p] = NoUser] /\ UNCHANGED <<op, password>>
        BY <2>5, <3>3 DEF Breaks, Goto
      <4>2. /\ step'[p] = FirstCommand(p)
            /\ \A q \in Procs \ {p} : step'[q] = step[q] /\ user'[q] = user[q]
        BY <1>0, <4>1 DEF RequestTypes
      <4> QED
        BY <1>0, <2>2, <3>3, <4>1, <4>2 DEF Tidy, Redis, Registering
    <3> QED
      BY <3>1, <3>2, <3>3
  <2> QED
    BY <1>4, <2>4, <2>5 DEF RedisStep
<1>5. CASE Dies
  <2>1. \A q \in Procs : step'[q] = "idle" /\ op'[q] = "none" /\ user'[q] = NoUser
    BY <1>5 DEF Dies
  <2> QED
    BY <2>1 DEF Tidy, Statements, Registering
<1>6. CASE UNCHANGED requestVars
  BY <1>0, <1>6 DEF Tidy, Redis, requestVars
<1>7. CASE DataCleaner
  <2>1. Cleaner \in Procs
    BY DEF Procs
  <2>2. CASE CleanerStarts
    <3>1. /\ step' = [step EXCEPT ![Cleaner] = "read"] /\ op' = [op EXCEPT ![Cleaner] = "clean"]
          /\ UNCHANGED <<user, password>>
      BY <2>2 DEF CleanerStarts, Goto
    <3>2. /\ step'[Cleaner] = "read" /\ op'[Cleaner] = "clean"
          /\ \A q \in Procs \ {Cleaner} : step'[q] = step[q] /\ op'[q] = op[q]
      BY <1>0, <2>1, <3>1 DEF RequestTypes
    <3> QED
      BY <1>0, <3>1, <3>2 DEF Tidy, Redis, Statements, Registering
  <2>3. ASSUME ReadsNext \/ CleanerEnds PROVE \A p \in Procs : Tidy(p)'
    <3>1. Ends(Cleaner) \/ Goes(Cleaner, "next")
      BY <2>3 DEF ReadsNext, CleanerEnds
    <3>2. op[Cleaner] # "none" /\ "next" \in Steps \ Statements
      BY <1>0, <2>1, <2>3 DEF ReadsNext, CleanerEnds, Fits, Steps, Statements
    <3> QED
      BY <1>0, <2>1, <3>1, <3>2, TidyMove DEF Goes
  <2>4. ASSUME NEW u \in Users, CleansUser(u) PROVE \A p \in Procs : Tidy(p)'
    <3>1. /\ step' = [step EXCEPT ![Cleaner] = "GETACCOUNTS"]
          /\ user' = [user EXCEPT ![Cleaner] = u] /\ UNCHANGED <<op, password>>
          /\ step[Cleaner] = "next"
      BY <2>4 DEF CleansUser, Goto
    <3>2. /\ op[Cleaner] # "none" /\ step'[Cleaner] = "GETACCOUNTS"
          /\ \A q \in Procs \ {Cleaner} : step'[q] = step[q] /\ user'[q] = user[q]
      BY <1>0, <2>1, <3>1 DEF Fits, RequestTypes
    <3> QED
      BY <1>0, <2>1, <3>1, <3>2 DEF Tidy, Redis, Statements
  <2>5. CASE Unconnected
    <3>1. CASE UNCHANGED <<step, op, user, password>>
      BY <1>0, <3>1 DEF Tidy, Redis
    <3>2. CASE Ends(Cleaner)
      <4>1. op[Cleaner] # "none"
        BY <1>0, <2>1, <2>5 DEF Unconnected, Fits
      <4> QED
        BY <1>0, <2>1, <3>2, <4>1, TidyMove
    <3> QED
      BY <2>5, <3>1, <3>2 DEF Unconnected
  <2> QED
    BY <1>5, <1>6, <1>7, <2>2, <2>3, <2>4, <2>5 DEF DataCleaner, DeleteOld, ReadsLastSync
<1> QED
  BY <1>1, <1>2, <1>3, <1>4, <1>5, <1>6, <1>7 DEF Next, Load, Crash, Age, vars

LEMMA InitTidy == Init => TidyInv
<1> SUFFICES ASSUME Init PROVE TidyInv
  OBVIOUS
<1>1. \A p \in Procs : step[p] = "idle" /\ op[p] = "none" /\ user[p] = NoUser
  BY DEF Init
<1> QED
  BY <1>1, InitType DEF TidyInv, Tidy, Statements, Registering

-----------------------------------------------------------------------------
(* What the store has of a user. *)

\* Nothing, or all; but a name may be listed whose account is not there.
Kept(row) ==
    \/ row = NoRow
    \/ /\ row.password # NoPassword /\ row.last_sync # "none"
       /\ row.account # "none" => row.listed

Half(row) == row.listed /\ row.account = "none"

\* Where a sync has listed an account not stored yet, or the cleaner deleted one
\* that is still listed.
Halving == {"ADDTOACCOUNTS", "SETACCOUNT", "DELACCOUNTLIST"}

\* A registration or deletion that has begun to change the row, or is about to.
Changing(o, at) ==
    \/ o = "register" /\ at # "check"
    \/ o = "delete" /\ at \notin Before

\* The row of a user when a registration that changes it is at a step, ...
RegisterRow(at, row) ==
    /\ at # "erase" /\ ~row.listed /\ row.account = "none"
    /\ at = "insert" => row = NoRow
    /\ at \in Stored => row.password # NoPassword
    /\ at \in {"CLEARLIST", "registered"} => row.last_sync # "none"

\* ... or a deletion, or the cleaner, which has seen an account or not, ...
DeleteRow(at, sees, row) ==
    /\ row.account # "none" => row.listed
    /\ at = "DELACCOUNT" /\ row.account # "none" => sees
    /\ at \in {"DELACCOUNTLIST", "DELUSER"} \cup Gone => row.account = "none"
    /\ at \in {"DELUSER"} \cup Gone => ~row.listed
    /\ at \in Gone => row.password = NoPassword
    /\ at = "forget" => row.last_sync = "none"

\* ... or a sync.
SyncRow(at, row) ==
    /\ at \in {"ADDTOACCOUNTS", "SETACCOUNT", "TOUCH", "synced"} => row.password # NoPassword
    /\ at \in {"SETACCOUNT", "TOUCH", "synced"} => row.listed
    /\ at \in {"TOUCH", "synced"} => row.account # "none"

RowAt(o, at, sees, row) ==
    /\ o = "register" /\ at # "check" => RegisterRow(at, row)
    /\ (o = "delete" /\ at \notin Before) \/ o = "clean" => DeleteRow(at, sees, row)
    /\ o = "sync" => SyncRow(at, row)

\* Only syncs share a user; the row is where each request has brought it; and if
\* none changes who is registered, it is all there or all gone, but for the account
\* of a request at work.
Orderly(u) ==
    /\ \A p, q \in Procs : p # q /\ On(p, u) /\ On(q, u) => op[p] = "sync" /\ op[q] = "sync"
    /\ \A p \in Procs : user[p] = u => RowAt(op[p], step[p], seen[p], store[u])
    /\ (\A p \in Procs : user[p] = u => ~Changing(op[p], step[p])) =>
          /\ Kept(store[u])
          /\ Half(store[u]) => \E p \in Procs : user[p] = u /\ step[p] \in Halving

WholeInv ==
    /\ AgreeInv /\ TidyInv
    /\ Redis => /\ doubtMap \subseteq doubtStore
                /\ \A u \in Users \ doubtStore : Orderly(u)

-----------------------------------------------------------------------------
(* Steps that keep every row where the requests have brought it. *)

\* The others stay where they are.
Elsewhere(p) ==
    \A q \in Procs \ {p} : /\ step'[q] = step[q] /\ op'[q] = op[q] /\ user'[q] = user[q]
                           /\ seen'[q] = seen[q]

\* p is still on its user, or on none.
Leaving(p) ==
    /\ user'[p] \in {user[p], NoUser} /\ op'[p] \in {op[p], "none"}
    /\ op'[p] = "none" => user'[p] = NoUser

\* What a sync has stored stays.
Grows(row, after) ==
    /\ row.password # NoPassword => after.password # NoPassword
    /\ row.listed => after.listed
    /\ row.account # "none" => after.account # "none"

\* What p's step must leave of the row of its user.
Leaves(p, row, after) ==
    /\ user'[p] = user[p] => RowAt(op'[p], step'[p], seen'[p], after)
    /\ op[p] = "sync" => Grows(row, after)
    /\ \/ user'[p] = user[p] /\ Changing(op'[p], step'[p])
       \/ /\ Kept(after)
          /\ Half(after) => \/ user'[p] = user[p] /\ step'[p] \in Halving
                            \/ /\ Half(row) /\ step[p] \notin Halving
                               /\ ~Changing(op[p], step[p])

LEMMA NoUserRow ==
  ASSUME NEW row \in Rows, row.password = NoPassword, row.last_sync = "none", ~row.listed,
         row.account = "none"
  PROVE  row = NoRow
BY DEF Rows, NoRow

\* As long as a request changes nothing, its user's row is all there or all gone,
\* but for a sync or itself.
LEMMA NowKept ==
  ASSUME TypeInv, NEW u \in Users, Orderly(u),
         NEW p \in Procs, On(p, u), ~Changing(op[p], step[p])
  PROVE  /\ Kept(store[u])
         /\ Half(store[u]) => op[p] = "sync" \/ (user[p] = u /\ step[p] \in Halving)
<1>1. ASSUME NEW q \in Procs, user[q] = u PROVE q = p \/ (op[q] = "sync" /\ op[p] = "sync")
  BY <1>1 DEF Orderly, On
<1>2. \A q \in Procs : user[q] = u => ~Changing(op[q], step[q])
  BY <1>1 DEF Changing
<1> QED
  BY <1>1, <1>2 DEF Orderly

\* Nor is there anything unfinished if nobody is at work on the user.
LEMMA NobodyKept ==
  ASSUME NEW u \in Users, Orderly(u), \A p \in Procs : user[p] # u
  PROVE  Kept(store[u]) /\ ~Half(store[u])
BY DEF Orderly

\* One process moves.
LEMMA StepOrderly ==
  ASSUME TypeInv, NEW p \in Procs, Elsewhere(p), Leaving(p),
         NEW u \in Users, Orderly(u),
         IF u = user[p] THEN Leaves(p, store[u], store'[u]) ELSE store'[u] = store[u]
  PROVE  Orderly(u)'
<1>0. user'[p] = u => user[p] = u /\ op'[p] = op[p]
  BY RegistryAssumption DEF Leaving
<1>1. ASSUME NEW q \in Procs, On(q, u)' PROVE On(q, u) /\ op'[q] = op[q]
  BY <1>0, <1>1 DEF On, Elsewhere, Leaving
<1>2. ASSUME NEW q \in Procs, NEW r \in Procs, q # r, On(q, u)', On(r, u)'
      PROVE  op'[q] = "sync" /\ op'[r] = "sync"
  BY <1>1, <1>2 DEF Orderly
<1>3. ASSUME NEW q \in Procs, user'[q] = u
      PROVE  RowAt(op'[q], step'[q], seen'[q], store'[u])
  <2>1. CASE q = p
    BY <1>0, <1>3, <2>1 DEF Leaves
  <2>2. CASE q # p
    <3>1. /\ user[q] = u /\ step'[q] = step[q] /\ op'[q] = op[q] /\ seen'[q] = seen[q]
          /\ RowAt(op[q], step[q], seen[q], store[u])
      BY <1>3, <2>2 DEF Elsewhere, Orderly
    <3>2. CASE u # user[p]
      BY <3>1, <3>2
    <3>3. CASE u = user[p]
      <4>1. op[p] = "sync" /\ op[q] = "sync"
        BY <2>2, <3>1, <3>3 DEF Orderly, On
      <4>2. Grows(store[u], store'[u]) /\ SyncRow(step[q], store[u])
        BY <3>1, <3>3, <4>1 DEF Leaves, RowAt
      <4>3. SyncRow(step[q], store'[u])
        BY <4>2 DEF Grows, SyncRow
      <4> QED
        BY <3>1, <4>1, <4>3 DEF RowAt
    <3> QED
      BY <3>2, <3>3
  <2> QED
    BY <2>1, <2>2
<1>4. ASSUME \A q \in Procs : user'[q] = u => ~Changing(op'[q], step'[q])
      PROVE  /\ Kept(store'[u])
             /\ Half(store'[u]) => \E q \in Procs : user'[q] = u /\ step'[q] \in Halving
  <2>1. \A q \in Procs \ {p} : user[q] = u => ~Changing(op[q], step[q])
    BY <1>4 DEF Elsewhere
  <2>2. CASE u # user[p]
    <3>1. /\ Kept(store[u])
          /\ Half(store[u]) => \E q \in Procs : user[q] = u /\ step[q] \in Halving
      BY <2>1, <2>2 DEF Orderly
    <3> QED
      BY <2>2, <3>1 DEF Elsewhere
  <2>3. CASE u = user[p]
    <3>1. /\ Kept(store'[u])
          /\ Half(store'[u]) => \/ user'[p] = u /\ step'[p] \in Halving
                                \/ /\ Half(store[u]) /\ step[p] \notin Halving
                                   /\ ~Changing(op[p], step[p])
      BY <1>4, <2>3 DEF Leaves
    <3>2. ASSUME Half(store[u]), step[p] \notin Halving, ~Changing(op[p], step[p])
          PROVE  \E q \in Procs : user'[q] = u /\ step'[q] \in Halving
      <4>1. \A q \in Procs : user[q] = u => ~Changing(op[q], step[q])
        BY <2>1, <3>2
      <4>2. PICK q \in Procs : user[q] = u /\ step[q] \in Halving
        BY <3>2, <4>1 DEF Orderly
      <4> QED
        BY <3>2, <4>2 DEF Elsewhere
    <3> QED
      BY <3>1, <3>2
  <2> QED
    BY <2>2, <2>3
<1> QED
  BY <1>2, <1>3, <1>4 DEF Orderly

\* Nobody moves, and the row stays.
LEMMA StillOrderly ==
  ASSUME NEW u \in Users, Orderly(u), UNCHANGED <<step, op, user, seen>>, store'[u] = store[u]
  PROVE  Orderly(u)'
BY DEF Orderly, On

\* Nobody is at work on the user.
LEMMA AloneOrderly ==
  ASSUME NEW u \in Users, \A p \in Procs : user'[p] # u,
         \A p, q \in Procs : op'[p] = "clean" /\ op'[q] = "clean" => p = q,
         Kept(store'[u]), ~Half(store'[u])
  PROVE  Orderly(u)'
BY DEF Orderly, On

\* Moving on or ending, p leaves the others alone.
LEMMA MoveLeaves ==
  ASSUME TidyInv, NEW p \in Procs,
         Ends(p) \/ \E s \in Steps : Goes(p, s)
  PROVE  /\ Elsewhere(p) /\ Leaving(p)
         /\ Ends(p) => step'[p] = "idle" /\ user'[p] = NoUser
         /\ \A s \in Steps : Goes(p, s) => /\ step'[p] = s /\ op'[p] = op[p]
                                           /\ user'[p] = user[p] /\ seen'[p] = seen[p]
<1>0. RequestTypes /\ Tidy(p)
  BY TypeParts DEF TidyInv
<1>1. CASE Ends(p)
  <2>1. /\ step'[p] = "idle" /\ user'[p] = NoUser /\ op'[p] = "none" /\ Elsewhere(p)
    BY <1>0, <1>1 DEF Ends, Goto, RequestTypes, Elsewhere
  <2>2. ASSUME NEW s \in Steps, Goes(p, s)
        PROVE  /\ step'[p] = s /\ op'[p] = op[p] /\ user'[p] = user[p] /\ seen'[p] = seen[p]
    BY <1>0, <2>2 DEF Goes, Goto, RequestTypes
  <2> QED
    BY <2>1, <2>2 DEF Leaving
<1>2. ASSUME NEW s \in Steps, Goes(p, s), ~Ends(p)
      PROVE  /\ Elsewhere(p) /\ Leaving(p)
  <2>1. \A q \in Procs \ {p} : step'[q] = step[q]
    BY <1>0, <1>2 DEF Goes, Goto, RequestTypes
  <2> QED
    BY <1>0, <1>2, <2>1 DEF Goes, Elsewhere, Leaving, Tidy
<1>3. ASSUME NEW s \in Steps, Goes(p, s)
      PROVE  /\ step'[p] = s /\ op'[p] = op[p] /\ user'[p] = user[p] /\ seen'[p] = seen[p]
  BY <1>0, <1>3 DEF Goes, Goto, RequestTypes
<1> QED
  BY <1>1, <1>2, <1>3

-----------------------------------------------------------------------------
(* Each action. *)

\* What holds of p while it works on a user the history does not name.
LEMMA WholeNow ==
  ASSUME WholeInv, Redis, NEW p \in Procs, op[p] # "none", user[p] \in Users \ doubtStore
  PROVE  /\ TypeInv /\ TidyInv /\ AgreeInv /\ loaded
         /\ store[user[p]] \in Rows
         /\ Orderly(user[p]) /\ RowAt(op[p], step[p], seen[p], store[user[p]])
         /\ ~Changing(op[p], step[p]) =>
               /\ Kept(store[user[p]])
               /\ Half(store[user[p]]) => op[p] = "sync" \/ step[p] \in Halving
         /\ ~torn => Settled(user[p])
<1>1. TypeInv /\ TidyInv /\ AgreeInv /\ loaded /\ Orderly(user[p]) /\ user[p] \notin doubtMap
  BY DEF WholeInv, AgreeInv
<1>2. store[user[p]] \in Rows
  BY <1>1 DEF TypeInv, TypeOK
<1>3. RowAt(op[p], step[p], seen[p], store[user[p]])
  BY <1>1 DEF Orderly
<1>4. ~torn => Settled(user[p])
  BY <1>1 DEF AgreeInv
<1> QED
  BY <1>1, <1>2, <1>3, <1>4, NowKept DEF On

LEMMA HandlerOrderly ==
  ASSUME WholeInv, Redis, NEW t \in Threads, Handlers(t), NEW u \in Users \ doubtStore'
  PROVE  Orderly(u)'
<1>0. /\ t \in Procs /\ TypeInv /\ TidyInv /\ Moves(t) /\ user[t] \in Users
      /\ op[t] \in {"register", "delete", "sync"} /\ Fits(op[t], step[t])
  BY HandlerMoves DEF Procs, WholeInv, TidyInv, TypeInv, Fitting, InPlace
<1>1. store' = store /\ doubtStore \subseteq doubtStore'
  BY DEF Handlers, Check, Insert, Registered, Erase, Count, Compare, Lookup, Forget, Synced,
         Doubts, historyVars
<1>2. Orderly(u)
  BY <1>1 DEF WholeInv
<1>3. Elsewhere(t) /\ Leaving(t)
  BY <1>0, MoveLeaves DEF Moves
<1>4. CASE u # user[t]
  BY <1>0, <1>1, <1>2, <1>3, <1>4, StepOrderly
<1>5. CASE u = user[t]
  <2> DEFINE row == store[u]
  <2>1. /\ row \in Rows /\ loaded /\ RowAt(op[t], step[t], seen[t], row)
        /\ ~Changing(op[t], step[t]) =>
              Kept(row) /\ (Half(row) => op[t] = "sync" \/ step[t] \in Halving)
        /\ ~torn => Settled(u)
    BY <1>0, <1>1, <1>5, WholeNow
  <2>2. ~(op[t] = "sync") => ~(\E p \in Procs : p # t /\ user[p] = u)
    BY <1>0, <1>2, <1>5 DEF Orderly, On
  <2> HIDE DEF row
  <2>r. /\ Ends(t) => user'[t] # user[t]
        /\ \A s \in Steps : Goes(t, s) => /\ step'[t] = s /\ op'[t] = op[t]
                                          /\ user'[t] = user[t] /\ seen'[t] = seen[t]
    BY <1>0, MoveLeaves, RegistryAssumption DEF Moves
  <2>s. {"insert", "CREATEUSER", "compare", "lookup", "ADDTOACCOUNTS", "GETACCOUNTS"}
           \subseteq Steps
    BY DEF Steps, MapSteps, Commands
  <2>e. ASSUME Ends(t), Kept(row), Half(row) => step[t] \notin Halving /\ ~Changing(op[t], step[t])
        PROVE  Leaves(t, row, row)
    BY <2>r, <2>e DEF Leaves, Grows
  <2>3. Leaves(t, row, row)
    <3>1. CASE Check(t)
      <4>1. op[t] = "register" /\ step[t] = "check"
        BY <1>0, <3>1 DEF Check, Fits, DeleteSteps, SyncSteps
      <4>2. Kept(row) /\ ~Half(row)
        BY <2>1, <4>1 DEF Changing, Halving
      <4>3. ~torn
        BY <1>5, <3>1 DEF Check, Doubts
      <4>4. CASE Ends(t)
        BY <2>e, <4>2, <4>4
      <4>5. CASE Goes(t, "insert") /\ user_infos[u] = NoPassword
        <5>1. Mid(t)
          BY <1>0, <1>5, <2>1, <4>1, <4>3 DEF Settled, Registering
        <5>2. row.password = NoPassword
          BY <1>5, <4>1, <4>5, <5>1 DEF Mid, MidAt, Before, row
        <5>3. row = NoRow
          BY <4>2, <5>2 DEF Kept
        <5>4. op'[t] = "register" /\ step'[t] = "insert"
          BY <2>r, <2>s, <4>1, <4>5
        <5>5. RegisterRow("insert", row)
          BY <5>3 DEF RegisterRow, NoRow, Stored
        <5> QED
          BY <2>r, <2>s, <4>1, <4>5, <5>4, <5>5 DEF Leaves, RowAt, Changing
      <4> QED
        BY <1>5, <3>1, <4>3, <4>4, <4>5 DEF Check, Found
    <3>2. CASE Insert(t)
      <4>1. op[t] = "register" /\ step[t] = "insert" /\ Goes(t, "CREATEUSER")
        BY <1>0, <3>2 DEF Insert, Fits, DeleteSteps, SyncSteps
      <4>2. RegisterRow("insert", row)
        BY <2>1, <4>1 DEF RowAt
      <4>3. RegisterRow("CREATEUSER", row)
        BY <4>2 DEF RegisterRow, Stored
      <4> QED
        BY <2>r, <2>s, <4>1, <4>3 DEF Leaves, RowAt, Changing
    <3>3. CASE Registered(t)
      <4>1. op[t] = "register" /\ step[t] = "registered" /\ Ends(t)
        BY <1>0, <3>3 DEF Registered, Fits, DeleteSteps, SyncSteps
      <4>2. RegisterRow("registered", row)
        BY <2>1, <4>1 DEF RowAt
      <4>3. Kept(row) /\ ~Half(row)
        BY <4>2 DEF RegisterRow, Kept, Half, Stored
      <4> QED
        BY <2>e, <4>1, <4>3
    <3>4. CASE Erase(t)
      <4>1. op[t] = "register" /\ step[t] = "erase"
        BY <1>0, <3>4 DEF Erase, Fits, DeleteSteps, SyncSteps
      <4> QED
        BY <2>1, <4>1 DEF RowAt, RegisterRow
    <3>5. CASE Count(t)
      <4>1. /\ op[t] \in {"delete", "sync"} /\ step[t] = "count"
            /\ Ends(t) \/ Goes(t, "compare")
        BY <1>0, <3>5 DEF Count, Fits, RegisterSteps
      <4>2. /\ Kept(row) /\ step[t] \notin Halving /\ ~Changing(op[t], step[t])
        BY <2>1, <4>1 DEF Changing, Before, Halving
      <4>3. CASE Goes(t, "compare")
        <5>1. step'[t] = "compare" /\ op'[t] = op[t]
          BY <2>r, <2>s, <4>3
        <5> QED
          BY <2>r, <2>s, <4>1, <4>2, <5>1 DEF Leaves, Grows, RowAt, SyncRow, Before
      <4> QED
        BY <2>e, <4>1, <4>2, <4>3
    <3>6. CASE Compare(t)
      <4>1. op[t] \in {"delete", "sync"} /\ step[t] = "compare"
        BY <1>0, <3>6 DEF Compare, Fits, RegisterSteps
      <4>2. /\ Kept(row) /\ step[t] \notin Halving /\ ~Changing(op[t], step[t])
        BY <2>1, <4>1 DEF Changing, Before, Halving
      <4>3. ~torn
        BY <1>5, <3>6 DEF Compare, Doubts
      <4>4. CASE Ends(t)
        BY <2>e, <4>2, <4>4
      <4>5. CASE op[t] = "delete" /\ Goes(t, "lookup")
        <5>1. step'[t] = "lookup" /\ op'[t] = "delete"
          BY <2>r, <2>s, <4>5
        <5> QED
          BY <4>2, <5>1, <4>5 DEF Leaves, RowAt, SyncRow, Before
      <4>6. CASE op[t] = "sync" /\ Goes(t, "ADDTOACCOUNTS") /\ user_infos[u] = password[t]
        <5>1. \A p \in Procs : op[p] \in Registering => user[p] # u
          BY <1>0, <1>2, <1>5, <4>6 DEF Orderly, On, Registering
        <5>2. user_infos[u] = row.password
          BY <2>1, <4>3, <5>1 DEF Settled, row
        <5>3. password[t] # NoPassword
          BY <1>0, <4>6, RegistryAssumption DEF TidyInv, Tidy
        <5>4. step'[t] = "ADDTOACCOUNTS" /\ op'[t] = "sync"
          BY <2>r, <2>s, <4>6
        <5>5. SyncRow("ADDTOACCOUNTS", row)
          BY <4>6, <5>2, <5>3 DEF SyncRow
        <5> QED
          BY <4>2, <5>4, <5>5 DEF Leaves, Grows, RowAt
      <4>7. \/ Ends(t)
            \/ op[t] = "delete" /\ Goes(t, "lookup")
            \/ op[t] # "delete" /\ Goes(t, "ADDTOACCOUNTS") /\ user_infos[u] = password[t]
        BY <1>5, <3>6, <4>3 DEF Compare, Found
      <4> QED
        BY <4>1, <4>4, <4>5, <4>6, <4>7
    <3>7. CASE Lookup(t)
      <4>1. /\ op[t] = "delete" /\ step[t] = "lookup" /\ (Ends(t) \/ Goes(t, "GETACCOUNTS"))
        BY <1>0, <3>7 DEF Lookup, Fits, RegisterSteps, SyncSteps
      <4>2. Kept(row) /\ ~Half(row)
        BY <2>1, <4>1 DEF Changing, Before, Halving
      <4>3. CASE Goes(t, "GETACCOUNTS")
        <5>1. step'[t] = "GETACCOUNTS" /\ op'[t] = "delete" /\ user'[t] = user[t]
          BY <2>r, <2>s, <4>1, <4>3
        <5>2. \A b : DeleteRow("GETACCOUNTS", b, row)
          BY <4>2 DEF DeleteRow, Kept, NoRow, Gone
        <5> QED
          BY <4>1, <5>1, <5>2 DEF Leaves, RowAt, Changing, Before
      <4> QED
        BY <2>e, <4>1, <4>2, <4>3
    <3>8. CASE Forget(t)
      <4>1. op[t] = "delete" /\ step[t] = "forget" /\ Ends(t)
        BY <1>0, <3>8 DEF Forget, Fits, RegisterSteps, SyncSteps
      <4>2. DeleteRow("forget", seen[t], row)
        BY <2>1, <4>1 DEF RowAt, Before
      <4>3. Kept(row) /\ ~Half(row)
        BY <2>1, <4>2, NoUserRow DEF DeleteRow, Kept, Half, Gone
      <4> QED
        BY <2>e, <4>1, <4>3
    <3>9. CASE Synced(t)
      <4>1. op[t] = "sync" /\ step[t] = "synced" /\ Ends(t)
        BY <1>0, <3>9 DEF Synced, Fits, RegisterSteps, DeleteSteps
      <4>2. Kept(row) /\ step[t] \notin Halving /\ ~Changing(op[t], step[t])
        BY <2>1, <4>1 DEF Changing, Halving
      <4> QED
        BY <2>e, <4>1, <4>2
    <3> QED
      BY <3>1, <3>2, <3>3, <3>4, <3>5, <3>6, <3>7, <3>8, <3>9 DEF Handlers
  <2> QED
    BY <1>0, <1>1, <1>2, <1>3, <1>5, <2>3, StepOrderly DEF row
<1> QED
  BY <1>4, <1>5

\* What a command leaves of its user's row, column by column.
LEMMA AppliedRow ==
  ASSUME TypeInv, NEW p \in Procs, step[p] \in Commands
  PROVE  LET row == store[user[p]] IN
         /\ Applied(p) \in Rows /\ row \in Rows
         /\ Applied(p).password = CASE step[p] = "CREATEUSER" -> password[p]
                                    [] step[p] = "DELUSER" -> NoPassword
                                    [] OTHER -> row.password
         /\ Applied(p).last_sync = CASE step[p] = "SETLASTSYNC" -> "old"
                                     [] step[p] = "DELUSERSYNC" -> "none"
                                     [] step[p] = "TOUCH" -> "recent"
                                     [] OTHER -> row.last_sync
         /\ Applied(p).listed = CASE step[p] \in {"CLEARLIST", "DELACCOUNTLIST"} -> FALSE
                                  [] step[p] = "ADDTOACCOUNTS" -> TRUE
                                  [] OTHER -> row.listed
         /\ Applied(p).account = CASE step[p] = "DELACCOUNT" /\ seen[p] -> "none"
                                   [] step[p] = "SETACCOUNT" -> "recent"
                                   [] OTHER -> row.account
<1>1. /\ store[user[p]] \in Rows /\ Applied(p) \in Rows
  BY CommandFacts DEF TypeInv, TypeOK
<1> QED
  BY <1>1, AppliedPassword DEF Applied, Rows, Commands

\* A registration, at each of its commands.
LEMMA RegisterCommand ==
  ASSUME TypeInv, NEW p \in Procs, Tidy(p), step[p] \in Commands, op[p] = "register",
         RegisterRow(step[p], store[user[p]])
  PROVE  /\ RegisterRow(Following(p), Applied(p))
         /\ RegisterRow("CREATEUSER", Applied(p)) /\ RegisterRow("CREATEUSER", store[user[p]])
<1>1. step[p] \in {"CREATEUSER", "SETLASTSYNC", "CLEARLIST"}
  BY DEF TypeInv, Fitting, InPlace, Fits, RegisterSteps, Commands
<1>2. password[p] # NoPassword
  BY RegistryAssumption DEF Tidy, Registering
<1> QED
  BY <1>1, <1>2, AppliedRow DEF RegisterRow, Following, Stored

\* A deletion.
LEMMA DeleteCommand ==
  ASSUME TypeInv, NEW p \in Procs, step[p] \in Commands, op[p] = "delete",
         DeleteRow(step[p], seen[p], store[user[p]])
  PROVE  /\ \A b : (b <=> step[p] = "GETACCOUNTS" /\ store[user[p]].listed) =>
                DeleteRow(Following(p), b, Applied(p))
         /\ \A b : DeleteRow("GETACCOUNTS", b, Applied(p))
         /\ \A b : DeleteRow("GETACCOUNTS", b, store[user[p]])
         /\ Following(p) \notin Before
<1>1. step[p] \in {"GETACCOUNTS", "DELACCOUNT", "DELACCOUNTLIST", "DELUSER", "DELUSERSYNC"}
  BY DEF TypeInv, Fitting, InPlace, Fits, DeleteSteps, Commands
<1> QED
  BY <1>1, AppliedRow DEF DeleteRow, Following, Gone, Before

\* The cleaner.
LEMMA CleanCommand ==
  ASSUME TypeInv, NEW p \in Procs, step[p] \in Commands, op[p] = "clean",
         DeleteRow(step[p], seen[p], store[user[p]]), Kept(store[user[p]]),
         Half(store[user[p]]) => step[p] \in Halving
  PROVE  /\ \A b : (b <=> /\ step[p] = "GETACCOUNTS" /\ store[user[p]].listed
                       /\ store[user[p]].account # "none") =>
                DeleteRow(Following(p), b, Applied(p))
         /\ Kept(Applied(p)) /\ (Half(Applied(p)) => Following(p) \in Halving)
<1>1. step[p] \in {"GETACCOUNTS", "DELACCOUNT", "DELACCOUNTLIST"}
  BY DEF TypeInv, Fitting, InPlace, Fits, CleanSteps, Commands
<1>2. \A b : (b <=> /\ step[p] = "GETACCOUNTS" /\ store[user[p]].listed
                       /\ store[user[p]].account # "none") =>
                DeleteRow(Following(p), b, Applied(p))
  BY <1>1, AppliedRow DEF DeleteRow, Following, Gone
<1>3. Kept(Applied(p))
  <2>1. CASE store[user[p]] = NoRow
    <3>1. /\ store[user[p]].password = NoPassword /\ store[user[p]].last_sync = "none"
          /\ ~store[user[p]].listed /\ store[user[p]].account = "none"
      BY <2>1 DEF NoRow
    <3>2. /\ Applied(p) \in Rows /\ Applied(p).password = NoPassword
          /\ Applied(p).last_sync = "none" /\ Applied(p).account = "none"
      BY <1>1, <3>1, AppliedRow
    <3>3. ~Applied(p).listed
      BY <1>1, <3>1, AppliedRow
    <3> QED
      BY <3>2, <3>3, NoUserRow DEF Kept
  <2>2. CASE store[user[p]] # NoRow
    BY <1>1, <2>2, AppliedRow DEF Kept, DeleteRow
  <2> QED
    BY <2>1, <2>2
<1>4. Half(Applied(p)) => Following(p) \in Halving
  BY <1>1, AppliedRow DEF Half, Following, Halving
<1> QED
  BY <1>2, <1>3, <1>4

\* A sync, which may also start over.
LEMMA SyncCommand ==
  ASSUME TypeInv, NEW p \in Procs, step[p] \in Commands, op[p] = "sync",
         SyncRow(step[p], store[user[p]]), Kept(store[user[p]])
  PROVE  /\ SyncRow(Following(p), Applied(p)) /\ SyncRow(FirstCommand(p), Applied(p))
         /\ SyncRow(FirstCommand(p), store[user[p]])
         /\ Grows(store[user[p]], Applied(p)) /\ Kept(Applied(p))
         /\ Half(Applied(p)) => Following(p) \in Halving /\ FirstCommand(p) \in Halving
         /\ Half(store[user[p]]) => FirstCommand(p) \in Halving
<1>1. step[p] \in {"ADDTOACCOUNTS", "SETACCOUNT", "TOUCH"}
  BY DEF TypeInv, Fitting, InPlace, Fits, SyncSteps, Commands
<1>2. SyncRow(Following(p), Applied(p)) /\ Grows(store[user[p]], Applied(p))
  BY <1>1, AppliedRow DEF SyncRow, Following, Grows
<1>3. SyncRow(FirstCommand(p), Applied(p)) /\ SyncRow(FirstCommand(p), store[user[p]])
  BY <1>1, AppliedRow DEF SyncRow, FirstCommand
<1>4. Kept(Applied(p))
  <2>1. store[user[p]].password # NoPassword
    BY <1>1 DEF SyncRow
  <2>2. store[user[p]].last_sync # "none" /\ (store[user[p]].account # "none" => store[user[p]].listed)
    BY <2>1 DEF Kept, NoRow
  <2>3. Applied(p).password # NoPassword /\ Applied(p).last_sync # "none"
    BY <1>1, <2>1, <2>2, AppliedRow
  <2>4. Applied(p).account # "none" => Applied(p).listed
    <3>1. CASE step[p] = "SETACCOUNT"
      BY <3>1, AppliedRow DEF SyncRow
    <3>2. CASE step[p] # "SETACCOUNT"
      BY <1>1, <2>2, <3>2, AppliedRow
    <3> QED
      BY <3>1, <3>2
  <2> QED
    BY <2>3, <2>4 DEF Kept
<1>5. /\ Half(Applied(p)) => Following(p) \in Halving /\ FirstCommand(p) \in Halving
      /\ Half(store[user[p]]) => FirstCommand(p) \in Halving
  BY <1>1, AppliedRow DEF SyncRow, Half, Following, FirstCommand, Halving
<1> QED
  BY <1>2, <1>3, <1>4, <1>5

\* A step on the store leaves the others alone.
LEMMA RedisMoves ==
  ASSUME TidyInv, NEW p \in Procs, RedisStep(p)
  PROVE  /\ Elsewhere(p) /\ Leaving(p)
         /\ \A q \in Procs \ {p} : clean'[q] => clean[q]
<1>0. TypeInv /\ RequestTypes /\ Tidy(p) /\ step[p] \in Commands
  <2>1. step[p] \in Commands
    BY DEF RedisStep, Command, Refused, Breaks, Unsent, Swallowed, Nested, Commands
  <2> QED
    BY <2>1, TypeParts DEF TidyInv
<1>g. op[p] # "none"
  BY <1>0, CommandFacts
<1>1. \/ Ends(p) \/ Goes(p, "erase")
      \/ /\ \E s \in Steps : step' = [step EXCEPT ![p] = s]
         /\ op' = op
         /\ user' = user \/ user' = [user EXCEPT ![p] = NoUser]
         /\ seen' = seen \/ \E b : seen' = [seen EXCEPT ![p] = b]
         /\ clean' = clean \/ \E b : clean' = [clean EXCEPT ![p] = b]
  <2>1. Following(p) \in Steps /\ FirstCommand(p) \in Steps /\ {"synced", "TOUCH"} \subseteq Steps
    BY <1>0, CommandFacts, FitsStep DEF Steps, Commands
  <2>2. CASE Command(p) \/ Swallowed(p)
    BY <2>1, <2>2 DEF Command, Swallowed, Goto
  <2>3. CASE Refused(p) \/ Unsent(p)
    BY <2>1, <2>3 DEF Refused, Unsent, Goto
  <2>4. CASE Breaks(p)
    BY <2>1, <2>4 DEF Breaks, GivesUp, Goto
  <2> QED
    BY <2>2, <2>3, <2>4 DEF RedisStep
<1>2. "erase" \in Steps
  BY DEF Steps, MapSteps
<1>3. CASE Ends(p) \/ Goes(p, "erase")
  BY <1>0, <1>2, <1>3, MoveLeaves, MoveStays DEF Goes, OthersStay
<1>4. CASE /\ \E s \in Steps : step' = [step EXCEPT ![p] = s]
           /\ op' = op
           /\ user' = user \/ user' = [user EXCEPT ![p] = NoUser]
           /\ seen' = seen \/ \E b : seen' = [seen EXCEPT ![p] = b]
           /\ clean' = clean \/ \E b : clean' = [clean EXCEPT ![p] = b]
  BY <1>0, <1>g, <1>4 DEF RequestTypes, Elsewhere, Leaving
<1> QED
  BY <1>1, <1>3, <1>4

LEMMA RedisOrderly ==
  ASSUME WholeInv, Redis, NEW p \in Procs, RedisStep(p), NEW u \in Users \ doubtStore'
  PROVE  Orderly(u)'
<1>0. /\ TypeInv /\ TidyInv /\ RequestTypes /\ StateTypes /\ Tidy(p)
      /\ step[p] \in Commands /\ user[p] \in Users
      /\ op[p] \in {"register", "delete", "sync", "clean"} /\ Fits(op[p], step[p])
      /\ Applied(p) \in Rows
  <2>1. step[p] \in Commands
    BY DEF RedisStep, Command, Refused, Breaks, Unsent, Swallowed, Nested, Commands
  <2> QED
    BY <2>1, CommandFacts, TypeParts DEF WholeInv, TidyInv, TypeInv, Fitting, InPlace
<1>1. doubtStore \subseteq doubtStore'
  BY DEF RedisStep, Command, Refused, Breaks, Unsent, Swallowed, historyVars
<1>2. Orderly(u)
  BY <1>1 DEF WholeInv
<1> DEFINE row == store[user[p]]
<1>3. \/ UNCHANGED store
      \/ store' = [store EXCEPT ![user[p]] = row]
      \/ store' = [store EXCEPT ![user[p]] = Applied(p)]
  BY DEF RedisStep, Command, Refused, Breaks, Unsent, Swallowed, Apply
<1>4. \A v \in Users \ {user[p]} : store'[v] = store[v]
  BY <1>0, <1>3 DEF StateTypes
<1>5. Elsewhere(p) /\ Leaving(p)
  BY <1>0, RedisMoves
<1>6. CASE u # user[p]
  BY <1>0, <1>2, <1>4, <1>5, <1>6, StepOrderly
<1>7. CASE u = user[p]
  <2>1. /\ RowAt(op[p], step[p], seen[p], row) /\ row \in Rows
        /\ ~Changing(op[p], step[p]) =>
              Kept(row) /\ (Half(row) => op[p] = "sync" \/ step[p] \in Halving)
    BY <1>0, <1>1, <1>7, WholeNow
  <2>2. \/ op[p] = "register" /\ RegisterRow(step[p], row)
        \/ op[p] = "delete" /\ DeleteRow(step[p], seen[p], row)
        \/ /\ op[p] = "clean" /\ DeleteRow(step[p], seen[p], row) /\ Kept(row)
           /\ Half(row) => step[p] \in Halving
        \/ op[p] = "sync" /\ SyncRow(step[p], row) /\ Kept(row)
    BY <1>0, <2>1 DEF RowAt, Changing, Before, Commands
  <2>3. Command(p) \/ (Breaks(p) /\ attempt[p] < Tries(p) /\ op[p] # "clean")
    BY <1>7 DEF RedisStep, Refused, Breaks, Unsent, Swallowed
  <2>4. CASE Command(p)
    <3>1. /\ store' = [store EXCEPT ![user[p]] = Applied(p)]
          /\ step' = [step EXCEPT ![p] = Following(p)] /\ UNCHANGED <<op, user>>
          /\ seen' = [seen EXCEPT ![p] = Sees(p)]
      BY <2>4 DEF Command, Apply, Goto
    <3>2. /\ store'[u] = Applied(p) /\ step'[p] = Following(p)
          /\ seen'[p] <=> /\ step[p] = "GETACCOUNTS" /\ row.listed
                          /\ op[p] = "clean" => row.account # "none"
      BY <1>0, <1>7, <3>1 DEF RequestTypes, StateTypes, Sees, Nested
    <3> HIDE DEF row
    <3>3. Leaves(p, row, Applied(p))
      <4>1. CASE op[p] = "register"
        <5>1. RegisterRow(Following(p), Applied(p))
          BY <1>0, <2>2, <4>1, RegisterCommand DEF row
        <5>2. Following(p) # "check"
          BY DEF Following
        <5> QED
          BY <3>1, <3>2, <4>1, <5>1, <5>2 DEF Leaves, RowAt, Changing
      <4>2. CASE op[p] = "delete"
        <5>1. DeleteRow(Following(p), seen'[p], Applied(p)) /\ Following(p) \notin Before
          BY <1>0, <2>2, <3>2, <4>2, DeleteCommand DEF row
        <5> QED
          BY <3>1, <3>2, <4>2, <5>1 DEF Leaves, RowAt, Changing
      <4>3. CASE op[p] = "clean"
        <5>1. /\ DeleteRow(Following(p), seen'[p], Applied(p))
              /\ Kept(Applied(p)) /\ (Half(Applied(p)) => Following(p) \in Halving)
          BY <1>0, <2>2, <3>2, <4>3, CleanCommand DEF row
        <5> QED
          BY <3>1, <3>2, <4>3, <5>1 DEF Leaves, RowAt
      <4>4. CASE op[p] = "sync"
        <5>1. /\ SyncRow(Following(p), Applied(p)) /\ Grows(row, Applied(p)) /\ Kept(Applied(p))
              /\ Half(Applied(p)) => Following(p) \in Halving
          BY <1>0, <2>2, <4>4, SyncCommand DEF row
        <5> QED
          BY <3>1, <3>2, <4>4, <5>1 DEF Leaves, RowAt
      <4> QED
        BY <1>0, <4>1, <4>2, <4>3, <4>4
    <3> QED
      BY <1>0, <1>2, <1>5, <1>7, <3>2, <3>3, StepOrderly DEF row
  <2>5. CASE Breaks(p) /\ attempt[p] < Tries(p) /\ op[p] # "clean"
    <3>1. /\ \E r \in {row, Applied(p)} : store' = [store EXCEPT ![user[p]] = r]
          /\ step' = [step EXCEPT ![p] = FirstCommand(p)] /\ UNCHANGED <<op, user, seen>>
      BY <2>5 DEF Breaks, Apply, Goto
    <3>2. /\ store'[u] \in {row, Applied(p)} /\ step'[p] = FirstCommand(p)
      BY <1>0, <1>7, <3>1 DEF RequestTypes, StateTypes
    <3> HIDE DEF row
    <3>3. Leaves(p, row, store'[u])
      <4>1. CASE op[p] = "register"
        <5>1. RegisterRow("CREATEUSER", store'[u])
          BY <1>0, <2>2, <3>2, <4>1, RegisterCommand DEF row
        <5>2. FirstCommand(p) = "CREATEUSER"
          BY <4>1 DEF FirstCommand
        <5> QED
          BY <3>1, <3>2, <4>1, <5>1, <5>2 DEF Leaves, RowAt, Changing
      <4>2. CASE op[p] = "delete"
        <5>1. DeleteRow("GETACCOUNTS", seen[p], store'[u])
          BY <1>0, <2>2, <3>2, <4>2, DeleteCommand DEF row
        <5>2. FirstCommand(p) = "GETACCOUNTS"
          BY <4>2 DEF FirstCommand
        <5> QED
          BY <3>1, <3>2, <4>2, <5>1, <5>2 DEF Leaves, RowAt, Changing, Before
      <4>3. CASE op[p] = "sync"
        <5>1. /\ SyncRow(FirstCommand(p), store'[u]) /\ Grows(row, store'[u]) /\ Kept(store'[u])
              /\ Half(store'[u]) => FirstCommand(p) \in Halving
          BY <1>0, <2>2, <3>2, <4>3, SyncCommand DEF row, Grows
        <5> QED
          BY <3>1, <3>2, <4>3, <5>1 DEF Leaves, RowAt
      <4> QED
        BY <1>0, <2>5, <4>1, <4>2, <4>3
    <3> QED
      BY <1>0, <1>2, <1>5, <1>7, <3>3, StepOrderly DEF row
  <2> QED
    BY <2>3, <2>4, <2>5
<1> QED
  BY <1>6, <1>7

LEMMA RequestOrderly ==
  ASSUME WholeInv, Redis, NEW t \in Threads, NEW o \in Registering \cup {"sync"}, NEW v \in Users,
         NEW w \in Passwords, Request(t, o, v, w), NEW u \in Users \ doubtStore'
  PROVE  Orderly(u)'
<1>0. /\ t \in Procs /\ TypeInv /\ RequestTypes /\ op[t] = "none" /\ user[t] = NoUser
      /\ user[t] # u
  <2>1. t \in Procs /\ TypeInv /\ RequestTypes /\ Tidy(t) /\ Fits(op[t], step[t]) /\ InPlace(t)
    BY TypeParts DEF Procs, WholeInv, TidyInv, TypeInv, Fitting, InPlace
  <2>2. op[t] = "none"
    BY <2>1 DEF Request, Fits, RegisterSteps, DeleteSteps, SyncSteps, CleanSteps, InPlace,
                RequestTypes
  <2> QED
    BY <2>1, <2>2, RegistryAssumption DEF Tidy
<1>1. /\ step'[t] = (IF o = "register" THEN "check" ELSE "count") /\ op'[t] = o /\ user'[t] = v
      /\ Elsewhere(t) /\ store' = store /\ seen' = seen
  BY <1>0 DEF Request, Goto, RequestTypes, Elsewhere
<1>2. doubtStore' = IF \E q \in {r \in Procs \ {t} : On(r, v)} : {o, op[q]} # {"sync"}
                    THEN doubtStore \cup {v} ELSE doubtStore
  BY DEF Request, Overlap
<1>3. Orderly(u)
  BY <1>2 DEF WholeInv
<1>4. u = v => \A q \in Procs \ {t} : On(q, u) => o = "sync" /\ op[q] = "sync"
  <2> SUFFICES ASSUME u = v, NEW q \in Procs \ {t}, On(q, u) PROVE o = "sync" /\ op[q] = "sync"
    OBVIOUS
  <2>1. {o, op[q]} = {"sync"}
    BY <1>2
  <2> QED
    BY <2>1
<1>5. o # "clean" /\ \A q \in Procs \ {t} : On(q, u)' <=> On(q, u)
  BY <1>1 DEF Registering, On, Elsewhere
<1>6. On(t, u)' => u = v
  BY <1>1, <1>5 DEF On
<1>7. ASSUME NEW q \in Procs, NEW r \in Procs, q # r, On(q, u)', On(r, u)'
      PROVE  op'[q] = "sync" /\ op'[r] = "sync"
  <2>1. CASE q # t /\ r # t
    BY <1>1, <1>3, <1>5, <1>7, <2>1 DEF Orderly, Elsewhere
  <2>2. CASE q = t
    BY <1>1, <1>4, <1>5, <1>6, <1>7, <2>2 DEF Elsewhere
  <2>3. CASE r = t
    BY <1>1, <1>4, <1>5, <1>6, <1>7, <2>3 DEF Elsewhere
  <2> QED
    BY <2>1, <2>2, <2>3
<1>8. ASSUME NEW q \in Procs, user'[q] = u PROVE RowAt(op'[q], step'[q], seen'[q], store'[u])
  <2>1. CASE q = t
    BY <1>1, <1>5, <2>1 DEF RowAt, SyncRow, Before, Registering
  <2>2. CASE q # t
    BY <1>1, <1>3, <1>8, <2>2 DEF Orderly, Elsewhere
  <2> QED
    BY <2>1, <2>2
<1>9. ASSUME \A q \in Procs : user'[q] = u => ~Changing(op'[q], step'[q])
      PROVE  /\ Kept(store'[u])
             /\ Half(store'[u]) => \E q \in Procs : user'[q] = u /\ step'[q] \in Halving
  <2>1. \A q \in Procs : user[q] = u => ~Changing(op[q], step[q])
    BY <1>0, <1>1, <1>9 DEF Elsewhere
  <2>2. /\ Kept(store[u])
        /\ Half(store[u]) => \E q \in Procs : user[q] = u /\ step[q] \in Halving
    BY <1>3, <2>1 DEF Orderly
  <2>3. \A q \in Procs : user[q] = u => q # t
    BY <1>0
  <2> QED
    BY <1>1, <2>2, <2>3 DEF Elsewhere
<1> QED
  BY <1>7, <1>8, <1>9 DEF Orderly

LEMMA DiesOrderly ==
  ASSUME WholeInv, Redis, Dies, NEW u \in Users \ doubtStore'
  PROVE  Orderly(u)'
<1>1. Orderly(u) /\ ~Busy(u) /\ ~On(Cleaner, u)
  BY DEF Dies, WholeInv
<1>2. \A p \in Procs : user[p] # u
  BY <1>1 DEF Busy, On, Procs
<1>3. Kept(store'[u]) /\ ~Half(store'[u])
  BY <1>1, <1>2, NobodyKept DEF Dies
<1>4. \A p \in Procs : user'[p] # u /\ op'[p] # "clean"
  BY RegistryAssumption DEF Dies
<1> QED
  BY <1>3, <1>4, AloneOrderly

LEMMA CleanerOrderly ==
  ASSUME WholeInv, Redis, DataCleaner, NEW u \in Users \ doubtStore'
  PROVE  Orderly(u)'
<1>0. /\ Cleaner \in Procs /\ TypeInv /\ TidyInv /\ RequestTypes /\ StateTypes
      /\ op[Cleaner] \in {"none", "clean"} /\ Fits(op[Cleaner], step[Cleaner]) /\ Tidy(Cleaner)
      /\ \A t \in Procs \ {Cleaner} : op[t] # "clean"
  BY TypeParts DEF Procs, WholeInv, TidyInv, TypeInv, Fitting, InPlace
<1>1. CASE CleanerStarts
  <2>1. /\ step[Cleaner] = "idle" /\ UNCHANGED <<user, store>>
        /\ op' = [op EXCEPT ![Cleaner] = "clean"]
        /\ doubtStore' = doubtStore \cup {v \in Users : Busy(v)}
    BY <1>1 DEF CleanerStarts
  <2>2. op[Cleaner] = "none" /\ user[Cleaner] # u
    BY <1>0, <2>1, RegistryAssumption DEF Fits, CleanSteps, Tidy
  <2>3. Orderly(u) /\ \A p \in Procs : user[p] # u
    BY <2>1, <2>2 DEF WholeInv, Busy, Procs
  <2>4. \A p \in Procs \ {Cleaner} : op'[p] # "clean"
    BY <1>0, <2>1 DEF RequestTypes
  <2> QED
    BY <2>1, <2>3, <2>4, NobodyKept, AloneOrderly
<1>2. ASSUME \/ ReadsNext \/ CleanerEnds
             \/ Unconnected /\ ~(attempt[Cleaner] < Tries(Cleaner))
      PROVE  Orderly(u)'
  <2>1. /\ step[Cleaner] \in {"read", "next"} /\ UNCHANGED <<store, doubtStore>>
        /\ Ends(Cleaner) \/ Goes(Cleaner, "next")
    BY <1>2 DEF ReadsNext, CleanerEnds, Unconnected, historyVars
  <2>2. op[Cleaner] = "clean" /\ "next" \in Steps
    BY <1>0, <2>1 DEF Fits, Steps
  <2>3. Orderly(u) /\ Elsewhere(Cleaner) /\ Leaving(Cleaner)
    BY <1>0, <2>1, <2>2, MoveLeaves DEF WholeInv
  <2>4. ASSUME u = user[Cleaner] PROVE Leaves(Cleaner, store[u], store[u])
    <3>1. Kept(store[u]) /\ ~Half(store[u])
      BY <1>0, <2>1, <2>2, <2>3, NowKept DEF On, Changing, Halving
    <3>2. \A b : DeleteRow("next", b, store[u])
      BY <3>1 DEF DeleteRow, Kept, NoRow, Gone
    <3>3. CASE Ends(Cleaner)
      <4>1. user'[Cleaner] # user[Cleaner]
        BY <1>0, <2>4, <3>3, MoveLeaves, RegistryAssumption
      <4> QED
        BY <2>2, <3>1, <4>1 DEF Leaves
    <3>4. CASE Goes(Cleaner, "next")
      <4>1. step'[Cleaner] = "next" /\ op'[Cleaner] = "clean"
        BY <1>0, <2>2, <3>4, MoveLeaves
      <4> QED
        BY <2>2, <3>1, <3>2, <4>1 DEF Leaves, RowAt
    <3> QED
      BY <2>1, <3>3, <3>4
  <2> QED
    BY <1>0, <2>1, <2>3, <2>4, StepOrderly
<1>3. CASE DeleteOld
  BY <1>3 DEF DeleteOld, Redis, Postgres
<1>4. ASSUME NEW v \in Users, ReadsLastSync(v) PROVE Orderly(u)'
  <2>1. CASE Dies
    BY <2>1, DiesOrderly
  <2>2. CASE ~Dies
    <3>1. UNCHANGED <<step, op, user, seen, store, doubtStore>>
      BY <1>4, <2>2 DEF ReadsLastSync, requestVars, historyVars
    <3>2. Orderly(u)
      BY <3>1 DEF WholeInv
    <3> QED
      BY <3>1, <3>2, StillOrderly
  <2> QED
    BY <2>1, <2>2
<1>5. ASSUME NEW v \in Users, CleansUser(v) PROVE Orderly(u)'
  <2>1. /\ step[Cleaner] = "next" /\ UNCHANGED <<op, seen, store, doubtStore>>
        /\ step' = [step EXCEPT ![Cleaner] = "GETACCOUNTS"]
        /\ user' = [user EXCEPT ![Cleaner] = v]
    BY <1>5 DEF CleansUser, Goto, historyVars
  <2>2. /\ op[Cleaner] = "clean" /\ Orderly(u) /\ step'[Cleaner] = "GETACCOUNTS"
        /\ \A p \in Procs \ {Cleaner} : user'[p] = user[p]
    BY <1>0, <2>1 DEF Fits, WholeInv, RequestTypes
  <2>3. \A p \in Procs \ {Cleaner} : user[p] # u
    BY <1>0, <2>2 DEF Orderly, On
  <2>4. Kept(store[u]) /\ ~Half(store[u])
    <3>1. \A p \in Procs : user[p] = u => ~Changing(op[p], step[p]) /\ step[p] \notin Halving
      BY <2>1, <2>2, <2>3 DEF Changing, Halving
    <3> QED
      BY <2>2, <3>1 DEF Orderly
  <2>5. \A b : DeleteRow("GETACCOUNTS", b, store[u])
    BY <2>4 DEF DeleteRow, Kept, NoRow, Gone
  <2>6. ASSUME NEW p \in Procs, user'[p] = u PROVE RowAt(op'[p], step'[p], seen'[p], store'[u])
    BY <2>1, <2>2, <2>3, <2>5, <2>6 DEF RowAt
  <2>7. ASSUME NEW p \in Procs, NEW q \in Procs, p # q, On(p, u)', On(q, u)'
        PROVE  op'[p] = "sync" /\ op'[q] = "sync"
    BY <1>0, <2>1, <2>2, <2>3, <2>7 DEF On
  <2> QED
    BY <2>1, <2>4, <2>6, <2>7 DEF Orderly
<1>6. CASE Unconnected /\ attempt[Cleaner] < Tries(Cleaner)
  <2>1. UNCHANGED <<step, op, user, seen, store, doubtStore>>
    BY <1>6 DEF Unconnected, historyVars
  <2>2. Orderly(u)
    BY <2>1 DEF WholeInv
  <2> QED
    BY <2>1, <2>2, StillOrderly
<1> QED
  BY <1>1, <1>2, <1>3, <1>4, <1>5, <1>6 DEF DataCleaner

\* Days pass, and nobody is at work.
LEMMA AgeOrderly ==
  ASSUME WholeInv, Redis, Age, NEW u \in Users \ doubtStore'
  PROVE  Orderly(u)'
<1>1. /\ \A p \in Procs : user[p] = NoUser
      /\ Orderly(u) /\ StateTypes
      /\ UNCHANGED <<step, op, user, seen>>
  <2>1. ASSUME NEW p \in Procs PROVE user[p] = NoUser
    <3>1. Fits(op[p], step[p]) /\ Tidy(p) /\ step[p] = "idle" /\ InPlace(p) /\ RequestTypes
      BY TypeParts DEF Age, WholeInv, TidyInv, TypeInv, Fitting, InPlace
    <3>2. op[p] = "none"
      BY <3>1 DEF Fits, RegisterSteps, DeleteSteps, SyncSteps, CleanSteps
    <3> QED
      BY <3>1, <3>2 DEF Tidy
  <2> QED
    BY <2>1, TypeParts DEF Age, WholeInv, TidyInv, requestVars
<1>2. Kept(store[u]) /\ ~Half(store[u]) /\ store[u] \in Rows
  BY <1>1, NobodyKept, RegistryAssumption DEF StateTypes
<1>3. store'[u] = [store[u] EXCEPT !.last_sync = IF @ = "recent" THEN "old" ELSE @,
                                   !.account = IF Postgres /\ @ = "recent" THEN "old" ELSE @]
  BY DEF Age
<1>4. /\ store'[u] \in Rows /\ store'[u].password = store[u].password
      /\ store'[u].listed = store[u].listed /\ store'[u].account = store[u].account
      /\ store'[u].last_sync = "none" <=> store[u].last_sync = "none"
  <2>1. ~Postgres
    BY DEF Redis, Postgres
  <2> QED
    BY <1>2, <1>3, <2>1 DEF Rows, Ages
<1>5. ~Half(store'[u])
  BY <1>2, <1>4 DEF Half
<1>6. Kept(store'[u])
  <2>1. CASE store[u] = NoRow
    <3>1. /\ store[u].password = NoPassword /\ store[u].last_sync = "none"
          /\ ~store[u].listed /\ store[u].account = "none"
      BY <2>1 DEF NoRow
    <3>2. ~store'[u].listed
      BY <1>4, <3>1
    <3>3. /\ store'[u].password = NoPassword /\ store'[u].last_sync = "none"
          /\ store'[u].account = "none"
      BY <1>4, <3>1
    <3> QED
      BY <1>4, <3>2, <3>3, NoUserRow DEF Kept
  <2>2. CASE store[u] # NoRow
    BY <1>2, <1>4, <2>2 DEF Kept
  <2> QED
    BY <2>1, <2>2
<1>7. \A p, q \in Procs : op'[p] = "clean" /\ op'[q] = "clean" => p = q
  BY <1>1 DEF WholeInv, TidyInv, TypeInv, Fitting, InPlace
<1> QED
  BY <1>1, <1>5, <1>6, <1>7, AloneOrderly, RegistryAssumption

\* Who may differ from the map may be half done.
LEMMA DoubtsStay ==
  ASSUME WholeInv, Redis, [Next]_vars
  PROVE  doubtMap' \subseteq doubtStore'
<1>0. doubtMap \subseteq doubtStore /\ \A p \in Procs : step[p] \notin Statements
  BY DEF WholeInv, TidyInv, Tidy
<1>1. ASSUME NEW t \in Threads, NEW o \in Registering \cup {"sync"}, NEW u \in Users,
             NEW w \in Passwords, Request(t, o, u, w)
      PROVE  doubtMap' \subseteq doubtStore'
  <2>1. CASE \E q \in {r \in Procs \ {t} : On(r, u)} : {o, op[q]} # {"sync"}
    <3>1. doubtStore' = doubtStore \cup {u} /\ doubtMap' \subseteq doubtMap \cup {u}
      BY <1>1, <2>1 DEF Request, Overlap
    <3> QED
      BY <1>0, <3>1
  <2>2. CASE ~(\E q \in {r \in Procs \ {t} : On(r, u)} : {o, op[q]} # {"sync"})
    <3>1. ~(o \in Registering /\ \E q \in {r \in Procs \ {t} : On(r, u)} : op[q] \in Registering)
      BY <2>2 DEF Registering
    <3>2. doubtMap' = doubtMap /\ doubtStore' = doubtStore
      BY <1>1, <2>2, <3>1 DEF Request, Overlap
    <3> QED
      BY <1>0, <3>2
  <2> QED
    BY <2>1, <2>2
<1>2. ASSUME NEW t \in Threads, Handlers(t) PROVE doubtMap' \subseteq doubtStore'
  BY <1>0, <1>2 DEF Handlers, Check, Insert, Registered, Erase, Count, Compare, Lookup, Forget,
                    Synced, Doubts, historyVars
<1>3. ASSUME NEW t \in Threads, SqlStep(t) PROVE doubtMap' \subseteq doubtStore'
  BY <1>0, <1>3 DEF SqlStep, Execute, Rejected, Lost, Duplicate, Statements, Procs
<1>4. ASSUME NEW p \in Procs, RedisStep(p) PROVE doubtMap' \subseteq doubtStore'
  BY <1>0, <1>4 DEF RedisStep, Command, Refused, Breaks, Unsent, Swallowed, historyVars
<1>5. CASE Dies
  BY <1>0, <1>5 DEF Dies
<1>6. CASE UNCHANGED <<doubtMap, doubtStore>>
  BY <1>0, <1>6
<1>7. CASE DataCleaner
  <2>1. CASE CleanerStarts
    BY <1>0, <2>1 DEF CleanerStarts
  <2>2. CASE \/ ReadsNext \/ Unconnected \/ CleanerEnds \/ DeleteOld
             \/ \E u \in Users : CleansUser(u)
    BY <1>6, <2>2 DEF ReadsNext, Unconnected, CleanerEnds, DeleteOld, CleansUser, historyVars
  <2>3. CASE \E u \in Users : ReadsLastSync(u)
    BY <1>5, <1>6, <2>3 DEF ReadsLastSync, historyVars
  <2> QED
    BY <1>7, <2>1, <2>2, <2>3 DEF DataCleaner
<1>8. CASE Load
  BY <1>0, <1>8 DEF Load, Redis, Postgres
<1>9. CASE Crash \/ Age \/ UNCHANGED vars
  BY <1>5, <1>6, <1>9 DEF Crash, Age, vars, historyVars
<1> QED
  BY <1>1, <1>2, <1>3, <1>4, <1>7, <1>8, <1>9 DEF Next

LEMMA NextWhole == WholeInv /\ [Next]_vars => WholeInv'
<1> SUFFICES ASSUME WholeInv, [Next]_vars PROVE WholeInv'
  OBVIOUS
<1>0. AgreeInv' /\ TidyInv' /\ (Redis' => Redis)
  BY NextAgrees, NextTidy, SameType DEF WholeInv, Redis
<1> SUFFICES ASSUME Redis
             PROVE  doubtMap' \subseteq doubtStore' /\ \A u \in Users \ doubtStore' : Orderly(u)'
  BY <1>0 DEF WholeInv
<1> SUFFICES ASSUME NEW u \in Users \ doubtStore' PROVE Orderly(u)'
  BY DoubtsStay
<1>1. ASSUME NEW t \in Threads, NEW o \in Registering \cup {"sync"}, NEW v \in Users,
             NEW w \in Passwords, Request(t, o, v, w)
      PROVE  Orderly(u)'
  BY <1>1, RequestOrderly
<1>2. ASSUME NEW t \in Threads, Handlers(t) PROVE Orderly(u)'
  BY <1>2, HandlerOrderly
<1>3. ASSUME NEW t \in Threads, SqlStep(t) PROVE Orderly(u)'
  BY <1>3 DEF SqlStep, Execute, Rejected, Lost, Duplicate, Statements, Procs, WholeInv,
              TidyInv, Tidy
<1>4. ASSUME NEW p \in Procs, RedisStep(p) PROVE Orderly(u)'
  BY <1>4, RedisOrderly
<1>5. CASE DataCleaner
  BY <1>5, CleanerOrderly
<1>6. CASE Crash
  BY <1>6, DiesOrderly DEF Crash
<1>7. CASE Age
  BY <1>7, AgeOrderly
<1>8. CASE Load \/ UNCHANGED vars
  <2>1. UNCHANGED <<step, op, user, seen, store, doubtStore>>
    BY <1>8 DEF Load, vars, requestVars, historyVars
  <2>2. Orderly(u)
    BY <2>1 DEF WholeInv
  <2> QED
    BY <2>1, <2>2, StillOrderly
<1> QED
  BY <1>1, <1>2, <1>3, <1>4, <1>5, <1>6, <1>7, <1>8 DEF Next

LEMMA InitWhole == Init => WholeInv
<1> SUFFICES ASSUME Init PROVE WholeInv
  OBVIOUS
<1>1. AgreeInv /\ TidyInv
  <2>1. ~loaded /\ \A p \in Procs : op[p] = "none"
    BY DEF Init
  <2> QED
    BY <2>1, InitType, InitTidy DEF AgreeInv
<1>2. \A p \in Procs : step[p] = "idle" /\ op[p] = "none" /\ user[p] = NoUser
  BY DEF Init
<1>3. \A u \in Users : store[u] = NoRow
  BY DEF Init
<1>4. ASSUME NEW u \in Users PROVE Orderly(u)
  <2>1. Kept(store[u]) /\ ~Half(store[u])
    <3>1. ~NoRow.listed
      BY DEF NoRow
    <3> QED
      BY <1>3, <3>1 DEF Kept, Half
  <2>2. \A p \in Procs : user[p] # u /\ op[p] # "clean"
    BY <1>2, RegistryAssumption
  <2> QED
    BY <2>1, <2>2 DEF Orderly, On
<1> QED
  BY <1>1, <1>4 DEF WholeInv, Init

\* With Redis, of a user there is all or nothing in the store, whatever requests, failures,
\* retries, the cleaner and restarts do, except of the users doubtStore names: Whole lists
\* what puts a user there, among it the failed reads of accounts that the cleaner does not
\* notice.
THEOREM StoredWhole == Spec => []Whole
<1>1. WholeInv => Whole
  <2> SUFFICES ASSUME WholeInv, Redis, NEW u \in Users \ doubtStore, ~Busy(u), ~On(Cleaner, u)
               PROVE  \/ store[u] = NoRow
                      \/ /\ store[u].password # NoPassword /\ store[u].last_sync # "none"
                         /\ store[u].listed <=> store[u].account # "none"
    BY DEF Whole
  <2>1. Orderly(u) /\ \A p \in Procs : user[p] # u
    BY DEF WholeInv, Busy, On, Procs
  <2>2. Kept(store[u]) /\ ~Half(store[u])
    BY <2>1, NobodyKept
  <2> QED
    BY <2>2 DEF Kept, Half
<1> QED
  BY <1>1, InitWhole, NextWhole, PTL DEF Spec

-----------------------------------------------------------------------------
(* The cleaner and the syncs. *)

\* How far a sync has brought the row.
Progress(at, row) ==
    /\ at \in {"SETACCOUNT", "TOUCH", "synced"} => row.listed
    /\ at \in {"TOUCH", "synced"} => row.account # "none"
    /\ at = "synced" => row.last_sync = "recent"

\* A sync nothing has disturbed shares the user with syncs only.
Undisturbed(p) ==
    op[p] = "sync" /\ clean[p] =>
        /\ \A q \in Procs : On(q, user[p]) => op[q] = "sync"
        /\ Progress(step[p], store[user[p]])

\* Steps at which a request that is no sync does not change the row.
Harmless == Early \cup {"next"}

\* Who has synced keeps a recent last sync time, and is neither deleted nor cleaned.
SafeRow(u) ==
    /\ store[u].listed /\ store[u].account # "none" /\ store[u].last_sync = "recent"
    /\ u \notin old
    /\ \A p \in Procs : user[p] = u /\ op[p] # "sync" => step[p] \in Harmless

Sparing ==
    /\ op[Cleaner] # "clean" => old = {}
    /\ \A p \in Procs : Undisturbed(p)
    /\ \A u \in safe : SafeRow(u)

SparesInv == TidyInv /\ (Redis => Sparing)

\* What a sync has stored stays, and stays recent.
Lasts(row, after) ==
    /\ row.listed => after.listed
    /\ row.account # "none" => after.account # "none"
    /\ row.last_sync = "recent" => after.last_sync = "recent"

\* What p's step must do to the row of its user.
Treats(p, row, after) ==
    /\ op[p] = "sync" => Lasts(row, after)
    /\ op[p] # "sync" => after = row \/ step[p] \notin Harmless
    /\ op'[p] = "sync" /\ clean'[p] => clean[p] /\ Progress(step'[p], after)
    /\ user'[p] = user[p] /\ op'[p] # "sync" => step'[p] \in Harmless \/ user[p] \notin safe'

\* One process moves.
LEMMA StepSpares ==
  ASSUME TidyInv, TypeInv', Sparing, NEW p \in Procs, Elsewhere(p), Leaving(p),
         \A q \in Procs \ {p} : clean'[q] => clean[q],
         \A u \in Users \ {user[p]} : store'[u] = store[u],
         user[p] \in Users => Treats(p, store[user[p]], store'[user[p]]),
         old' \subseteq old
  PROVE  /\ \A q \in Procs : Undisturbed(q)'
         /\ \A u \in safe \cap safe' : SafeRow(u)'
<1>1. ASSUME NEW q \in Procs, NEW u \in Users, On(q, u)' PROVE On(q, u) /\ op'[q] = op[q]
  BY <1>1, RegistryAssumption DEF On, Elsewhere, Leaving
<1>2. ASSUME NEW q \in Procs, op'[q] = "sync", clean'[q] PROVE Undisturbed(q)'
  <2>1. user'[q] \in Users
    BY <1>2 DEF TypeInv, Fitting, InPlace
  <2>u. PICK u \in Users : u = user'[q]
    BY <2>1
  <2>2. op[q] = "sync" /\ user'[q] = u /\ user[q] = u
    BY <1>2, <2>u, RegistryAssumption DEF Elsewhere, Leaving
  <2>3. clean[q]
    BY <1>2, <2>2 DEF Treats
  <2>4. Undisturbed(q)
    BY DEF Sparing
  <2>5. \A r \in Procs : On(r, u) => op[r] = "sync"
    BY <2>2, <2>3, <2>4 DEF Undisturbed
  <2>6. \A r \in Procs : On(r, u)' => op'[r] = "sync"
    BY <1>1, <2>2, <2>5
  <2>7. Progress(step'[q], store'[u])
    <3>1. CASE q = p
      BY <1>2, <2>2, <3>1 DEF Treats
    <3>2. CASE q # p
      <4>1. step'[q] = step[q] /\ Progress(step[q], store[u])
        BY <2>2, <2>3, <2>4, <3>2 DEF Elsewhere, Undisturbed
      <4>2. CASE u # user[p]
        BY <2>2, <4>1, <4>2
      <4>3. CASE u = user[p]
        <5>1. op[p] = "sync"
          BY <2>5, <4>3 DEF On
        <5>2. Lasts(store[u], store'[u])
          BY <2>2, <4>3, <5>1 DEF Treats
        <5> QED
          BY <4>1, <5>2 DEF Lasts, Progress
      <4> QED
        BY <4>2, <4>3
    <3> QED
      BY <3>1, <3>2
  <2> QED
    BY <2>2, <2>6, <2>7 DEF Undisturbed, On
<1>3. ASSUME NEW u \in safe \cap safe' PROVE SafeRow(u)'
  <2>1. u \in Users /\ SafeRow(u)
    BY DEF Sparing, TidyInv, TypeInv, TypeOK
  <2>2. store'[u].listed /\ store'[u].account # "none" /\ store'[u].last_sync = "recent"
    <3>1. CASE u # user[p]
      BY <2>1, <3>1 DEF SafeRow
    <3>2. CASE u = user[p]
      <4>1. Treats(p, store[u], store'[u])
        BY <2>1, <3>2
      <4>2. Lasts(store[u], store'[u]) \/ store'[u] = store[u]
        BY <2>1, <3>2, <4>1 DEF Treats, SafeRow
      <4> QED
        BY <2>1, <4>2 DEF Lasts, SafeRow
    <3> QED
      BY <3>1, <3>2
  <2>3. u \notin old'
    BY <2>1 DEF SafeRow
  <2>4. ASSUME NEW r \in Procs, user'[r] = u, op'[r] # "sync" PROVE step'[r] \in Harmless
    <3>1. CASE r # p
      BY <2>1, <2>4, <3>1 DEF Elsewhere, SafeRow
    <3>2. CASE r = p
      <4>1. user'[p] = user[p] /\ user[p] = u
        BY <2>1, <2>4, <3>2, RegistryAssumption DEF Leaving
      <4> QED
        BY <2>1, <2>4, <3>2, <4>1 DEF Treats
    <3> QED
      BY <3>1, <3>2
  <2> QED
    BY <2>2, <2>3, <2>4 DEF SafeRow
<1> QED
  BY <1>2, <1>3 DEF Undisturbed

\* Nobody moves, and the rows stay.
LEMMA StillSparing ==
  ASSUME Sparing, UNCHANGED <<store, step, op, user, clean>>, safe' \subseteq safe,
         IF op[Cleaner] = "clean" THEN \A u \in old' : u \in old \/ u \notin safe ELSE old' = old
  PROVE  Sparing'
<1>1. old' = {} \/ op[Cleaner] = "clean"
  BY DEF Sparing
<1>2. ASSUME NEW p \in Procs PROVE Undisturbed(p)'
  <2>1. Undisturbed(p)
    BY DEF Sparing
  <2> QED
    BY <2>1 DEF Undisturbed, On
<1>3. ASSUME NEW u \in safe' PROVE SafeRow(u)'
  <2>1. SafeRow(u)
    BY DEF Sparing
  <2>2. u \notin old'
    BY <1>1, <2>1 DEF SafeRow
  <2> QED
    BY <2>1, <2>2 DEF SafeRow
<1> QED
  BY <1>1, <1>2, <1>3 DEF Sparing

LEMMA RequestSparing ==
  ASSUME TidyInv, TypeInv', Sparing, NEW t \in Threads, NEW o \in Registering \cup {"sync"},
         NEW v \in Users, NEW w \in Passwords, Request(t, o, v, w)
  PROVE  Sparing'
<1> DEFINE others == {q \in Procs \ {t} : On(q, v)}
<1>0. /\ t \in Procs /\ t # Cleaner /\ RequestTypes /\ o # "clean"
      /\ UNCHANGED <<store, old, safe>>
  BY RegistryAssumption, TypeParts DEF Procs, TidyInv, Request, cleanerVars, Registering
<1>1. /\ step'[t] = (IF o = "register" THEN "check" ELSE "count") /\ op'[t] = o /\ user'[t] = v
      /\ \A q \in Procs \ {t} : step'[q] = step[q] /\ op'[q] = op[q] /\ user'[q] = user[q]
  BY <1>0 DEF Request, Goto, RequestTypes
<1>2. clean' = [q \in Procs |-> IF q = t THEN \A r \in others : ~Disturbs(op[r], o)
                                 ELSE clean[q] /\ ~(q \in others /\ Disturbs(o, op[q]))]
  BY DEF Request, Overlap
<1> HIDE DEF others
<1>3. /\ clean'[t] => \A r \in others : ~Disturbs(op[r], o)
      /\ \A q \in Procs \ {t} :
            clean'[q] => clean[q] /\ ~(q \in others /\ Disturbs(o, op[q]))
  BY <1>0, <1>2, Zenon
<1>4. \A q \in Procs \ {t} :
         On(q, v) => /\ q \in others
                     /\ o = "sync" /\ op[q] # "sync" => Disturbs(op[q], o)
                     /\ o # "sync" /\ op[q] = "sync" => Disturbs(o, op[q])
  BY DEF others, Disturbs, Registering
<1>5. ASSUME NEW q \in Procs PROVE Undisturbed(q)'
  <2> SUFFICES ASSUME op'[q] = "sync", clean'[q] PROVE Undisturbed(q)'
    BY DEF Undisturbed
  <2>1. CASE q = t
    <3>1. \A r \in Procs \ {t} : On(r, v) => op[r] = "sync"
      BY <1>1, <1>3, <1>4, <2>1
    <3>2. \A r \in Procs : On(r, v)' => op'[r] = "sync"
      BY <1>1, <2>1, <3>1 DEF On
    <3>3. Progress("count", store'[v])
      BY DEF Progress
    <3>4. step'[t] = "count"
      BY <1>1, <2>1
    <3> QED
      BY <1>1, <2>1, <3>2, <3>3, <3>4 DEF Undisturbed, On
  <2>2. CASE q # t
    <3>1. PICK u \in Users : user[q] = u
      BY <1>1, <2>2 DEF TypeInv, Fitting, InPlace
    <3>2. /\ op[q] = "sync" /\ clean[q] /\ ~(q \in others /\ Disturbs(o, op[q]))
          /\ user'[q] = u /\ step'[q] = step[q] /\ Undisturbed(q)
      BY <1>1, <1>3, <2>2, <3>1 DEF Sparing
    <3>3. ASSUME NEW r \in Procs, On(r, u)' PROVE op'[r] = "sync"
      <4>1. CASE r = t
        <5>1. u = v
          BY <1>0, <1>1, <3>3, <4>1 DEF On
        <5> QED
          BY <1>1, <1>4, <2>2, <3>1, <3>2, <4>1, <5>1 DEF On
      <4>2. CASE r # t
        BY <1>1, <3>1, <3>2, <3>3, <4>2 DEF Undisturbed, On
      <4> QED
        BY <4>1, <4>2
    <3> QED
      BY <1>0, <3>1, <3>2, <3>3 DEF Undisturbed, On
  <2> QED
    BY <2>1, <2>2
<1>6. ASSUME NEW u \in safe' PROVE SafeRow(u)'
  <2>1. SafeRow(u)
    BY <1>0 DEF Sparing
  <2>2. step'[t] \in Harmless
    BY <1>1 DEF Harmless, Early
  <2> QED
    BY <1>0, <1>1, <2>1, <2>2 DEF SafeRow
<1>7. op'[Cleaner] # "clean" => old' = {}
  BY <1>0, <1>1 DEF Sparing, Procs
<1> QED
  BY <1>5, <1>6, <1>7 DEF Sparing

LEMMA HandlerSparing ==
  ASSUME TidyInv, TypeInv', Sparing, Redis, NEW t \in Threads, Handlers(t)
  PROVE  Sparing'
<1>0. /\ t \in Procs /\ t # Cleaner /\ Cleaner \in Procs /\ TypeInv /\ RequestTypes /\ StateTypes
      /\ Moves(t) /\ user[t] \in Users
      /\ op[t] \in {"register", "delete", "sync"} /\ Fits(op[t], step[t])
  BY HandlerMoves, RegistryAssumption, TypeParts
     DEF Procs, TidyInv, TypeInv, Fitting, InPlace
<1>1. UNCHANGED <<store, old>>
  BY DEF Handlers, Check, Insert, Registered, Erase, Count, Compare, Lookup, Forget, Synced,
         cleanerVars
<1>2. /\ Elsewhere(t) /\ Leaving(t) /\ \A q \in Procs \ {t} : clean'[q] => clean[q]
  BY <1>0, MoveLeaves, MoveStays DEF Moves, Goes, OthersStay
<1>r. /\ Ends(t) => op'[t] = "none" /\ user'[t] # user[t]
      /\ \A s \in Steps : Goes(t, s) => /\ step'[t] = s /\ op'[t] = op[t]
                                        /\ clean'[t] = clean[t]
  BY <1>0, MoveLeaves, MoveResult, RegistryAssumption DEF Moves, Goes
<1>s. {"insert", "CREATEUSER", "compare", "lookup", "ADDTOACCOUNTS", "GETACCOUNTS"}
         \subseteq Steps
  BY DEF Steps, MapSteps, Commands
<1>3. Treats(t, store[user[t]], store[user[t]])
  <2>1. CASE Ends(t)
    BY <1>r, <2>1 DEF Treats, Lasts
  <2>2. CASE Check(t) \/ Count(t)
    <3>1. Ends(t) \/ (op[t] = "register" /\ Goes(t, "insert")) \/ Goes(t, "compare")
      BY <1>0, <2>2 DEF Check, Count, Fits, DeleteSteps, SyncSteps
    <3> QED
      BY <1>r, <1>s, <2>1, <3>1 DEF Treats, Lasts, Progress, Harmless, Early
  <2>3. CASE Insert(t)
    <3>1. op[t] = "register" /\ Goes(t, "CREATEUSER") /\ user[t] \notin safe'
      BY <1>0, <2>3 DEF Insert, Fits, DeleteSteps, SyncSteps
    <3> QED
      BY <1>r, <1>s, <3>1 DEF Treats
  <2>4. CASE Compare(t)
    <3>1. \/ Ends(t) \/ (op[t] = "delete" /\ Goes(t, "lookup"))
          \/ op[t] = "sync" /\ Goes(t, "ADDTOACCOUNTS")
      BY <1>0, <2>4 DEF Compare, Fits, RegisterSteps
    <3> QED
      BY <1>r, <1>s, <2>1, <3>1 DEF Treats, Lasts, Progress, Harmless, Early
  <2>5. CASE Lookup(t)
    <3>1. /\ op[t] = "delete" /\ user[t] \notin safe'
          /\ Ends(t) \/ Goes(t, "GETACCOUNTS")
      BY <1>0, <2>5 DEF Lookup, Fits, RegisterSteps, SyncSteps
    <3> QED
      BY <1>r, <1>s, <2>1, <3>1 DEF Treats
  <2>6. CASE Registered(t) \/ Erase(t) \/ Forget(t) \/ Synced(t)
    BY <2>1, <2>6 DEF Registered, Erase, Forget, Synced
  <2> QED
    BY <2>2, <2>3, <2>4, <2>5, <2>6 DEF Handlers
<1>4. /\ \A q \in Procs : Undisturbed(q)'
      /\ \A u \in safe \cap safe' : SafeRow(u)'
  BY <1>0, <1>1, <1>2, <1>3, StepSpares
<1>5. op'[Cleaner] # "clean" => old' = {}
  BY <1>0, <1>1, <1>2 DEF Sparing, Elsewhere
<1>6. ASSUME NEW u \in safe', u \notin safe PROVE SafeRow(u)'
  <2>1. /\ Synced(t) /\ clean[t] /\ u = user[t]
    <3>1. CASE Synced(t)
      BY <1>6, <3>1 DEF Synced
    <3>2. CASE ~Synced(t)
      <4>1. safe' \subseteq safe
        BY <3>2 DEF Handlers, Check, Insert, Registered, Erase, Count, Compare, Lookup, Forget,
                    historyVars
      <4> QED
        BY <1>6, <4>1
    <3> QED
      BY <3>1, <3>2
  <2>2. op[t] = "sync" /\ step[t] = "synced" /\ Ends(t)
    BY <1>0, <2>1 DEF Synced, Fits, RegisterSteps, DeleteSteps
  <2>3. /\ \A q \in Procs : On(q, u) => op[q] = "sync"
        /\ Progress("synced", store[u])
    BY <1>0, <2>1, <2>2 DEF Sparing, Undisturbed
  <2>4. op[Cleaner] # "clean"
    BY <1>0, <2>3 DEF On
  <2>5. old = {}
    BY <2>4 DEF Sparing
  <2>6. ASSUME NEW q \in Procs, user'[q] = u PROVE op'[q] = "sync"
    BY <1>2, <1>r, <2>1, <2>2, <2>3, <2>6 DEF Elsewhere, On
  <2> QED
    BY <1>1, <2>3, <2>5, <2>6 DEF SafeRow, Progress
<1> QED
  BY <1>4, <1>5, <1>6 DEF Sparing

LEMMA RedisSparing ==
  ASSUME TidyInv, TypeInv', Sparing, Redis, NEW p \in Procs, RedisStep(p)
  PROVE  Sparing'
<1>0. /\ TypeInv /\ RequestTypes /\ StateTypes /\ Tidy(p)
      /\ step[p] \in Commands /\ user[p] \in Users /\ Applied(p) \in Rows
      /\ op[p] \in {"register", "delete", "sync", "clean"} /\ Fits(op[p], step[p])
      /\ Cleaner \in Procs /\ (p = Cleaner <=> op[p] = "clean")
  <2>1. step[p] \in Commands
    BY DEF RedisStep, Command, Refused, Breaks, Unsent, Swallowed, Nested, Commands
  <2> QED
    BY <2>1, CommandFacts, TypeParts DEF TidyInv, TypeInv, Fitting, InPlace, Procs
<1> DEFINE row == store[user[p]]
<1>1. /\ safe' = safe
      /\ \/ UNCHANGED store
         \/ store' = [store EXCEPT ![user[p]] = row]
         \/ store' = [store EXCEPT ![user[p]] = Applied(p)]
  BY DEF RedisStep, Command, Refused, Breaks, Unsent, Swallowed, Apply, historyVars
<1>2. /\ \A v \in Users \ {user[p]} : store'[v] = store[v]
      /\ store'[user[p]] \in {row, Applied(p)}
  BY <1>0, <1>1 DEF StateTypes
<1>3. /\ Elsewhere(p) /\ Leaving(p) /\ \A q \in Procs \ {p} : clean'[q] => clean[q]
  BY <1>0, RedisMoves
<1>4. step[p] \notin Harmless
  BY <1>0 DEF Harmless, Early, Commands
<1>5. op[p] # "sync" => user[p] \notin safe
  BY <1>0, <1>4 DEF Sparing, SafeRow
<1>6. ASSUME op[p] = "sync" PROVE Lasts(row, store'[user[p]])
  <2>1. step[p] \in {"ADDTOACCOUNTS", "SETACCOUNT", "TOUCH"}
    BY <1>0, <1>6 DEF Fits, SyncSteps, Commands
  <2>2. Lasts(row, Applied(p)) /\ Lasts(row, row)
    BY <1>0, <2>1, AppliedRow DEF Lasts
  <2> QED
    BY <1>2, <2>2
<1>7. ASSUME op'[p] = "sync", clean'[p] PROVE clean[p] /\ Progress(step'[p], store'[user[p]])
  <2>1. op[p] = "sync"
    BY <1>3, <1>7 DEF Leaving
  <2>2. step[p] \in {"ADDTOACCOUNTS", "SETACCOUNT", "TOUCH"}
    BY <1>0, <2>1 DEF Fits, SyncSteps, Commands
  <2>3. CASE Command(p)
    <3>1. /\ store' = [store EXCEPT ![user[p]] = Applied(p)] /\ clean' = clean
          /\ step' = [step EXCEPT ![p] = Following(p)]
      BY <2>3 DEF Command, Apply, Goto
    <3>2. store'[user[p]] = Applied(p) /\ step'[p] = Following(p)
      BY <1>0, <3>1 DEF RequestTypes, StateTypes
    <3>3. Progress(step[p], row)
      BY <1>7, <2>1, <3>1 DEF Sparing, Undisturbed
    <3>4. Progress(Following(p), Applied(p))
      BY <1>0, <2>2, <3>3, AppliedRow DEF Progress, Following
    <3> QED
      BY <1>7, <3>1, <3>2, <3>4
  <2>4. CASE Refused(p) \/ Unsent(p)
    <3>1. ~clean'[p]
      BY <1>0, <2>1, <2>4 DEF Refused, Unsent, RequestTypes
    <3> QED
      BY <1>7, <3>1
  <2>5. CASE Breaks(p)
    <3>1. step' = [step EXCEPT ![p] = FirstCommand(p)] /\ clean' = clean
      <4>1. ~Ends(p)
        BY <1>0, <1>7, MoveResult
      <4> QED
        BY <2>1, <2>5, <4>1 DEF Breaks, GivesUp, Goto
    <3>2. step'[p] = FirstCommand(p) /\ Progress(step[p], row)
      BY <1>0, <1>7, <2>1, <3>1 DEF RequestTypes, Sparing, Undisturbed
    <3>3. Progress(FirstCommand(p), row) /\ Progress(FirstCommand(p), Applied(p))
      BY <1>0, <2>1, <2>2, <3>2, AppliedRow DEF Progress, FirstCommand
    <3> QED
      BY <1>2, <1>7, <3>1, <3>2, <3>3
  <2> QED
    BY <2>1, <2>3, <2>4, <2>5 DEF RedisStep, Swallowed, Nested
<1>8. op'[p] # "sync" /\ user'[p] = user[p] => user[p] \notin safe'
  <2>1. op'[p] = "none" => user'[p] # user[p]
    BY <1>0, <1>3, RegistryAssumption DEF Leaving
  <2> QED
    BY <1>1, <1>3, <1>5, <2>1 DEF Leaving
<1>9. Treats(p, row, store'[user[p]])
  BY <1>4, <1>6, <1>7, <1>8 DEF Treats
<1>10. /\ old' \subseteq old
       /\ op'[Cleaner] # "clean" => old' = {}
  <2>1. CASE p = Cleaner
    <3>1. \/ old' = old /\ op' = op
          \/ old' = {}
      BY <2>1 DEF RedisStep, Command, Refused, Breaks, Unsent, Swallowed, cleanerVars
    <3> QED
      BY <3>1 DEF Sparing
  <2>2. CASE p # Cleaner
    <3>1. old' = old
      BY <1>0, <2>2 DEF RedisStep, Command, Refused, Breaks, Unsent, Swallowed, cleanerVars
    <3>2. op'[Cleaner] = op[Cleaner]
      BY <1>0, <1>3, <2>2 DEF Elsewhere
    <3> QED
      BY <3>1, <3>2 DEF Sparing
  <2> QED
    BY <2>1, <2>2
<1>11. /\ \A q \in Procs : Undisturbed(q)'
       /\ \A u \in safe \cap safe' : SafeRow(u)'
  BY <1>2, <1>3, <1>9, <1>10, StepSpares
<1> QED
  BY <1>1, <1>10, <1>11 DEF Sparing

LEMMA DiesSparing ==
  ASSUME TidyInv, Sparing, Dies
  PROVE  Sparing'
<1>1. /\ \A p \in Procs : op'[p] = "none" /\ user'[p] = NoUser
      /\ old' = {} /\ UNCHANGED <<store, safe>>
  BY DEF Dies
<1>2. \A p \in Procs : Undisturbed(p)'
  BY <1>1 DEF Undisturbed
<1>3. ASSUME NEW u \in safe' PROVE SafeRow(u)'
  <2>1. SafeRow(u) /\ u # NoUser
    BY <1>1, RegistryAssumption DEF Sparing, TidyInv, TypeInv, TypeOK
  <2> QED
    BY <1>1, <2>1 DEF SafeRow
<1> QED
  BY <1>1, <1>2, <1>3 DEF Sparing

LEMMA CleanerSparing ==
  ASSUME TidyInv, TypeInv', Sparing, Redis, DataCleaner
  PROVE  Sparing'
<1>0. /\ Cleaner \in Procs /\ TypeInv /\ RequestTypes /\ StateTypes
      /\ op[Cleaner] \in {"none", "clean"} /\ Fits(op[Cleaner], step[Cleaner]) /\ Tidy(Cleaner)
  BY TypeParts DEF Procs, TidyInv, TypeInv, Fitting, InPlace
<1>1. CASE CleanerStarts
  <2>1. /\ step[Cleaner] = "idle" /\ UNCHANGED <<user, store, safe>> /\ old' = {}
        /\ op' = [op EXCEPT ![Cleaner] = "clean"]
        /\ step' = [step EXCEPT ![Cleaner] = "read"]
        /\ clean' = [p \in Procs |-> clean[p] /\ op[p] # "sync"]
    BY <1>1 DEF CleanerStarts, Goto
  <2>2. user[Cleaner] = NoUser
    BY <1>0, <2>1 DEF Fits, CleanSteps, Tidy
  <2>3. /\ op'[Cleaner] = "clean"
        /\ \A p \in Procs \ {Cleaner} : op'[p] = op[p] /\ step'[p] = step[p]
    BY <1>0, <2>1 DEF RequestTypes
  <2>4. \A p \in Procs : op'[p] = "sync" => ~clean'[p]
    BY <2>1, <2>3, Zenon
  <2>5. \A p \in Procs : Undisturbed(p)'
    BY <2>4 DEF Undisturbed
  <2>6. ASSUME NEW u \in safe' PROVE SafeRow(u)'
    <3>1. SafeRow(u) /\ u # NoUser
      BY <1>0, <2>1, RegistryAssumption DEF Sparing, StateTypes
    <3> QED
      BY <2>1, <2>2, <2>3, <3>1 DEF SafeRow
  <2> QED
    BY <2>1, <2>5, <2>6 DEF Sparing
<1>2. CASE \/ ReadsNext \/ CleanerEnds
           \/ Unconnected /\ ~(attempt[Cleaner] < Tries(Cleaner))
  <2>1. /\ step[Cleaner] \in {"read", "next"} /\ UNCHANGED <<store, safe>>
        /\ old' \in {old, {}}
        /\ Goes(Cleaner, "next") \/ (old' = {} /\ Ends(Cleaner))
    BY <1>2 DEF ReadsNext, CleanerEnds, Unconnected, historyVars, cleanerVars
  <2>2. op[Cleaner] = "clean" /\ "next" \in Steps
    BY <1>0, <2>1 DEF Fits, Steps
  <2>3. /\ Elsewhere(Cleaner) /\ Leaving(Cleaner)
        /\ \A q \in Procs \ {Cleaner} : clean'[q] => clean[q]
    BY <1>0, <2>1, <2>2, MoveLeaves, MoveStays DEF Goes, OthersStay
  <2>4. /\ op'[Cleaner] # "sync"
        /\ user'[Cleaner] = user[Cleaner] => step'[Cleaner] = "next" \/ user[Cleaner] \notin Users
        /\ op'[Cleaner] # "clean" => old' = {}
    <3>1. CASE Goes(Cleaner, "next")
      BY <1>0, <2>2, <3>1, MoveLeaves
    <3>2. CASE old' = {} /\ Ends(Cleaner)
      BY <1>0, <2>2, <2>3, <3>2, MoveLeaves, RegistryAssumption DEF Leaving
    <3> QED
      BY <2>1, <3>1, <3>2
  <2>5. user[Cleaner] \in Users => Treats(Cleaner, store[user[Cleaner]], store[user[Cleaner]])
    BY <2>2, <2>4 DEF Treats, Harmless
  <2>6. /\ \A q \in Procs : Undisturbed(q)'
        /\ \A u \in safe \cap safe' : SafeRow(u)'
    BY <1>0, <2>1, <2>3, <2>5, StepSpares
  <2> QED
    BY <2>1, <2>4, <2>6 DEF Sparing
<1>3. CASE DeleteOld
  BY <1>3 DEF DeleteOld, Redis, Postgres
<1>4. ASSUME NEW v \in Users, ReadsLastSync(v) PROVE Sparing'
  <2>1. CASE Dies
    BY <2>1, DiesSparing
  <2>2. CASE ~Dies
    <3>1. /\ step[Cleaner] = "read" /\ UNCHANGED <<step, op, user, store, clean, safe>>
          /\ old' = IF store[v].last_sync = "old" THEN old \cup {v} ELSE old
      BY <1>4, <2>2 DEF ReadsLastSync, requestVars, historyVars
    <3>2. op[Cleaner] = "clean"
      BY <1>0, <3>1 DEF Fits
    <3>3. store[v].last_sync = "old" => v \notin safe
      BY DEF Sparing, SafeRow
    <3>4. \A u \in old' : u \in old \/ u \notin safe
      BY <3>1, <3>3
    <3> QED
      BY <3>1, <3>2, <3>4, StillSparing
  <2> QED
    BY <2>1, <2>2
<1>5. ASSUME NEW v \in Users, CleansUser(v) PROVE Sparing'
  <2>1. /\ step[Cleaner] = "next" /\ v \in old /\ old' \subseteq old
        /\ UNCHANGED <<op, store, clean, safe>>
        /\ step' = [step EXCEPT ![Cleaner] = "GETACCOUNTS"]
        /\ user' = [user EXCEPT ![Cleaner] = v]
    BY <1>5 DEF CleansUser, Goto, historyVars
  <2>2. /\ op[Cleaner] = "clean" /\ user'[Cleaner] = v
        /\ \A p \in Procs \ {Cleaner} : user'[p] = user[p] /\ step'[p] = step[p]
    BY <1>0, <2>1 DEF Fits, RequestTypes
  <2>3. ASSUME NEW p \in Procs PROVE Undisturbed(p)'
    <3> SUFFICES ASSUME op'[p] = "sync", clean'[p] PROVE FALSE
      BY DEF Undisturbed
    <3>1. op[p] = "sync" /\ clean[p] /\ Undisturbed(p)
      BY <2>1 DEF Sparing
    <3> QED
      BY <1>0, <2>2, <3>1 DEF Undisturbed, On
  <2>4. ASSUME NEW u \in safe' PROVE SafeRow(u)'
    <3>1. SafeRow(u) /\ u # v
      BY <2>1 DEF Sparing, SafeRow
    <3> QED
      BY <2>1, <2>2, <3>1 DEF SafeRow
  <2> QED
    BY <2>1, <2>2, <2>3, <2>4 DEF Sparing
<1>6. CASE Unconnected /\ attempt[Cleaner] < Tries(Cleaner)
  <2>1. /\ step[Cleaner] = "read" /\ UNCHANGED <<step, op, user, store, clean, safe>>
        /\ old' = {}
    BY <1>6 DEF Unconnected, historyVars
  <2>2. op[Cleaner] = "clean"
    BY <1>0, <2>1 DEF Fits
  <2> QED
    BY <2>1, <2>2, StillSparing
<1> QED
  BY <1>1, <1>2, <1>3, <1>4, <1>5, <1>6 DEF DataCleaner

\* Nobody is at work.
LEMMA AgeSparing ==
  ASSUME TidyInv, Sparing, Age
  PROVE  Sparing'
<1>1. UNCHANGED <<op, old>> /\ safe' = {}
  BY DEF Age, requestVars, cleanerVars
<1>2. ASSUME NEW p \in Procs PROVE op[p] # "sync"
  <2>1. Fits(op[p], step[p]) /\ step[p] = "idle"
    BY DEF Age, TidyInv, TypeInv, Fitting, InPlace
  <2> QED
    BY <2>1 DEF Fits, SyncSteps
<1> QED
  BY <1>1, <1>2 DEF Sparing, Undisturbed

LEMMA NextSpares == SparesInv /\ [Next]_vars => SparesInv'
<1> SUFFICES ASSUME SparesInv, [Next]_vars PROVE SparesInv'
  OBVIOUS
<1>0. TidyInv /\ TidyInv' /\ TypeInv' /\ (Redis' => Redis)
  BY NextTidy, SameType DEF SparesInv, TidyInv, Redis
<1> SUFFICES ASSUME Redis, Sparing PROVE Sparing'
  BY <1>0 DEF SparesInv
<1>1. ASSUME NEW t \in Threads, NEW o \in Registering \cup {"sync"}, NEW v \in Users,
             NEW w \in Passwords, Request(t, o, v, w)
      PROVE  Sparing'
  BY <1>0, <1>1, RequestSparing
<1>2. ASSUME NEW t \in Threads, Handlers(t) PROVE Sparing'
  BY <1>0, <1>2, HandlerSparing
<1>3. ASSUME NEW t \in Threads, SqlStep(t) PROVE Sparing'
  BY <1>0, <1>3 DEF SqlStep, Execute, Rejected, Lost, Duplicate, Statements, Procs, TidyInv, Tidy
<1>4. ASSUME NEW p \in Procs, RedisStep(p) PROVE Sparing'
  BY <1>0, <1>4, RedisSparing
<1>5. CASE DataCleaner
  BY <1>0, <1>5, CleanerSparing
<1>6. CASE Crash
  BY <1>0, <1>6, DiesSparing DEF Crash
<1>7. CASE Age
  BY <1>0, <1>7, AgeSparing
<1>8. CASE Load \/ UNCHANGED vars
  <2>1. UNCHANGED <<store, step, op, user, clean, safe, old>>
    BY <1>8 DEF Load, vars, requestVars, historyVars, cleanerVars
  <2> QED
    BY <2>1, StillSparing
<1> QED
  BY <1>1, <1>2, <1>3, <1>4, <1>5, <1>6, <1>7, <1>8 DEF Next

LEMMA InitSpares == Init => SparesInv
<1> SUFFICES ASSUME Init PROVE SparesInv
  OBVIOUS
<1>1. \A p \in Procs : op[p] = "none"
  BY DEF Init
<1>2. old = {} /\ safe = {}
  BY DEF Init
<1>3. Sparing
  BY <1>1, <1>2 DEF Sparing, Undisturbed
<1> QED
  BY <1>3, InitTidy DEF SparesInv

\* With Redis, the cleaner leaves the accounts of whoever was answered 200 to a sync all of
\* whose commands were executed and that overlapped neither a pass of the cleaner nor a
\* registration or deletion of the user, as long as the sync is recent and nobody has begun
\* to change the user.
THEOREM SyncedSpared == Spec => []CleanerSpares
<1>1. SparesInv => CleanerSpares
  BY DEF SparesInv, Sparing, SafeRow, CleanerSpares
<1> QED
  BY <1>1, InitSpares, NextSpares, PTL DEF Spec

=============================================================================
