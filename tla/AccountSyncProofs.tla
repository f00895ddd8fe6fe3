--------------------------- MODULE AccountSyncProofs ---------------------------
(***************************************************************************)
(* Theorems about AccountSync, for any number of devices, accounts, update *)
(* times and failures.  What a round achieves rests on RoundInv, which     *)
(* says at each stage of a round what the store still has in common with   *)
(* the snapshot the answer was made from.                                  *)
(***************************************************************************)
EXTENDS AccountSync, TLAPS

\* The actions of one device, as one disjunction per action.
DeviceStep(d) ==
    \/ \E n \in Names : Edit(d, n)
    \/ Initial(d) \/ Answer(d) \/ Final(d) \/ Abandon(d)
    \/ FetchNames(d) \/ FetchAccount(d) \/ FetchRefused(d) \/ FetchEnds(d) \/ FetchFails(d)
    \/ Select(d) \/ SelectFails(d)
    \/ Upsert(d) \/ UpsertFails(d)
    \/ Pipe(d) \/ PipeThrows(d) \/ ListAccount(d) \/ SetAccount(d) \/ AccountRefused(d)
    \/ Piped(d) \/ PipeBreaks(d)
    \/ Touch(d) \/ TouchFails(d) \/ TouchMissed(d)

\* Every step is a step of one device or changes nothing.
LEMMA NextSteps == ASSUME [Next]_vars PROVE (\E d \in Devices : DeviceStep(d)) \/ UNCHANGED vars
  <1>1. CASE UNCHANGED vars BY <1>1
  <1>2. CASE Next
    <2>1. PICK d \in Devices :
            \/ \E n \in Names : Edit(d, n)
            \/ Initial(d) \/ Answer(d) \/ Final(d) \/ Abandon(d)
            \/ Reads(d)
            \/ Upsert(d) \/ UpsertFails(d) \/ Pipes(d)
            \/ Touches(d)
      BY <1>2 DEF Next
    <2>2. DeviceStep(d) BY <2>1 DEF DeviceStep, Reads, Pipes, Touches
    <2>3. QED BY <2>2
  <1>3. QED BY <1>1, <1>2

-----------------------------------------------------------------------------
(* Type correctness. *)

LEMMA MergedType ==
  ASSUME TypeOK, NEW d \in Devices PROVE Merged(d) \in [Names -> Times]
  BY DEF Merged, TypeOK

LEMMA FailureType ==
  ASSUME TypeOK, NEW d \in Devices, NEW s \in Stages,
         Failure(d), CountAttempt(d) \/ UNCHANGED attempt, Goto(d, s) \/ UNCHANGED stage
  PROVE  /\ failures' \in Nat /\ alone' \in [Devices -> BOOLEAN]
         /\ attempt' \in [Devices -> Nat] /\ stage' \in [Devices -> Stages]
  <1>1. failures' \in Nat BY DEF TypeOK, Failure
  <1>2. alone' \in [Devices -> BOOLEAN] BY DEF TypeOK, Failure
  <1>3. attempt' \in [Devices -> Nat]
    <2>1. CASE CountAttempt(d) BY <2>1 DEF TypeOK, CountAttempt
    <2>2. CASE UNCHANGED attempt BY <2>2 DEF TypeOK
    <2>3. QED BY <2>1, <2>2
  <1>4. stage' \in [Devices -> Stages]
    <2>1. CASE Goto(d, s) BY <2>1 DEF TypeOK, Goto
    <2>2. CASE UNCHANGED stage BY <2>2 DEF TypeOK
    <2>3. QED BY <2>1, <2>2
  <1>5. QED BY <1>1, <1>2, <1>3, <1>4

LEMMA NoAccountsType == NoAccounts \in [Names -> Times]
  BY SyncAssumption DEF NoAccounts, Times

LEMMA InitType == Init => TypeOK
  <1> SUFFICES ASSUME Init PROVE TypeOK OBVIOUS
  <1>1. /\ stored \in [Names -> Times] /\ copy \in [Devices -> [Names -> Times]]
        /\ found \in [Devices -> [Names -> Times]]
    BY NoAccountsType DEF Init
  <1>2. stage \in [Devices -> Stages] BY DEF Init, Stages
  <1>3. /\ want \in [Devices -> SUBSET Names] /\ todo \in [Devices -> SUBSET Names]
        /\ adding \in [Devices -> Names \cup {NoName}] /\ attempt \in [Devices -> Nat]
        /\ alone \in [Devices -> BOOLEAN]
    BY DEF Init
  <1>4. QED BY <1>1, <1>2, <1>3 DEF Init, TypeOK

\* Each action of a device preserves the types.
LEMMA StepType ==
  ASSUME TypeOK, NEW d \in Devices, DeviceStep(d) PROVE TypeOK'
  <1> USE SyncAssumption DEF TypeOK, Stages, Goto, storeVars, roundVars
  <1>1. ASSUME NEW n \in Names, Edit(d, n) PROVE TypeOK'
    BY <1>1 DEF Edit, Times
  <1>2. CASE Initial(d) BY <1>2 DEF Initial
  <1>3. CASE Answer(d)
    <2>1. copy' \in [Devices -> [Names -> Times]]
      BY <1>3 DEF Answer, SendBack
    <2>2. want' \in [Devices -> SUBSET Names]
      BY <1>3 DEF Answer, SendToServer
    <2>3. found' \in [Devices -> [Names -> Times]]
      BY <1>3 DEF Answer, NoAccounts, Times
    <2>4. QED BY <1>3, <2>1, <2>2, <2>3 DEF Answer
  <1>4. CASE Final(d) BY <1>4 DEF Final
  <1>5. CASE Abandon(d) BY <1>5 DEF Abandon
  <1>6. CASE FetchNames(d) BY <1>6 DEF FetchNames
  <1>7. CASE FetchAccount(d) BY <1>7 DEF FetchAccount
  <1>8. CASE FetchRefused(d) BY <1>8 DEF FetchRefused, Failure
  <1>9. CASE FetchEnds(d) BY <1>9 DEF FetchEnds
  <1>10. CASE FetchFails(d)
    <2>1. /\ Failure(d) /\ (CountAttempt(d) \/ UNCHANGED attempt)
          /\ Goto(d, "fetch") \/ Goto(d, "answer")
      BY <1>10 DEF FetchFails
    <2>2. QED BY <1>10, <2>1, FailureType DEF FetchFails
  <1>11. CASE Select(d) BY <1>11 DEF Select
  <1>12. CASE SelectFails(d)
    <2>1. /\ Failure(d) /\ (CountAttempt(d) \/ UNCHANGED attempt)
          /\ Goto(d, "idle") \/ UNCHANGED stage
      BY <1>12 DEF SelectFails
    <2>2. QED BY <1>12, <2>1, FailureType DEF SelectFails
  <1>13. CASE Upsert(d) BY <1>13, MergedType DEF Upsert, Wrote
  <1>14. CASE UpsertFails(d)
    <2>1. stored' \in [Names -> Times] /\ failures' \in Nat /\ alone' \in [Devices -> BOOLEAN]
      BY <1>14, MergedType DEF UpsertFails
    <2>2. CASE CountAttempt(d) /\ UNCHANGED stage
      BY <1>14, <2>1, <2>2 DEF UpsertFails, CountAttempt
    <2>3. CASE Goto(d, "idle") /\ UNCHANGED attempt
      BY <1>14, <2>1, <2>3 DEF UpsertFails
    <2>4. QED BY <1>14, <2>2, <2>3 DEF UpsertFails
  <1>15. CASE Pipe(d) BY <1>15 DEF Pipe
  <1>16. CASE PipeThrows(d) BY <1>16 DEF PipeThrows, Failure
  <1>17. CASE ListAccount(d) BY <1>17 DEF ListAccount
  <1>18. CASE SetAccount(d) BY <1>18 DEF SetAccount, Wrote
  <1>19. CASE AccountRefused(d) BY <1>19 DEF AccountRefused, Failure
  <1>20. CASE Piped(d) BY <1>20 DEF Piped
  <1>21. CASE PipeBreaks(d)
    <2>1. /\ Failure(d) /\ (CountAttempt(d) \/ UNCHANGED attempt)
          /\ Goto(d, "upsert") \/ Goto(d, "idle")
      BY <1>21 DEF PipeBreaks
    <2>2. QED BY <1>21, <2>1, FailureType DEF PipeBreaks
  <1>22. CASE Touch(d) BY <1>22 DEF Touch
  <1>23. CASE TouchFails(d)
    <2>1. /\ Failure(d) /\ (CountAttempt(d) \/ UNCHANGED attempt)
          /\ Goto(d, "idle") \/ UNCHANGED stage
      BY <1>23 DEF TouchFails
    <2>2. QED BY <1>23, <2>1, FailureType DEF TouchFails
  <1>24. CASE TouchMissed(d) BY <1>24 DEF TouchMissed, Failure
  <1>25. QED
    BY <1>1, <1>2, <1>3, <1>4, <1>5, <1>6, <1>7, <1>8, <1>9, <1>10, <1>11, <1>12, <1>13, <1>14,
       <1>15, <1>16, <1>17, <1>18, <1>19, <1>20, <1>21, <1>22, <1>23, <1>24
    DEF DeviceStep

LEMMA NextType == TypeOK /\ [Next]_vars => TypeOK'
  <1> SUFFICES ASSUME TypeOK, [Next]_vars PROVE TypeOK' OBVIOUS
  <1>1. CASE UNCHANGED vars
    BY <1>1 DEF vars, storeVars, roundVars, TypeOK
  <1>2. QED BY <1>1, NextSteps, StepType

\* The fields of every round stay in their types whatever the devices and stores do.
THEOREM TypeCorrect == Spec => []TypeOK
  BY InitType, NextType, PTL DEF Spec

-----------------------------------------------------------------------------
(* The invariant of a round. *)

\* Where the local variables of a request are in use.
Local(e) ==
    /\ Postgres => stage[e] \notin {"reading", "piping"}
    /\ stage[e] \notin {"reading", "answer"} /\ ~(Redis /\ stage[e] = "fetch") =>
          \A n \in Names : found[e][n] = 0
    /\ adding[e] # NoName => stage[e] = "piping" /\ adding[e] \in todo[e] /\ adding[e] \in listed
    /\ stage[e] = "piping" => todo[e] \subseteq want[e]

\* With Postgres, at any stage of e's round: the store has moved on from what was
\* found, and has of every account that is not on its way e's version or a newer one.
Ahead(e) ==
    Postgres => \A n \in Names :
        /\ found[e][n] <= stored[n]
        /\ stage[e] \in {"planned", "upsert"} /\ n \notin want[e] => copy[e][n] <= stored[n]
        /\ stage[e] \in {"touch", "synced"} => copy[e][n] <= stored[n]

\* As long as e is alone: how the store, what was found and the device compare.
InStep(e) ==
    alone[e] => \A n \in Names :
        /\ stage[e] = "fetch" => found[e][n] = 0
        /\ stage[e] = "reading" => found[e][n] = IF n \in todo[e] THEN 0 ELSE stored[n]
        /\ stage[e] = "answer" => found[e][n] = stored[n]
        /\ stage[e] \in {"planned", "upsert"} =>
              IF n \in want[e] THEN copy[e][n] > stored[n] ELSE copy[e][n] = stored[n]
        /\ stage[e] = "piping" /\ n \notin todo[e] => copy[e][n] = stored[n]
        /\ stage[e] \in {"touch", "synced"} => copy[e][n] = stored[n]

RoundInv == ListedFirst /\ \A e \in Devices : Local(e) /\ Ahead(e) /\ InStep(e)

LEMMA InitRound == Init => RoundInv
  BY DEF Init, RoundInv, ListedFirst, Local, Ahead, InStep, NoAccounts

OthersSame(e) ==
    /\ stage'[e] = stage[e] /\ copy'[e] = copy[e] /\ found'[e] = found[e]
    /\ want'[e] = want[e] /\ todo'[e] = todo[e] /\ adding'[e] = adding[e]
    /\ alone'[e] => alone[e]

\* A device's step leaves the rounds of the others alone.
LEMMA Others ==
  ASSUME TypeOK, NEW d \in Devices, NEW e \in Devices, e # d, DeviceStep(d)
  PROVE  OthersSame(e)
  <1> USE DEF TypeOK, Goto, storeVars, roundVars, Failure, Wrote, CountAttempt
  <1>1. ASSUME NEW n \in Names, Edit(d, n) PROVE OthersSame(e)
    BY <1>1 DEF Edit, OthersSame
  <1>2. CASE Initial(d) BY <1>2 DEF Initial, OthersSame
  <1>3. CASE Answer(d) BY <1>3 DEF Answer, OthersSame
  <1>4. CASE Final(d) BY <1>4 DEF Final, OthersSame
  <1>5. CASE Abandon(d) BY <1>5 DEF Abandon, OthersSame
  <1>6. CASE FetchNames(d) BY <1>6 DEF FetchNames, OthersSame
  <1>7. CASE FetchAccount(d) BY <1>7 DEF FetchAccount, OthersSame
  <1>8. CASE FetchRefused(d) BY <1>8 DEF FetchRefused, OthersSame
  <1>9. CASE FetchEnds(d) BY <1>9 DEF FetchEnds, OthersSame
  <1>10. CASE FetchFails(d) BY <1>10 DEF FetchFails, OthersSame
  <1>11. CASE Select(d) BY <1>11 DEF Select, OthersSame
  <1>12. CASE SelectFails(d) BY <1>12 DEF SelectFails, OthersSame
  <1>13. CASE Upsert(d) BY <1>13 DEF Upsert, OthersSame
  <1>14. CASE UpsertFails(d) BY <1>14 DEF UpsertFails, OthersSame
  <1>15. CASE Pipe(d) BY <1>15 DEF Pipe, OthersSame
  <1>16. CASE PipeThrows(d) BY <1>16 DEF PipeThrows, OthersSame
  <1>17. CASE ListAccount(d) BY <1>17 DEF ListAccount, OthersSame
  <1>18. CASE SetAccount(d) BY <1>18 DEF SetAccount, OthersSame
  <1>19. CASE AccountRefused(d) BY <1>19 DEF AccountRefused, OthersSame
  <1>20. CASE Piped(d) BY <1>20 DEF Piped, OthersSame
  <1>21. CASE PipeBreaks(d) BY <1>21 DEF PipeBreaks, OthersSame
  <1>22. CASE Touch(d) BY <1>22 DEF Touch, OthersSame
  <1>23. CASE TouchFails(d) BY <1>23 DEF TouchFails, OthersSame
  <1>24. CASE TouchMissed(d) BY <1>24 DEF TouchMissed, OthersSame
  <1>25. QED
    BY <1>1, <1>2, <1>3, <1>4, <1>5, <1>6, <1>7, <1>8, <1>9, <1>10, <1>11, <1>12, <1>13, <1>14,
       <1>15, <1>16, <1>17, <1>18, <1>19, <1>20, <1>21, <1>22, <1>23, <1>24
    DEF DeviceStep, OthersSame

\* What a step of d may do to the store: Postgres only moves forward, the list grows,
\* and a write ends the solitude of the other rounds.
StoreMoves(d) ==
    /\ store_type' = store_type /\ listed \subseteq listed'
    /\ Postgres => \A n \in Names : stored[n] <= stored'[n]
    /\ stored' = stored \/ \A e \in Devices \ {d} : ~alone'[e]
    /\ ListedFirst => ListedFirst'

LEMMA Stores ==
  ASSUME TypeOK, NEW d \in Devices, DeviceStep(d), Local(d) PROVE StoreMoves(d)
  <1> USE DEF TypeOK, Goto, storeVars, StoreMoves, ListedFirst, Redis, Postgres
  <1>1. \A n \in Names : stored[n] <= Merged(d)[n]
    BY DEF Merged, Times
  <1>2. CASE Upsert(d) BY <1>1, <1>2 DEF Upsert, Wrote
  <1>3. CASE UpsertFails(d)
    <2>1. /\ store_type' = store_type /\ listed' = listed /\ Postgres
          /\ stored' \in {stored, Merged(d)} /\ \A e \in Devices : ~alone'[e]
      BY <1>3 DEF UpsertFails
    <2>2. \A n \in Names : stored[n] <= stored'[n] BY <1>1, <2>1 DEF Times
    <2>3. QED BY <2>1, <2>2
  <1>4. CASE ListAccount(d) BY <1>4 DEF ListAccount, Times
  <1>5. CASE SetAccount(d)
    <2>1. /\ store_type' = store_type /\ listed' = listed /\ stage[d] = "piping"
          /\ stored' = [stored EXCEPT ![adding[d]] = copy[d][adding[d]]]
      BY <1>5 DEF SetAccount
    <2>2. ~Postgres /\ adding[d] \in listed BY <1>5, <2>1 DEF Local, SetAccount
    <2>3. \A e \in Devices \ {d} : ~alone'[e] BY <1>5 DEF SetAccount, Wrote
    <2>4. ListedFirst => ListedFirst' BY <2>1, <2>2
    <2>5. QED BY <2>1, <2>2, <2>3, <2>4
  <1>6. CASE UNCHANGED <<store_type, stored, listed>> BY <1>6 DEF Times
  <1>7. ASSUME NEW n \in Names, Edit(d, n) PROVE UNCHANGED <<store_type, stored, listed>>
    BY <1>7 DEF Edit
  <1>8. CASE Initial(d) \/ Answer(d) \/ Final(d) \/ Abandon(d) \/ FetchNames(d) \/ FetchAccount(d)
    BY <1>8, <1>6 DEF Initial, Answer, Final, Abandon, FetchNames, FetchAccount
  <1>9. CASE FetchRefused(d) \/ FetchEnds(d) \/ FetchFails(d) \/ Select(d)
             \/ SelectFails(d) \/ Pipe(d)
    BY <1>9, <1>6 DEF FetchRefused, FetchEnds, FetchFails, Select, SelectFails, Pipe
  <1>10. CASE PipeThrows(d) \/ AccountRefused(d) \/ Piped(d) \/ PipeBreaks(d) \/ Touch(d)
              \/ TouchFails(d) \/ TouchMissed(d)
    BY <1>10, <1>6 DEF PipeThrows, AccountRefused, Piped, PipeBreaks, Touch, TouchFails, TouchMissed
  <1>11. QED BY <1>2, <1>3, <1>4, <1>5, <1>6, <1>7, <1>8, <1>9, <1>10 DEF DeviceStep

\* The rounds d has no part in keep the invariant.
LEMMA OthersKeep ==
  ASSUME TypeOK, TypeOK', NEW d \in Devices, NEW e \in Devices, e # d,
         OthersSame(e), StoreMoves(d), Local(e), Ahead(e), InStep(e)
  PROVE  Local(e)' /\ Ahead(e)' /\ InStep(e)'
  <1> USE DEF OthersSame, StoreMoves, Postgres
  <1>1. Local(e)' BY DEF Local, Redis
  <1>2. Ahead(e)' BY DEF Ahead, TypeOK, Times
  <1>3. InStep(e)' BY DEF InStep
  <1>4. QED BY <1>1, <1>2, <1>3

\* d's own step keeps its local variables where they belong.
LEMMA OwnLocal ==
  ASSUME TypeOK, NEW d \in Devices, DeviceStep(d), ListedFirst,
         Local(d), Ahead(d), InStep(d)
  PROVE  Local(d)'
  <1> USE DEF TypeOK, Goto, storeVars, roundVars, Redis, Postgres, Local, Failure
  <1>1. ASSUME NEW n \in Names, Edit(d, n) PROVE Local(d)'
    BY <1>1 DEF Edit, Resting
  <1>2. CASE Initial(d) BY <1>2 DEF Initial, Resting
  <1>3. CASE Answer(d) BY <1>3 DEF Answer, SendBack, SendToServer, NoAccounts
  <1>4. CASE Final(d) BY <1>4 DEF Final
  <1>5. CASE Abandon(d) BY <1>5 DEF Abandon
  <1>6. CASE FetchNames(d) BY <1>6 DEF FetchNames, ListedFirst
  <1>7. CASE FetchAccount(d) BY <1>7 DEF FetchAccount
  <1>8. CASE FetchRefused(d) BY <1>8 DEF FetchRefused
  <1>9. CASE FetchEnds(d) BY <1>9 DEF FetchEnds
  <1>10. CASE FetchFails(d) BY <1>10 DEF FetchFails
  <1>11. CASE Select(d) BY <1>11 DEF Select
  <1>12. CASE SelectFails(d) BY <1>12 DEF SelectFails
  <1>13. CASE Upsert(d) BY <1>13 DEF Upsert, Merged
  <1>14. CASE UpsertFails(d) BY <1>14 DEF UpsertFails, Merged
  <1>15. CASE Pipe(d) BY <1>15 DEF Pipe
  <1>16. CASE PipeThrows(d) BY <1>16 DEF PipeThrows
  <1>17. CASE ListAccount(d) BY <1>17 DEF ListAccount
  <1>18. CASE SetAccount(d) BY <1>18 DEF SetAccount
  <1>19. CASE AccountRefused(d) BY <1>19 DEF AccountRefused
  <1>20. CASE Piped(d) BY <1>20 DEF Piped
  <1>21. CASE PipeBreaks(d) BY <1>21 DEF PipeBreaks
  <1>22. CASE Touch(d) BY <1>22 DEF Touch
  <1>23. CASE TouchFails(d) BY <1>23 DEF TouchFails
  <1>24. CASE TouchMissed(d) BY <1>24 DEF TouchMissed
  <1>25. QED
    BY <1>1, <1>2, <1>3, <1>4, <1>5, <1>6, <1>7, <1>8, <1>9, <1>10, <1>11, <1>12, <1>13, <1>14,
       <1>15, <1>16, <1>17, <1>18, <1>19, <1>20, <1>21, <1>22, <1>23, <1>24
    DEF DeviceStep

\* With Postgres d's own step keeps the store ahead of d.
LEMMA OwnAhead ==
  ASSUME TypeOK, NEW d \in Devices, DeviceStep(d), ListedFirst,
         Local(d), Ahead(d), InStep(d)
  PROVE  Ahead(d)'
  <1> USE DEF TypeOK, Goto, storeVars, roundVars, Redis, Postgres, Ahead, Local, Times
  <1>1. ASSUME NEW n \in Names, Edit(d, n) PROVE Ahead(d)'
    BY <1>1 DEF Edit, Resting
  <1>2. CASE Initial(d) BY <1>2 DEF Initial, Resting
  <1>3. CASE Answer(d) BY <1>3 DEF Answer, SendBack, SendToServer, NoAccounts
  <1>4. CASE Final(d) BY <1>4 DEF Final
  <1>5. CASE Abandon(d) BY <1>5 DEF Abandon
  <1>6. CASE FetchNames(d) BY <1>6 DEF FetchNames, ListedFirst
  <1>7. CASE FetchAccount(d) BY <1>7 DEF FetchAccount
  <1>8. CASE FetchRefused(d) BY <1>8 DEF FetchRefused
  <1>9. CASE FetchEnds(d) BY <1>9 DEF FetchEnds
  <1>10. CASE FetchFails(d) BY <1>10 DEF FetchFails
  <1>11. CASE Select(d) BY <1>11 DEF Select
  <1>12. CASE SelectFails(d) BY <1>12 DEF SelectFails
  <1>13. CASE Upsert(d) BY <1>13 DEF Upsert, Merged
  <1>14. CASE UpsertFails(d) BY <1>14 DEF UpsertFails, Merged
  <1>15. CASE Pipe(d) BY <1>15 DEF Pipe
  <1>16. CASE PipeThrows(d) BY <1>16 DEF PipeThrows
  <1>17. CASE ListAccount(d) BY <1>17 DEF ListAccount
  <1>18. CASE SetAccount(d) BY <1>18 DEF SetAccount
  <1>19. CASE AccountRefused(d) BY <1>19 DEF AccountRefused
  <1>20. CASE Piped(d) BY <1>20 DEF Piped
  <1>21. CASE PipeBreaks(d) BY <1>21 DEF PipeBreaks
  <1>22. CASE Touch(d) BY <1>22 DEF Touch
  <1>23. CASE TouchFails(d) BY <1>23 DEF TouchFails
  <1>24. CASE TouchMissed(d) BY <1>24 DEF TouchMissed
  <1>25. QED
    BY <1>1, <1>2, <1>3, <1>4, <1>5, <1>6, <1>7, <1>8, <1>9, <1>10, <1>11, <1>12, <1>13, <1>14,
       <1>15, <1>16, <1>17, <1>18, <1>19, <1>20, <1>21, <1>22, <1>23, <1>24
    DEF DeviceStep

LEMMA Compared == ASSUME NEW a \in Int, NEW b \in Int PROVE a > b \/ b > a \/ a = b
  OBVIOUS

\* While d is alone its own step keeps it in step with the store.
LEMMA OwnInStep ==
  ASSUME TypeOK, NEW d \in Devices, DeviceStep(d), ListedFirst,
         Local(d), Ahead(d), InStep(d)
  PROVE  InStep(d)'
  <1> USE DEF TypeOK, Goto, storeVars, roundVars, Redis, Postgres, InStep,
              Local, Failure, Wrote, Times
  <1>1. ASSUME NEW n \in Names, Edit(d, n) PROVE InStep(d)'
    BY <1>1 DEF Edit, Resting
  <1>2. CASE Initial(d) BY <1>2 DEF Initial, Resting
  <1>3. CASE Answer(d)
    <2>1. SUFFICES ASSUME alone[d], NEW n \in Names
                   PROVE  IF n \in want'[d] THEN copy'[d][n] > stored'[n]
                                            ELSE copy'[d][n] = stored'[n]
      BY <1>3 DEF Answer
    <2>2. found[d][n] = stored[n] /\ found[d][n] \in Int /\ copy[d][n] \in Int
      BY <1>3, <2>1 DEF Answer
    <2>3. /\ stored' = stored
          /\ n \in want'[d] <=> copy[d][n] > found[d][n]
          /\ copy'[d][n] = IF found[d][n] > copy[d][n] THEN found[d][n] ELSE copy[d][n]
      BY <1>3 DEF Answer, SendBack, SendToServer
    <2>4. CASE copy[d][n] > found[d][n] BY <2>2, <2>3, <2>4
    <2>5. CASE found[d][n] > copy[d][n] BY <2>2, <2>3, <2>5
    <2>6. CASE found[d][n] = copy[d][n] BY <2>2, <2>3, <2>6
    <2>7. QED BY <2>2, <2>4, <2>5, <2>6, Compared
  <1>4. CASE Final(d) BY <1>4 DEF Final
  <1>5. CASE Abandon(d) BY <1>5 DEF Abandon
  <1>6. CASE FetchNames(d) BY <1>6 DEF FetchNames, ListedFirst
  <1>7. CASE FetchAccount(d) BY <1>7 DEF FetchAccount
  <1>8. CASE FetchRefused(d) BY <1>8 DEF FetchRefused
  <1>9. CASE FetchEnds(d) BY <1>9 DEF FetchEnds
  <1>10. CASE FetchFails(d) BY <1>10 DEF FetchFails
  <1>11. CASE Select(d) BY <1>11 DEF Select
  <1>12. CASE SelectFails(d) BY <1>12 DEF SelectFails
  <1>13. CASE Upsert(d) BY <1>13 DEF Upsert, Merged
  <1>14. CASE UpsertFails(d) BY <1>14 DEF UpsertFails, Merged
  <1>15. CASE Pipe(d) BY <1>15 DEF Pipe
  <1>16. CASE PipeThrows(d) BY <1>16 DEF PipeThrows
  <1>17. CASE ListAccount(d) BY <1>17 DEF ListAccount
  <1>18. CASE SetAccount(d) BY <1>18 DEF SetAccount
  <1>19. CASE AccountRefused(d) BY <1>19 DEF AccountRefused
  <1>20. CASE Piped(d) BY <1>20 DEF Piped
  <1>21. CASE PipeBreaks(d) BY <1>21 DEF PipeBreaks
  <1>22. CASE Touch(d) BY <1>22 DEF Touch
  <1>23. CASE TouchFails(d) BY <1>23 DEF TouchFails
  <1>24. CASE TouchMissed(d) BY <1>24 DEF TouchMissed
  <1>25. QED
    BY <1>1, <1>2, <1>3, <1>4, <1>5, <1>6, <1>7, <1>8, <1>9, <1>10, <1>11, <1>12, <1>13, <1>14,
       <1>15, <1>16, <1>17, <1>18, <1>19, <1>20, <1>21, <1>22, <1>23, <1>24
    DEF DeviceStep

LEMMA NextRound == TypeOK /\ RoundInv /\ [Next]_vars => RoundInv'
  <1> SUFFICES ASSUME TypeOK, RoundInv, [Next]_vars PROVE RoundInv' OBVIOUS
  <1>1. CASE UNCHANGED vars
    BY <1>1 DEF vars, storeVars, roundVars, RoundInv, ListedFirst, Local, Ahead, InStep,
       Redis, Postgres
  <1>2. ASSUME NEW d \in Devices, DeviceStep(d) PROVE RoundInv'
    <2>1. TypeOK' BY NextType
    <2>2. StoreMoves(d) BY <1>2, Stores DEF RoundInv
    <2>3. ListedFirst' BY <2>2 DEF RoundInv, StoreMoves
    <2>4. Local(d)' /\ Ahead(d)' /\ InStep(d)'
      BY <1>2, OwnLocal, OwnAhead, OwnInStep DEF RoundInv
    <2>5. ASSUME NEW e \in Devices, e # d PROVE Local(e)' /\ Ahead(e)' /\ InStep(e)'
      <3>1. OthersSame(e) BY <1>2, <2>5, Others
      <3>2. QED BY <2>1, <2>2, <2>5, <3>1, OthersKeep DEF RoundInv
    <2>6. QED BY <2>3, <2>4, <2>5 DEF RoundInv
  <1>3. QED BY <1>1, <1>2, NextSteps

LEMMA RoundHolds == Spec => [](TypeOK /\ RoundInv)
  <1>1. Init => TypeOK /\ RoundInv BY InitType, InitRound
  <1>2. TypeOK /\ RoundInv /\ [Next]_vars => (TypeOK /\ RoundInv)' BY NextType, NextRound
  <1>3. QED BY <1>1, <1>2, PTL DEF Spec

-----------------------------------------------------------------------------
(* What follows from it. *)

\* Redis: however a pipeline breaks off, an account that is stored is listed, so the
\* next sync_initial finds it.
THEOREM AllListed == Spec => []ListedFirst
  <1>1. RoundInv => ListedFirst BY DEF RoundInv
  <1>2. QED BY <1>1, RoundHolds, PTL

\* With either store, a round that nobody disturbed makes device and store equal.
THEOREM UndisturbedRound == Spec => []RoundAlone
  <1>1. TypeOK /\ RoundInv => RoundAlone
    <2> SUFFICES ASSUME TypeOK, RoundInv, NEW d \in Devices, stage[d] = "synced", alone[d]
                 PROVE  copy[d] = stored
      BY DEF RoundAlone
    <2>1. \A n \in Names : copy[d][n] = stored[n] BY DEF RoundInv, InStep
    <2>2. copy[d] \in [Names -> Times] /\ stored \in [Names -> Times] BY DEF TypeOK
    <2>3. QED BY <2>1, <2>2
  <1>2. QED BY <1>1, RoundHolds, PTL

\* With Postgres, 200 to sync_final means that the store has every version of the
\* device or a newer one, whatever other devices did and whatever failed before.
THEOREM AnsweredMeansStored == Spec => []PgSyncedUp
  <1>1. TypeOK /\ RoundInv => PgSyncedUp
    BY DEF RoundInv, Ahead, PgSyncedUp, SyncedUp, TypeOK, Times
  <1>2. QED BY <1>1, RoundHolds, PTL

\* With Postgres no step replaces a stored version by an older one: the conflict
\* clause does what the lock on the user did.
THEOREM NeverOlder == Spec => PgNewestKept
  <1>1. TypeOK /\ RoundInv /\ [Next]_vars =>
           [Postgres => \A n \in Names : stored'[n] >= stored[n]]_vars
    <2> SUFFICES ASSUME TypeOK, RoundInv, Next, Postgres, NEW n \in Names
                 PROVE  stored'[n] >= stored[n]
      OBVIOUS
    <2>0. TypeOK' BY NextType
    <2>1. CASE UNCHANGED vars BY <2>1 DEF vars, storeVars, TypeOK, Times
    <2>2. ASSUME NEW d \in Devices, DeviceStep(d) PROVE stored'[n] >= stored[n]
      <3>1. StoreMoves(d) BY <2>2, Stores DEF RoundInv
      <3>2. QED BY <2>0, <3>1 DEF StoreMoves, TypeOK, Times
    <2>3. QED BY <2>1, <2>2, NextSteps
  <1>2. QED BY <1>1, RoundHolds, PTL DEF Spec, PgNewestKept

-----------------------------------------------------------------------------
(* Refinement. *)

LEMMA InitRefines == Init => LWW!Init
  BY DEF Init, LWW!Init, LWW!Nothing, NoAccounts

LEMMA StepRefines ==
  TypeOK /\ RoundInv /\ [Next]_vars => [LWW!Next]_(LWW!lwwVars)
  <1> SUFFICES ASSUME TypeOK, RoundInv, [Next]_vars PROVE [LWW!Next]_(LWW!lwwVars) OBVIOUS
  <1>0. TypeOK' BY NextType
  <1>1. CASE UNCHANGED vars
    BY <1>1 DEF vars, storeVars, LWW!lwwVars, Postgres
  <1>2. ASSUME NEW d \in Devices, DeviceStep(d) PROVE [LWW!Next]_(LWW!lwwVars)
    <2>1. store_type' = store_type BY <1>2, Stores DEF StoreMoves, RoundInv
    <2>2. CASE ~Postgres BY <2>1, <2>2 DEF Postgres, LWW!lwwVars
    <2>3. CASE Postgres /\ UNCHANGED <<stored, copy>>
      BY <2>1, <2>3 DEF Postgres, LWW!lwwVars
    <2>4. ASSUME Postgres, NEW n \in Names, Edit(d, n) PROVE LWW!Next
      <3>1. PICK t \in 1 .. MaxTime :
               t > copy[d][n] /\ copy' = [copy EXCEPT ![d][n] = t]
        BY <2>4 DEF Edit
      <3>2. stored' = stored BY <2>4 DEF Edit, storeVars
      <3>3. LWW!Change(d, n, t) BY <2>1, <2>4, <3>1, <3>2 DEF LWW!Change, Postgres
      <3>4. QED BY <3>3 DEF LWW!Next
    <2>5. CASE Postgres /\ Answer(d)
      <3>1. stored' = stored BY <2>5 DEF Answer, storeVars
      <3>2. copy' = [copy EXCEPT ![d] = copy'[d]] BY <2>5 DEF Answer, TypeOK
      <3>3. copy'[d] \in [Names -> 0 .. MaxTime] BY <1>0 DEF TypeOK, Times
      <3>4. ASSUME NEW n \in Names
            PROVE  /\ copy[d][n] <= copy'[d][n]
                   /\ copy'[d][n] <= LWW!Newest(copy[d][n], stored[n])
        <4>1. copy'[d][n] = IF found[d][n] > copy[d][n] THEN found[d][n] ELSE copy[d][n]
          BY <2>5 DEF Answer, SendBack, TypeOK
        <4>2. found[d][n] <= stored[n] BY <2>5 DEF RoundInv, Ahead
        <4>3. QED BY <4>1, <4>2 DEF LWW!Newest, TypeOK, Times
      <3>5. LWW!Pull(d) BY <2>1, <2>5, <3>1, <3>2, <3>3, <3>4 DEF LWW!Pull, Postgres
      <3>6. QED BY <3>5 DEF LWW!Next
    <2>6. ASSUME Postgres, copy' = copy, stored' = Merged(d) PROVE LWW!Next
      <3>1. stored' = [n \in Names |-> IF n \in want[d] THEN LWW!Newest(stored[n], copy[d][n])
                                                       ELSE stored[n]]
        BY <2>6 DEF Merged, LWW!Newest, TypeOK, Times
      <3>2. want[d] \in SUBSET Names BY DEF TypeOK
      <3>3. LWW!Push(d) BY <2>1, <2>6, <3>1, <3>2 DEF LWW!Push, Postgres
      <3>4. QED BY <3>3 DEF LWW!Next
    <2>7. CASE Postgres /\ Upsert(d) BY <2>6, <2>7 DEF Upsert
    <2>8. CASE Postgres /\ UpsertFails(d) BY <2>3, <2>6, <2>8 DEF UpsertFails
    <2>9. CASE Postgres /\ UNCHANGED stored /\ ~(\E n \in Names : Edit(d, n)) /\ ~Answer(d)
      <3>1. copy' = copy
        BY <1>2, <2>9 DEF DeviceStep, storeVars, Initial, Final, Abandon, FetchNames, FetchAccount,
           FetchRefused, FetchEnds, FetchFails, Select, SelectFails, Upsert, UpsertFails, Pipe,
           PipeThrows, ListAccount, SetAccount, AccountRefused, Piped, PipeBreaks, Touch,
           TouchFails, TouchMissed
      <3>2. QED BY <2>3, <2>9, <3>1
    <2>10. CASE Postgres /\ ~Upsert(d) /\ ~UpsertFails(d) /\ ~UNCHANGED stored
      <3>1. SetAccount(d)
        BY <1>2, <2>10 DEF DeviceStep, storeVars, Edit, Answer, Initial, Final, Abandon, FetchNames,
           FetchAccount, FetchRefused, FetchEnds, FetchFails, Select, SelectFails, Pipe, PipeThrows,
           ListAccount, AccountRefused, Piped, PipeBreaks, Touch, TouchFails, TouchMissed
      <3>2. QED BY <2>10, <3>1 DEF RoundInv, Local, SetAccount
    <2>11. QED BY <2>2, <2>4, <2>5, <2>7, <2>8, <2>9, <2>10
  <1>3. QED BY <1>1, <1>2, NextSteps

\* With Postgres every interleaving of rounds and failures is one of the abstract
\* last-writer-wins table.
THEOREM Refinement == Spec => PgLastWriterWins
  BY InitRefines, StepRefines, RoundHolds, PTL DEF Spec, LWW!Spec, PgLastWriterWins

=============================================================================
