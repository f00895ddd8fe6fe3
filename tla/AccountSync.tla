------------------------------ MODULE AccountSync ------------------------------
(***************************************************************************)
(* Synchronisation of the accounts of one registered user: sync_initial    *)
(* and sync_final of sync_handler.cpp on top of the two stores, RedisStore *)
(* and data_store_connection (Postgres).  Each device runs rounds: it      *)
(* sends what it has (sync_initial), is told which accounts to send and    *)
(* is sent those it lacks, and sends what was asked for (sync_final).      *)
(*                                                                         *)
(* A version of an account is its update_time; 0 is no account.  A request *)
(* with a wrong password or a body that does not parse changes nothing and *)
(* is left out.  A Redis command and an SQL statement are steps; the       *)
(* connection pools are not in this module: getConnection may throw.       *)
(***************************************************************************)
EXTENDS Integers, FiniteSets

CONSTANTS
    Names,          \* account names
    NoName,
    Devices,        \* clients of the user
    StoreTypes,     \* the store types considered: redis, postgres
    MaxAttempts,    \* REDIS_MAX_ATTEMPS
    PgAttempts,     \* tries of PQexec_wrapper and PQexecPrepared_wrapper
    MaxTime,        \* bound: update times of accounts
    MaxFailures     \* bound: failures of the store

ASSUME SyncAssumption ==
    /\ IsFiniteSet(Names) /\ NoName \notin Names /\ IsFiniteSet(Devices)
    /\ StoreTypes \subseteq {"redis", "postgres"}
    /\ MaxAttempts \in Nat /\ PgAttempts \in Nat \ {0}
    /\ MaxTime \in Nat /\ MaxFailures \in Nat

VARIABLES
    store_type,     \* from the configuration, fixed
    stored,         \* the stored version of each account
    listed,         \* Redis: the names in the user's account list
    last_sync,      \* whether the user's last sync time was set since registration
    copy,           \* copy[d]: the versions device d has
    stage,          \* where the round of each device is
    found,          \* accounts map of handle_sync_initial
    want,           \* sendAccountsToServerList of the last answer
    todo,           \* accounts of the pipeline still to come
    adding,         \* account that is listed but not yet set by the pipeline
    attempt,
    failures,
    alone           \* history: nobody else wrote and nothing failed in d's round

storeVars == <<stored, listed, last_sync>>
roundVars == <<found, want, todo, adding, attempt>>
vars == <<store_type, storeVars, copy, stage, roundVars, failures, alone>>

Times == 0 .. MaxTime
NoAccounts == [n \in Names |-> 0]
Stages == {"idle", "fetch", "reading", "answer", "planned",
           "upsert", "piping", "touch", "synced"}

Redis == store_type = "redis"
Postgres == store_type = "postgres"

TypeOK ==
    /\ store_type \in StoreTypes
    /\ stored \in [Names -> Times] /\ listed \subseteq Names /\ last_sync \in BOOLEAN
    /\ copy \in [Devices -> [Names -> Times]]
    /\ stage \in [Devices -> Stages]
    /\ found \in [Devices -> [Names -> Times]]
    /\ want \in [Devices -> SUBSET Names] /\ todo \in [Devices -> SUBSET Names]
    /\ adding \in [Devices -> Names \cup {NoName}]
    /\ attempt \in [Devices -> Nat] /\ failures \in Nat
    /\ alone \in [Devices -> BOOLEAN]

Init ==
    /\ store_type \in StoreTypes
    /\ stored = NoAccounts /\ listed = {} /\ last_sync = FALSE
    /\ copy = [d \in Devices |-> NoAccounts]
    /\ stage = [d \in Devices |-> "idle"]
    /\ found = [d \in Devices |-> NoAccounts]
    /\ want = [d \in Devices |-> {}] /\ todo = [d \in Devices |-> {}]
    /\ adding = [d \in Devices |-> NoName]
    /\ attempt = [d \in Devices |-> 1] /\ failures = 0
    /\ alone = [d \in Devices |-> FALSE]

-----------------------------------------------------------------------------
(* Helpers. *)

Goto(d, s) == stage' = [stage EXCEPT ![d] = s]

\* Some command of d's round fails.
Failure(d) ==
    /\ failures < MaxFailures /\ failures' = failures + 1
    /\ alone' = [alone EXCEPT ![d] = FALSE]

\* d writes accounts: no other round is alone any more.
Wrote(d) == alone' = [e \in Devices |-> alone[e] /\ e = d]

\* The loops around a store operation.
RedisAgain(d) == attempt[d] <= MaxAttempts
PgAgain(d) == attempt[d] < PgAttempts
CountAttempt(d) == attempt' = [attempt EXCEPT ![d] = @ + 1]

\* Mutant: the conflict clause lost its condition.
Merged_Always(d) == [n \in Names |-> IF n \in want[d] THEN copy[d][n] ELSE stored[n]]

\* ON CONFLICT DO UPDATE ... WHERE EXCLUDED.update_time > a.update_time.
Merged(d) ==
    [n \in Names |-> IF n \in want[d] /\ copy[d][n] > stored[n] THEN copy[d][n] ELSE stored[n]]

-----------------------------------------------------------------------------
(* The devices. *)

Resting(d) == stage[d] \in {"idle", "synced"}

\* An account is added or changed on a device, by its clock.
Edit(d, n) ==
    /\ Resting(d)
    /\ \E t \in 1 .. MaxTime : t > copy[d][n] /\ copy' = [copy EXCEPT ![d][n] = t]
    /\ Goto(d, "idle")
    /\ UNCHANGED <<store_type, storeVars, roundVars, failures, alone>>

\* sync_initial arrives.
Initial(d) ==
    /\ Resting(d) /\ Goto(d, "fetch")
    /\ attempt' = [attempt EXCEPT ![d] = 1]
    /\ alone' = [alone EXCEPT ![d] = TRUE]
    /\ UNCHANGED <<store_type, storeVars, copy, found, want, todo, adding, failures>>

\* sync_final arrives, with the accounts that were asked for.
Final(d) ==
    /\ stage[d] = "planned" /\ Goto(d, "upsert")
    /\ attempt' = [attempt EXCEPT ![d] = 1]
    /\ UNCHANGED <<store_type, storeVars, copy, found, want, todo, adding, failures, alone>>

\* The device goes away in the middle of its round.
Abandon(d) ==
    /\ stage[d] = "planned" /\ Goto(d, "idle")
    /\ UNCHANGED <<store_type, storeVars, copy, roundVars, failures, alone>>

-----------------------------------------------------------------------------
(* get_accounts_for_user. *)

\* Postgres: one SELECT.
Select(d) ==
    /\ Postgres /\ stage[d] = "fetch" /\ Goto(d, "answer")
    /\ found' = [found EXCEPT ![d] = stored]
    /\ UNCHANGED <<store_type, storeVars, copy, want, todo, adding, attempt, failures, alone>>

\* No result: the wrapper tries again, in the end, or at once if it has no
\* connection, it throws and the answer is 500.
SelectFails(d) ==
    /\ Postgres /\ stage[d] = "fetch" /\ Failure(d)
    /\ \/ PgAgain(d) /\ CountAttempt(d) /\ UNCHANGED stage
       \/ Goto(d, "idle") /\ UNCHANGED attempt
    /\ UNCHANGED <<store_type, storeVars, copy, found, want, todo, adding>>

\* Redis: the names first ...
FetchNames(d) ==
    /\ Redis /\ stage[d] = "fetch" /\ Goto(d, "reading")
    /\ todo' = [todo EXCEPT ![d] = listed]
    /\ UNCHANGED <<store_type, storeVars, copy, found, want, adding, attempt, failures, alone>>

\* ... then one command for each.  A name without an account is skipped, and what
\* an earlier attempt found is not replaced.
FetchAccount(d) ==
    /\ stage[d] = "reading"
    /\ \E n \in todo[d] :
          /\ todo' = [todo EXCEPT ![d] = @ \ {n}]
          /\ found' = [found EXCEPT ![d][n] = IF @ = 0 THEN stored[n] ELSE @]
    /\ UNCHANGED <<store_type, storeVars, copy, stage, want, adding, attempt, failures, alone>>

\* The answer to one of them is an error: it is skipped too.
FetchRefused(d) ==
    /\ stage[d] = "reading" /\ Failure(d)
    /\ \E n \in todo[d] : todo' = [todo EXCEPT ![d] = @ \ {n}]
    /\ UNCHANGED <<store_type, storeVars, copy, stage, found, want, adding, attempt>>

FetchEnds(d) ==
    /\ stage[d] = "reading" /\ todo[d] = {} /\ Goto(d, "answer")
    /\ UNCHANGED <<store_type, storeVars, copy, roundVars, failures, alone>>

\* No connection, or it breaks, or the names are refused.  After the last attempt
\* the accounts found so far are returned as if they were all.
FetchFails(d) ==
    /\ Redis
    /\ stage[d] = "fetch" \/ (stage[d] = "reading" /\ todo[d] # {})
    /\ Failure(d)
    /\ \/ RedisAgain(d) /\ CountAttempt(d) /\ Goto(d, "fetch")
       \/ ~RedisAgain(d) /\ Goto(d, "answer") /\ UNCHANGED attempt
    /\ todo' = [todo EXCEPT ![d] = {}]
    /\ UNCHANGED <<store_type, storeVars, copy, found, want, adding>>

-----------------------------------------------------------------------------
(* The answer to sync_initial. *)

\* Mutant: accounts the server does not have are not asked for.
SendToServer_Known(d) == {n \in Names : copy[d][n] > found[d][n] /\ found[d][n] > 0}

\* sendAccountsToServerList: newer on the client, or not on the server.
SendToServer(d) == {n \in Names : copy[d][n] > found[d][n]}

\* Mutant: an older version is sent back, too.
SendBack_Older(d) == {n \in Names : found[d][n] > 0}

\* Mutant: accounts the client did not send are forgotten.
SendBack_Sent(d) == {n \in Names : found[d][n] > copy[d][n] /\ copy[d][n] > 0}

\* accountsToSendBackToClient: newer on the server, or not sent by the client.
SendBack(d) == {n \in Names : found[d][n] > copy[d][n]}

Answer(d) ==
    /\ stage[d] = "answer" /\ Goto(d, "planned")
    /\ want' = [want EXCEPT ![d] = SendToServer(d)]
    /\ copy' = [copy EXCEPT ![d] =
                  [n \in Names |-> IF n \in SendBack(d) THEN found[d][n] ELSE copy[d][n]]]
    /\ found' = [found EXCEPT ![d] = NoAccounts]
    /\ UNCHANGED <<store_type, storeVars, todo, adding, attempt, failures, alone>>

-----------------------------------------------------------------------------
(* upsert_accounts_for_user. *)

\* Postgres: one statement (none for an empty list).
Upsert(d) ==
    /\ Postgres /\ stage[d] = "upsert" /\ Goto(d, "touch")
    /\ stored' = Merged(d)
    /\ Wrote(d)
    /\ attempt' = [attempt EXCEPT ![d] = 1]
    /\ UNCHANGED <<store_type, listed, last_sync, copy, found, want, todo, adding, failures>>

\* The result is an error or is lost, after the statement took effect or without
\* it; the wrapper tries again or throws, and the answer is 500.
UpsertFails(d) ==
    /\ Postgres /\ stage[d] = "upsert" /\ want[d] # {}
    /\ failures < MaxFailures /\ failures' = failures + 1
    /\ alone' = [e \in Devices |-> FALSE]
    /\ stored' \in {stored, Merged(d)}
    /\ \/ PgAgain(d) /\ CountAttempt(d) /\ UNCHANGED stage
       \/ Goto(d, "idle") /\ UNCHANGED attempt
    /\ UNCHANGED <<store_type, listed, last_sync, copy, found, want, todo, adding>>

\* Redis: getConnection returned; the commands of all accounts are sent.
Pipe(d) ==
    /\ Redis /\ stage[d] = "upsert" /\ Goto(d, "piping")
    /\ todo' = [todo EXCEPT ![d] = want[d]]
    /\ UNCHANGED <<store_type, storeVars, copy, found, want, adding, attempt, failures, alone>>

\* getConnection throws: success stays true and the loop ends.
PipeThrows(d) ==
    /\ Redis /\ stage[d] = "upsert" /\ Failure(d) /\ Goto(d, "touch")
    /\ attempt' = [attempt EXCEPT ![d] = 1]
    /\ UNCHANGED <<store_type, storeVars, copy, found, want, todo, adding>>

\* Mutant: the account is set before it is listed.
ListAccount_Later(d) ==
    /\ stage[d] = "piping" /\ adding[d] = NoName
    /\ \E n \in todo[d] :
          /\ adding' = [adding EXCEPT ![d] = n]
          /\ stored' = [stored EXCEPT ![n] = copy[d][n]]
    /\ UNCHANGED <<store_type, listed, last_sync, copy, stage, found, want, todo, attempt, failures,
                   alone>>

ListAccount(d) ==
    /\ stage[d] = "piping" /\ adding[d] = NoName
    /\ \E n \in todo[d] :
          /\ adding' = [adding EXCEPT ![d] = n]
          /\ listed' = listed \cup {n}
    /\ UNCHANGED <<store_type, stored, last_sync, copy, stage, found, want, todo, attempt, failures,
                   alone>>

\* Whatever version was there is replaced.
SetAccount(d) ==
    /\ stage[d] = "piping" /\ adding[d] # NoName
    /\ stored' = [stored EXCEPT ![adding[d]] = copy[d][adding[d]]]
    /\ todo' = [todo EXCEPT ![d] = @ \ {adding[d]}]
    /\ adding' = [adding EXCEPT ![d] = NoName]
    /\ Wrote(d)
    /\ UNCHANGED <<store_type, listed, last_sync, copy, stage, found, want, attempt, failures>>

\* The server refuses the commands of an account (it is still loading, or out of
\* memory): an error reply counts as a reply.
AccountRefused(d) ==
    /\ stage[d] = "piping" /\ adding[d] = NoName /\ Failure(d)
    /\ \E n \in todo[d] : todo' = [todo EXCEPT ![d] = @ \ {n}]
    /\ UNCHANGED <<store_type, storeVars, copy, stage, found, want, adding, attempt>>

Piped(d) ==
    /\ stage[d] = "piping" /\ todo[d] = {} /\ Goto(d, "touch")
    /\ attempt' = [attempt EXCEPT ![d] = 1]
    /\ UNCHANGED <<store_type, storeVars, copy, found, want, todo, adding, failures, alone>>

\* The connection breaks before the last reply is read: everything is sent again
\* or the answer is 500.
PipeBreaks(d) ==
    /\ stage[d] = "piping" /\ want[d] # {} /\ Failure(d)
    /\ \/ RedisAgain(d) /\ CountAttempt(d) /\ Goto(d, "upsert")
       \/ ~RedisAgain(d) /\ Goto(d, "idle") /\ UNCHANGED attempt
    /\ todo' = [todo EXCEPT ![d] = {}] /\ adding' = [adding EXCEPT ![d] = NoName]
    /\ UNCHANGED <<store_type, storeVars, copy, found, want>>

-----------------------------------------------------------------------------
(* update_last_sync_for_user, and the answer 200. *)

Touch(d) ==
    /\ stage[d] = "touch" /\ Goto(d, "synced")
    /\ last_sync' = TRUE
    /\ UNCHANGED <<store_type, stored, listed, copy, roundVars, failures, alone>>

\* Again, or 500.
TouchFails(d) ==
    /\ stage[d] = "touch" /\ Failure(d)
    /\ last_sync' \in {last_sync, TRUE}
    /\ \/ /\ IF Redis THEN RedisAgain(d) ELSE PgAgain(d)
          /\ CountAttempt(d) /\ UNCHANGED stage
       \/ /\ Redis => ~RedisAgain(d)
          /\ Goto(d, "idle") /\ UNCHANGED attempt
    /\ UNCHANGED <<store_type, stored, listed, copy, found, want, todo, adding>>

\* Redis: getConnection throws, or the server refuses: the answer is 200.
TouchMissed(d) ==
    /\ Redis /\ stage[d] = "touch" /\ Failure(d) /\ Goto(d, "synced")
    /\ UNCHANGED <<store_type, storeVars, copy, roundVars>>

-----------------------------------------------------------------------------
Reads(d) == FetchNames(d) \/ FetchAccount(d) \/ FetchRefused(d) \/ FetchEnds(d) \/ FetchFails(d)
            \/ Select(d) \/ SelectFails(d)
Pipes(d) == Pipe(d) \/ PipeThrows(d) \/ ListAccount(d) \/ SetAccount(d) \/ AccountRefused(d)
            \/ Piped(d) \/ PipeBreaks(d)
Touches(d) == Touch(d) \/ TouchFails(d) \/ TouchMissed(d)

Next == \E d \in Devices :
    \/ \E n \in Names : Edit(d, n)
    \/ Initial(d) \/ Answer(d) \/ Final(d) \/ Abandon(d)
    \/ Reads(d)
    \/ Upsert(d) \/ UpsertFails(d) \/ Pipes(d)
    \/ Touches(d)

Spec == Init /\ [][Next]_vars

-----------------------------------------------------------------------------
(* Properties. *)

\* Redis: an account that is stored is in the list get_accounts_for_user reads, so
\* no pipeline, however it breaks off, leaves an account no device will ever see.
ListedFirst == Redis => \A n \in Names : stored[n] > 0 => n \in listed

\* A round that no other device's write and no failure overlapped leaves the
\* device and the store with the same versions of every account.
RoundAlone ==
    \A d \in Devices : stage[d] = "synced" /\ alone[d] => copy[d] = stored

\* After a round that was answered 200 the store has, of every account of the
\* device, its version or a newer one: whatever other devices did meanwhile and
\* whatever failed.  The rest of the round rests on a snapshot that was old when
\* the answer was made.
SyncedUp ==
    \A d \in Devices : stage[d] = "synced" => \A n \in Names : stored[n] >= copy[d][n]
PgSyncedUp == Postgres => SyncedUp

\* "no longer needed, instead use upsert with on conflict": without a lock on the
\* user, no write replaces a version by an older one.
PgNewestKept == [][Postgres => \A n \in Names : stored'[n] >= stored[n]]_vars

\* With Postgres the rounds implement last-writer-wins; of Redis nothing is claimed.
LWW == INSTANCE LastWriterWins WITH
    table <- IF Postgres THEN stored ELSE NoAccounts,
    copy <- IF Postgres THEN copy ELSE [d \in Devices |-> NoAccounts]
PgLastWriterWins == LWW!Spec

=============================================================================
