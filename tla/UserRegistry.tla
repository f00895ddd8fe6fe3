----------------------------- MODULE UserRegistry -----------------------------
(***************************************************************************)
(* The users: the map user_infos that all handlers share, the store's own  *)
(* record of them, and the data cleaner.  handle_register, handle_delete   *)
(* and handle_sync_final (sync_handler.cpp) as requests that interleave,   *)
(* on Redis (one step per command) or Postgres (one step per statement),   *)
(* with failures of the store and restarts of the process.                 *)
(*                                                                         *)
(* user_infos_lock is a member of each handler and excludes nobody: every  *)
(* access to the map is a step of its own, and a change while another      *)
(* thread is in the map may tear the tree; a torn map answers anything.    *)
(* A user has one account, which stands for all of them; AccountSync has   *)
(* their versions.  The connection pools are in RedisPool and PgPool.      *)
(***************************************************************************)
EXTENDS Integers, FiniteSets

CONSTANTS
    Users, NoUser,
    Passwords, NoPassword,
    Threads,        \* service threads
    Cleaner,        \* the data cleaner thread
    StoreTypes,     \* the store types considered: redis, postgres
    MaxAttempts,    \* REDIS_MAX_ATTEMPS
    PgAttempts,     \* tries of PQexec_wrapper and PQexecPrepared_wrapper
    MaxFailures     \* bound: failures of the store

ASSUME RegistryAssumption ==
    /\ NoUser \notin Users /\ NoPassword \notin Passwords
    /\ "unknown" \notin Passwords \cup {NoPassword}
    /\ Cleaner \notin Threads
    /\ StoreTypes \subseteq {"redis", "postgres"}
    /\ MaxAttempts \in Nat \ {0} /\ PgAttempts \in Nat \ {0} /\ MaxFailures \in Nat

VARIABLES
    store_type,     \* from the configuration, fixed
    loaded,         \* onceFlag: the map was filled from the store
    user_infos,     \* the password of each user in the map
    torn,           \* the map was changed by two threads at once
    store,          \* what the store has of each user
    step, op, user, password, attempt,
    seen,           \* an account name was read, to be deleted
    unread, old,    \* the cleaner's users: last sync not read yet; to be cleaned
    clean,          \* history: nothing disturbed this request (see Disturbs, Refused)
    failures,
    promise,        \* history: the last answer to register or delete: the password it
                    \* says the user has now, and whether AnswersKept excuses it
    safe,           \* history: users answered 200 to a sync, recently
    doubtMap,       \* history: users of whom map and store may disagree (see Agree)
    doubtStore      \* history: users whose rows in the store may be half done (see Whole)

requestVars == <<step, op, user, password, attempt, seen, clean>>
cleanerVars == <<unread, old>>
historyVars == <<promise, safe, doubtMap, doubtStore>>
vars == <<store_type, loaded, user_infos, torn, store, requestVars, cleanerVars, failures,
          historyVars>>

Procs == Threads \cup {Cleaner}
Known == Passwords \cup {NoPassword}
Ages == {"old", "recent"}
Rows == [password : Known, last_sync : Ages \cup {"none"}, listed : BOOLEAN,
         account : Ages \cup {"none"}]
NoRow == [password |-> NoPassword, last_sync |-> "none", listed |-> FALSE, account |-> "none"]

Answers == [word : Known \cup {"unknown"}, excused : BOOLEAN]

MapSteps == {"check", "insert", "erase", "count", "compare", "lookup", "forget"}
Commands == {"CREATEUSER", "SETLASTSYNC", "CLEARLIST", "GETACCOUNTS", "DELACCOUNT",
             "DELACCOUNTLIST", "DELUSER", "DELUSERSYNC", "ADDTOACCOUNTS", "SETACCOUNT", "TOUCH"}
UserCommands == {"CREATEUSER", "DELUSER"}     \* who is registered
Statements == {"INSERT", "DELETE", "UPSERT", "UPDATE"}
Steps == {"idle", "registered", "synced", "read", "next"} \cup MapSteps \cup Commands
         \cup Statements

TypeOK ==
    /\ store_type \in StoreTypes
    /\ loaded \in BOOLEAN /\ torn \in BOOLEAN
    /\ user_infos \in [Users -> Known]
    /\ store \in [Users -> Rows]
    /\ step \in [Procs -> Steps]
    /\ op \in [Procs -> {"none", "register", "delete", "sync", "clean"}]
    /\ user \in [Procs -> Users \cup {NoUser}] /\ password \in [Procs -> Known]
    /\ attempt \in [Procs -> Nat] /\ seen \in [Procs -> BOOLEAN]
    /\ unread \subseteq Users /\ old \subseteq Users
    /\ failures \in Nat
    /\ clean \in [Procs -> BOOLEAN]
    /\ promise \in [Users -> Answers]
    /\ safe \subseteq Users /\ doubtMap \subseteq Users /\ doubtStore \subseteq Users

Redis == store_type = "redis"
Postgres == store_type = "postgres"

Nobody == [u \in Users |-> NoPassword]

\* No answer binds the store: a request is on its way to change the user.
Open == [word |-> "unknown", excused |-> FALSE]

Init ==
    /\ store_type \in StoreTypes
    /\ loaded = FALSE /\ user_infos = Nobody /\ torn = FALSE
    /\ store = [u \in Users |-> NoRow]
    /\ step = [p \in Procs |-> "idle"] /\ op = [p \in Procs |-> "none"]
    /\ user = [p \in Procs |-> NoUser] /\ password = [p \in Procs |-> NoPassword]
    /\ attempt = [p \in Procs |-> 1] /\ seen = [p \in Procs |-> FALSE]
    /\ unread = {} /\ old = {} /\ failures = 0
    /\ clean = [p \in Procs |-> TRUE]
    /\ promise = [u \in Users |-> Open] /\ safe = {} /\ doubtMap = {} /\ doubtStore = {}

-----------------------------------------------------------------------------
(* Helpers. *)

Goto(p, s) == step' = [step EXCEPT ![p] = s]

\* The request is answered and forgotten; of the cleaner: the pass is over.
Ends(p) ==
    /\ Goto(p, "idle")
    /\ op' = [op EXCEPT ![p] = "none"]
    /\ user' = [user EXCEPT ![p] = NoUser] /\ password' = [password EXCEPT ![p] = NoPassword]
    /\ attempt' = [attempt EXCEPT ![p] = 1] /\ seen' = [seen EXCEPT ![p] = FALSE]
    /\ clean' = [clean EXCEPT ![p] = TRUE]

Goes(p, s) == Goto(p, s) /\ UNCHANGED <<op, user, password, attempt, seen, clean>>

\* Requests that change who is registered.
Registering == {"register", "delete"}

\* p works on u; the cleaner on every user, from its first command on.
On(p, u) == user[p] = u \/ op[p] = "clean"

\* Whether a request of kind other disturbs one of kind o: two changes of who is
\* registered do, and anything but a sync disturbs a sync.
Disturbs(other, o) ==
    IF o \in Registering THEN other \in Registering ELSE o = "sync" /\ other # "sync"

\* History of a request of kind o on u that p begins.
Overlap(p, o, u) ==
    LET others == {q \in Procs \ {p} : On(q, u)}
    IN  /\ clean' = [q \in Procs |-> IF q = p THEN \A r \in others : ~Disturbs(op[r], o)
                                     ELSE clean[q] /\ ~(q \in others /\ Disturbs(o, op[q]))]
        /\ doubtMap' = IF o \in Registering /\ \E q \in others : op[q] \in Registering
                       THEN doubtMap \cup {u} ELSE doubtMap
        /\ doubtStore' = IF \E q \in others : {o, op[q]} # {"sync"}
                         THEN doubtStore \cup {u} ELSE doubtStore

Fails == failures < MaxFailures /\ failures' = failures + 1

Busy(u) == \E t \in Threads : user[t] = u

-----------------------------------------------------------------------------
(* The map. *)

\* What a search for u finds.
Found(u) == IF torn THEN Known ELSE {user_infos[u]}

\* Another thread is in the map.
Race(t) == \E o \in Threads \ {t} : step[o] \in MapSteps

Tear == torn' = TRUE /\ user_infos' = Nobody

Write(t, value) ==
    \/ /\ ~torn
       /\ user_infos' = [user_infos EXCEPT ![user[t]] = value] /\ torn' = FALSE
    \/ (torn \/ Race(t)) /\ Tear

\* History: t acts on what a torn map says of its user.
Doubts(t) == doubtStore' = IF torn THEN doubtStore \cup {user[t]} ELSE doubtStore

-----------------------------------------------------------------------------
(* The requests. *)

Request(t, o, u, p) ==
    /\ loaded /\ t \in Threads /\ step[t] = "idle"
    /\ Goto(t, IF o = "register" THEN "check" ELSE "count")
    /\ op' = [op EXCEPT ![t] = o]
    /\ user' = [user EXCEPT ![t] = u] /\ password' = [password EXCEPT ![t] = p]
    /\ Overlap(t, o, u)
    /\ UNCHANGED <<store_type, loaded, user_infos, torn, store, attempt, seen, cleanerVars,
                   failures, promise, safe>>

\* user_infos.count(email) < 1, or 500.
Check(t) ==
    /\ step[t] = "check"
    /\ \E found \in Found(user[t]) :
          IF found = NoPassword THEN Goes(t, "insert") ELSE Ends(t)
    /\ Doubts(t)
    /\ UNCHANGED <<store_type, loaded, user_infos, torn, store, cleanerVars, failures,
                   promise, safe, doubtMap>>

\* The user is put into the map, then the store is asked.
Insert(t) ==
    /\ step[t] = "insert"
    /\ Write(t, password[t])
    /\ Goes(t, IF Redis THEN "CREATEUSER" ELSE "INSERT")
    /\ promise' = [promise EXCEPT ![user[t]] = Open]
    /\ safe' = safe \ {user[t]}
    /\ UNCHANGED <<store_type, loaded, store, cleanerVars, failures, doubtMap, doubtStore>>

\* 200.
Registered(t) ==
    /\ step[t] = "registered"
    /\ Ends(t)
    /\ promise' = [promise EXCEPT ![user[t]] = [word |-> password[t], excused |-> ~clean[t]]]
    /\ UNCHANGED <<store_type, loaded, user_infos, torn, store, cleanerVars, failures,
                   safe, doubtMap, doubtStore>>

\* Mutant: the entry of a user the store did not take stays.
Erase_Kept(t) ==
    /\ step[t] = "erase"
    /\ Ends(t)
    /\ UNCHANGED <<store_type, loaded, user_infos, torn, store, cleanerVars, failures,
                   historyVars>>

\* createUser returned false: 500.
Erase(t) ==
    /\ step[t] = "erase"
    /\ Write(t, NoPassword)
    /\ Ends(t)
    /\ UNCHANGED <<store_type, loaded, store, cleanerVars, failures, historyVars>>

\* verify_password, first look; 403 if there is no such user.
Count(t) ==
    /\ step[t] = "count"
    /\ \E found \in Found(user[t]) :
          IF found = NoPassword THEN Ends(t) ELSE Goes(t, "compare")
    /\ UNCHANGED <<store_type, loaded, user_infos, torn, store, cleanerVars, failures,
                   historyVars>>

\* Second look, by operator[]: if the user has gone meanwhile it makes an entry
\* of uninitialised pointers, and the comparison reads through them.
Compare(t) ==
    /\ step[t] = "compare"
    /\ \E found \in Found(user[t]) :
          /\ \/ /\ found = password[t]
                /\ Goes(t, IF op[t] = "delete" THEN "lookup"
                           ELSE IF Redis THEN "ADDTOACCOUNTS" ELSE "UPSERT")
             \/ found # password[t] /\ Ends(t)
          /\ IF found = NoPassword THEN Tear ELSE UNCHANGED <<user_infos, torn>>
    /\ Doubts(t)
    /\ UNCHANGED <<store_type, loaded, store, cleanerVars, failures, promise, safe, doubtMap>>

\* Third look: a reference to the user is handed to store->delete_user.  (If another
\* request then frees the entry, the model goes on with the name it had.)
Lookup(t) ==
    /\ step[t] = "lookup"
    /\ \E found \in Found(user[t]) :
          \/ /\ found # NoPassword
             /\ Goes(t, IF Redis THEN "GETACCOUNTS" ELSE "DELETE")
             /\ UNCHANGED <<user_infos, torn>>
          \/ /\ found = NoPassword /\ Tear
             /\ Ends(t) \/ Goes(t, IF Redis THEN "GETACCOUNTS" ELSE "DELETE")
    /\ promise' = [promise EXCEPT ![user[t]] = Open]
    /\ safe' = safe \ {user[t]}
    /\ UNCHANGED <<store_type, loaded, store, cleanerVars, failures, doubtMap, doubtStore>>

\* The user is gone from the store, and now from the map: 200.  If it was not
\* in the map any more, pointers of a new empty entry are freed.
Forget(t) ==
    /\ step[t] = "forget"
    /\ \E found \in Found(user[t]) :
          IF found = NoPassword THEN Tear ELSE Write(t, NoPassword)
    /\ Ends(t)
    /\ promise' = [promise EXCEPT ![user[t]] = [word |-> NoPassword, excused |-> ~clean[t]]]
    /\ UNCHANGED <<store_type, loaded, store, cleanerVars, failures, safe, doubtMap,
                   doubtStore>>

\* A sync_final is answered 200.
Synced(t) ==
    /\ step[t] = "synced"
    /\ Ends(t)
    /\ safe' = safe \cup {u \in {user[t]} : clean[t]}
    /\ UNCHANGED <<store_type, loaded, user_infos, torn, store, cleanerVars, failures,
                   promise, doubtMap, doubtStore>>

Handlers(t) ==
    \/ Check(t) \/ Insert(t) \/ Registered(t) \/ Erase(t) \/ Count(t) \/ Compare(t)
    \/ Lookup(t) \/ Forget(t) \/ Synced(t)

-----------------------------------------------------------------------------
(* Redis: the commands of createUser, delete_user, upsert_accounts_for_user, *)
(* update_last_sync_for_user and, of the cleaner, deleteOldUsers.            *)

\* What the command of p leaves of the user's rows.  A new user's last sync is 1,
\* which is old.
Applied(p) ==
    LET row == store[user[p]] IN
    CASE step[p] = "CREATEUSER" -> [row EXCEPT !.password = password[p]]
      [] step[p] = "SETLASTSYNC" -> [row EXCEPT !.last_sync = "old"]
      [] step[p] \in {"CLEARLIST", "DELACCOUNTLIST"} -> [row EXCEPT !.listed = FALSE]
      [] step[p] = "DELACCOUNT" -> IF seen[p] THEN [row EXCEPT !.account = "none"] ELSE row
      [] step[p] = "DELUSER" -> [row EXCEPT !.password = NoPassword]
      [] step[p] = "DELUSERSYNC" -> [row EXCEPT !.last_sync = "none"]
      [] step[p] = "ADDTOACCOUNTS" -> [row EXCEPT !.listed = TRUE]
      [] step[p] = "SETACCOUNT" -> [row EXCEPT !.account = "recent"]
      [] step[p] = "TOUCH" -> [row EXCEPT !.last_sync = "recent"]
      [] OTHER -> row

\* Mutant: the list goes first, and with it the names a retry has to delete.
Following_ListFirst(p) ==
    CASE step[p] = "CREATEUSER" -> "SETLASTSYNC"
      [] step[p] = "SETLASTSYNC" -> "CLEARLIST"
      [] step[p] = "CLEARLIST" -> "registered"
      [] step[p] = "GETACCOUNTS" -> "DELACCOUNTLIST"
      [] step[p] = "DELACCOUNTLIST" -> "DELACCOUNT"
      [] step[p] = "DELACCOUNT" -> IF op[p] = "clean" THEN "next" ELSE "DELUSER"
      [] step[p] = "DELUSER" -> "DELUSERSYNC"
      [] step[p] = "DELUSERSYNC" -> "forget"
      [] step[p] = "ADDTOACCOUNTS" -> "SETACCOUNT"
      [] step[p] = "SETACCOUNT" -> "TOUCH"
      [] OTHER -> "synced"

\* The command after it, or how the request goes on.
Following(p) ==
    CASE step[p] = "CREATEUSER" -> "SETLASTSYNC"
      [] step[p] = "SETLASTSYNC" -> "CLEARLIST"
      [] step[p] = "CLEARLIST" -> "registered"
      [] step[p] = "GETACCOUNTS" -> "DELACCOUNT"
      [] step[p] = "DELACCOUNT" -> "DELACCOUNTLIST"
      [] step[p] = "DELACCOUNTLIST" -> IF op[p] = "clean" THEN "next" ELSE "DELUSER"
      [] step[p] = "DELUSER" -> "DELUSERSYNC"
      [] step[p] = "DELUSERSYNC" -> "forget"
      [] step[p] = "ADDTOACCOUNTS" -> "SETACCOUNT"
      [] step[p] = "SETACCOUNT" -> "TOUCH"
      [] OTHER -> "synced"

Apply(p, row) == store' = [store EXCEPT ![user[p]] = row]

\* get_accounts_for_user, which the cleaner calls: HKEYS, and HGETALL of each account.
Nested(p) == op[p] = "clean" /\ step[p] = "GETACCOUNTS"

\* The names that p has read: the cleaner's only if there is such an account.
Sees(p) ==
    /\ step[p] = "GETACCOUNTS" /\ store[user[p]].listed
    /\ Nested(p) => store[user[p]].account # "none"

\* The command is executed; HKEYS also returns what there is to delete.
Command(p) ==
    /\ step[p] \in Commands
    /\ Apply(p, Applied(p))
    /\ Goto(p, Following(p))
    /\ seen' = [seen EXCEPT ![p] = Sees(p)]
    /\ UNCHANGED <<store_type, loaded, user_infos, torn, op, user, password, attempt,
                   clean, cleanerVars, failures, historyVars>>

\* The server answers an error, and the pipeline counts it as a success (HKEYS does
\* not): a registration or deletion goes on, and is answered 200, though the store
\* did not take the user or still has it; so does a sync.
Refused(p) ==
    /\ step[p] \in Commands \ {"GETACCOUNTS"}
    /\ Fails
    /\ Goto(p, Following(p))
    /\ clean' = [clean EXCEPT ![p] = @ /\ op[p] # "sync" /\ step[p] \notin UserCommands]
    /\ doubtMap' = doubtMap \cup {u \in {user[p]} : step[p] \in UserCommands}
    /\ doubtStore' = doubtStore \cup {user[p]}
    /\ UNCHANGED <<store_type, loaded, user_infos, torn, store, op, user, password, attempt, seen,
                   cleanerVars, promise, safe>>

\* createUser gives up one attempt before the others.
Tries(p) == IF op[p] = "register" THEN MaxAttempts ELSE MaxAttempts + 1

\* Where the loop of the store's operation starts again.
FirstCommand(p) ==
    CASE op[p] = "register" -> "CREATEUSER"
      [] op[p] = "delete" -> "GETACCOUNTS"
      [] op[p] = "clean" -> "read"
      [] OTHER -> IF step[p] = "TOUCH" THEN "TOUCH" ELSE "ADDTOACCOUNTS"

\* Mutant: the exception handler of createUser leaves success as it is.
GivesUp_Success(p) == IF op[p] = "register" THEN Goes(p, "registered") ELSE Ends(p)

\* createUser returned false: the entry is taken back; the others answer 500.
GivesUp(p) == IF op[p] = "register" THEN Goes(p, "erase") ELSE Ends(p)

\* A registration or deletion that gives up has changed who is registered.
HalfDone(p, row) ==
    op[p] \in Registering /\ (op[p] = "register") = (row.password # NoPassword)

\* The connection breaks, before or after the command was executed, or HKEYS of
\* delete_user is refused: the operation starts over, or gives up.
Breaks(p) ==
    /\ step[p] \in Commands /\ ~Nested(p)
    /\ Fails
    /\ Apply(p, store[user[p]]) \/ Apply(p, Applied(p))
    /\ IF attempt[p] < Tries(p)
       THEN /\ Goto(p, FirstCommand(p))
            /\ attempt' = [attempt EXCEPT ![p] = @ + 1]
            /\ IF op[p] = "clean"
               THEN /\ user' = [user EXCEPT ![p] = NoUser]
                    /\ unread' = {u \in Users : store'[u].password # NoPassword} /\ old' = {}
               ELSE UNCHANGED <<user, cleanerVars>>
            /\ doubtStore' = doubtStore \cup {u \in {user[p]} : op[p] = "clean"}
            /\ UNCHANGED <<op, password, seen, clean, doubtMap>>
       ELSE /\ GivesUp(p)
            /\ unread' = IF p = Cleaner THEN {} ELSE unread
            /\ old' = IF p = Cleaner THEN {} ELSE old
            /\ doubtMap' = doubtMap \cup {u \in {user[p]} : HalfDone(p, store'[u])}
            /\ doubtStore' = doubtStore \cup {user[p]}
    /\ UNCHANGED <<store_type, loaded, user_infos, torn, promise, safe>>

\* A sync for which no connection can be had goes on as if it had stored
\* something (SyncFalseAck); an attempt before may have stored half of it.
Unsent(t) ==
    /\ step[t] \in {"ADDTOACCOUNTS", "TOUCH"}
    /\ Fails
    /\ Goto(t, IF step[t] = "TOUCH" THEN "synced" ELSE "TOUCH")
    /\ clean' = [clean EXCEPT ![t] = FALSE]
    /\ doubtStore' = doubtStore \cup {user[t]}
    /\ UNCHANGED <<store_type, loaded, user_infos, torn, store, op, user, password, attempt, seen,
                   cleanerVars, promise, safe, doubtMap>>

\* get_accounts_for_user does not tell its caller that it failed, with every try, nor
\* that it skipped an account whose HGETALL was refused: the cleaner deletes the list
\* with the names of accounts that stay.  (A try that a later one makes up for
\* changes nothing; one failure stands for all the tries.)
Swallowed(p) ==
    /\ Nested(p)
    /\ Fails
    /\ Goto(p, Following(p))
    /\ seen' = [seen EXCEPT ![p] = FALSE]
    /\ doubtStore' = doubtStore \cup {user[p]}
    /\ UNCHANGED <<store_type, loaded, user_infos, torn, store, op, user, password, attempt, clean,
                   cleanerVars, promise, safe, doubtMap>>

RedisStep(p) == Command(p) \/ Refused(p) \/ Breaks(p) \/ Unsent(p) \/ Swallowed(p)

-----------------------------------------------------------------------------
(* Postgres: one statement each. *)

\* The possible rows after p's statement.  Whether deleting a user deletes its
\* accounts is up to the schema, which is not in the repository.
Results(p) ==
    LET row == store[user[p]]
        gone == [row EXCEPT !.password = NoPassword, !.last_sync = "none"]
    IN  CASE step[p] = "INSERT" -> {[row EXCEPT !.password = password[p], !.last_sync = "old"]}
          [] step[p] = "DELETE" -> {gone, [gone EXCEPT !.account = "none"]}
          [] step[p] = "UPSERT" -> {[row EXCEPT !.account = a] :
                                      a \in {b \in Ages : row.account = "recent" => b = "recent"}}
          [] OTHER -> {IF row.password = NoPassword THEN row
                       ELSE [row EXCEPT !.last_sync = "recent"]}

\* The name of a user is the key of its row.
Duplicate(p) == step[p] = "INSERT" /\ store[user[p]].password # NoPassword

Answered(p) ==
    CASE step[p] = "INSERT" -> "registered"
      [] step[p] = "DELETE" -> "forget"
      [] step[p] = "UPSERT" -> "UPDATE"
      [] OTHER -> "synced"

Execute(t) ==
    /\ step[t] \in Statements /\ ~Duplicate(t)
    /\ \E row \in Results(t) : Apply(t, row)
    /\ Goto(t, Answered(t))
    /\ attempt' = [attempt EXCEPT ![t] = 1]
    /\ UNCHANGED <<store_type, loaded, user_infos, torn, op, user, password, seen, clean,
                   cleanerVars, failures, historyVars>>

\* The wrapper tries again, and then throws: 500, whatever is in the map, which
\* still has the user of a registration or deletion.
SqlFails(t) ==
    IF attempt[t] < PgAttempts
    THEN /\ attempt' = [attempt EXCEPT ![t] = @ + 1]
         /\ UNCHANGED <<step, op, user, password, seen, clean, doubtMap, doubtStore>>
    ELSE /\ Ends(t)
         /\ doubtMap' = doubtMap \cup {u \in {user[t]} : /\ op[t] \in Registering
                                                         /\ store'[u].password = NoPassword}
         /\ doubtStore' = doubtStore \cup {user[t]}

Rejected(t) ==
    /\ Duplicate(t)
    /\ UNCHANGED <<store_type, loaded, user_infos, torn, store, cleanerVars, failures,
                   promise, safe>>
    /\ SqlFails(t)

\* The statement fails, or its result is lost.  (The text of an INSERT's last
\* sync is read after it was freed: it may be no number.)
Lost(t) ==
    /\ step[t] \in Statements
    /\ Fails
    /\ \/ store' = store
       \/ ~Duplicate(t) /\ \E row \in Results(t) : Apply(t, row)
    /\ SqlFails(t)
    /\ UNCHANGED <<store_type, loaded, user_infos, torn, cleanerVars, promise, safe>>

\* The cleaner deletes accounts that are old, whenever their user last synced.
DeleteOld ==
    /\ Postgres /\ loaded
    /\ store' = [u \in Users |-> IF store[u].account = "old"
                                 THEN [store[u] EXCEPT !.account = "none"] ELSE store[u]]
    /\ UNCHANGED <<store_type, loaded, user_infos, torn, requestVars, cleanerVars, failures,
                   historyVars>>

SqlStep(t) == Execute(t) \/ Rejected(t) \/ Lost(t)

-----------------------------------------------------------------------------
(* The process, its start, and the passing of time. *)

\* The first handler fills the map.  Redis is asked until it answers; Postgres
\* once, and a failure leaves the map empty.
Load ==
    /\ ~loaded /\ loaded' = TRUE
    /\ \/ /\ Redis => \A u \in Users : store[u].password # NoPassword
                                       => store[u].last_sync # "none"
          /\ user_infos' = [u \in Users |-> store[u].password]
          /\ doubtMap' = {} /\ UNCHANGED failures
       \/ /\ Postgres /\ Fails
          /\ user_infos' = Nobody /\ doubtMap' = Users
    /\ UNCHANGED <<store_type, torn, store, requestVars, cleanerVars, promise, safe,
                   doubtStore>>

\* The process dies, with every request, and is started again.
Dies ==
    /\ loaded' = FALSE /\ user_infos' = Nobody /\ torn' = FALSE
    /\ step' = [p \in Procs |-> "idle"] /\ op' = [p \in Procs |-> "none"]
    /\ user' = [p \in Procs |-> NoUser] /\ password' = [p \in Procs |-> NoPassword]
    /\ attempt' = [p \in Procs |-> 1] /\ seen' = [p \in Procs |-> FALSE]
    /\ clean' = [p \in Procs |-> TRUE]
    /\ unread' = {} /\ old' = {}
    /\ doubtStore' = doubtStore \cup {u \in Users : Busy(u) \/ On(Cleaner, u)}
    /\ UNCHANGED <<store_type, store, failures, promise, safe, doubtMap>>

Crash == loaded /\ Dies

\* Days pass between two passes of the cleaner, and requests are short.
Age ==
    /\ \A p \in Procs : step[p] = "idle"
    /\ store' = [u \in Users |->
          [store[u] EXCEPT !.last_sync = IF @ = "recent" THEN "old" ELSE @,
                           !.account = IF Postgres /\ @ = "recent" THEN "old" ELSE @]]
    /\ safe' = {}
    /\ UNCHANGED <<store_type, loaded, user_infos, torn, requestVars, cleanerVars, failures,
                   promise, doubtMap, doubtStore>>

-----------------------------------------------------------------------------
(* deleteOldUsers of RedisStore. *)

\* HGETALL USERS.
CleanerStarts ==
    /\ Redis /\ loaded /\ step[Cleaner] = "idle"
    /\ Goto(Cleaner, "read") /\ op' = [op EXCEPT ![Cleaner] = "clean"]
    /\ unread' = {u \in Users : store[u].password # NoPassword} /\ old' = {}
    /\ clean' = [p \in Procs |-> clean[p] /\ op[p] # "sync"]
    /\ doubtStore' = doubtStore \cup {u \in Users : Busy(u)}
    /\ UNCHANGED <<store_type, loaded, user_infos, torn, store, user, password, attempt, seen,
                   failures, promise, safe, doubtMap>>

\* GET lastSync of a user: if there is none, the process dies of a null pointer.
ReadsLastSync(u) ==
    /\ step[Cleaner] = "read" /\ u \in unread
    /\ \/ store[u].last_sync = "none" /\ Dies
       \/ /\ store[u].last_sync # "none"
          /\ unread' = unread \ {u}
          /\ old' = IF store[u].last_sync = "old" THEN old \cup {u} ELSE old
          /\ UNCHANGED <<store_type, loaded, user_infos, torn, store, requestVars, failures,
                         historyVars>>

\* A failure ends the list; what is on it is cleaned.
ReadsNext ==
    /\ step[Cleaner] = "read"
    /\ \/ unread = {} /\ UNCHANGED failures
       \/ unread # {} /\ Fails
    /\ unread' = {}
    /\ Goes(Cleaner, "next")
    /\ UNCHANGED <<store_type, loaded, user_infos, torn, store, old, historyVars>>

\* No connection for the commands: nothing was deleted yet, and the pass is begun
\* anew or given up.
Unconnected ==
    /\ step[Cleaner] = "read" /\ Fails
    /\ old' = {}
    /\ IF attempt[Cleaner] < Tries(Cleaner)
       THEN /\ unread' = {u \in Users : store[u].password # NoPassword}
            /\ attempt' = [attempt EXCEPT ![Cleaner] = @ + 1]
            /\ UNCHANGED <<step, op, user, password, seen, clean>>
       ELSE unread' = {} /\ Ends(Cleaner)
    /\ UNCHANGED <<store_type, loaded, user_infos, torn, store, historyVars>>

\* Mutant: every user, whenever it last synced.
CleansUser_Any(u) ==
    /\ step[Cleaner] = "next" /\ store[u].password # NoPassword
    /\ old' = old \ {u}
    /\ Goto(Cleaner, "GETACCOUNTS") /\ user' = [user EXCEPT ![Cleaner] = u]
    /\ UNCHANGED <<store_type, loaded, user_infos, torn, store, op, password, attempt, seen,
                   clean, unread, failures, historyVars>>

CleansUser(u) ==
    /\ step[Cleaner] = "next" /\ u \in old
    /\ old' = old \ {u}
    /\ Goto(Cleaner, "GETACCOUNTS") /\ user' = [user EXCEPT ![Cleaner] = u]
    /\ UNCHANGED <<store_type, loaded, user_infos, torn, store, op, password, attempt, seen,
                   clean, unread, failures, historyVars>>

CleanerEnds ==
    /\ step[Cleaner] = "next" /\ old = {}
    /\ Ends(Cleaner)
    /\ UNCHANGED <<store_type, loaded, user_infos, torn, store, cleanerVars, failures,
                   historyVars>>

DataCleaner ==
    \/ CleanerStarts \/ ReadsNext \/ Unconnected \/ CleanerEnds \/ DeleteOld
    \/ \E u \in Users : ReadsLastSync(u) \/ CleansUser(u)

-----------------------------------------------------------------------------
Next ==
    \/ \E t \in Threads :
          \/ \E o \in Registering \cup {"sync"}, u \in Users, p \in Passwords : Request(t, o, u, p)
          \/ Handlers(t) \/ SqlStep(t)
    \/ \E p \in Procs : RedisStep(p)
    \/ DataCleaner \/ Load \/ Crash \/ Age

Spec == Init /\ [][Next]_vars

-----------------------------------------------------------------------------
(* Properties. *)

\* The map is the store's table of users, for every user of whom no request is
\* under way, unless two requests to register or delete that user overlapped, one
\* of them gave up half done, one of them had its CREATEUSER or DELUSER answered by
\* an error (which counts as done, RedisStore.cpp:577), or the map was loaded in
\* vain; and a restart that loads the map heals it.
Agree ==
    loaded /\ ~torn =>
        \A u \in Users : Busy(u) \/ u \in doubtMap \/ user_infos[u] = store[u].password

\* 200 to register or delete is true of the store, through retries, the cleaner,
\* restarts, and failures of this and other requests, until the next request to
\* change it reaches the store.  Excused are just the answers to a request that
\* overlapped another to register or delete that user, or whose CREATEUSER or DELUSER
\* was answered by an error: Redis then does not have what 200 says.
AnswersKept ==
    \A u \in Users : promise[u].excused \/ promise[u].word \in {"unknown", store[u].password}

\* With Redis, what is stored of a user is all there or all gone: a registered
\* user has a last sync time (without it the server cannot start again), and
\* accounts that are listed; of a deleted one nothing is left.  Retries of the
\* store's operations keep it so.  It may be lost for a user (doubtStore)
\*   - one of whose requests gave up, or had a command refused or not sent,
\*   - of whom two requests overlapped that were not both syncs, or a request and a
\*     pass of the cleaner,
\*   - on whom a pass of the cleaner was broken off, by the store or with the process,
\*     or whose accounts the cleaner could not read (it deletes the list all the same),
\*   - who had a request under way when the process died,
\*   - or whose request acted on the word of a torn map.
Whole ==
    Redis => \A u \in Users :
        \/ u \in doubtStore \/ Busy(u) \/ On(Cleaner, u)
        \/ store[u] = NoRow
        \/ /\ store[u].password # NoPassword /\ store[u].last_sync # "none"
           /\ store[u].listed <=> store[u].account # "none"

\* With Redis, the cleaner leaves the accounts of a user who has synced recently, if
\* all commands of that sync were executed and it overlapped no pass of the cleaner
\* and no registration or deletion of the user.
CleanerSpares ==
    Redis => \A u \in safe : store[u].listed /\ store[u].account # "none"

=============================================================================
