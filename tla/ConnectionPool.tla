---------------------------- MODULE ConnectionPool ----------------------------
(***************************************************************************)
(* What both stores' pools promise of their connections: one is opened by  *)
(* the user that is to have it, and goes from there into the pool and from *)
(* the pool to a user; only who has it may close it, the user itself or,   *)
(* of the ones nobody has, the manager, who first takes them away from the *)
(* pool.  Nothing is said of counting, waiting or testing.                 *)
(***************************************************************************)
CONSTANTS Conns, Users, Nothing

VARIABLES
    open,       \* the connections there are
    idle,       \* those anybody may be lent
    lent,       \* the one each user has, or Nothing
    retired     \* those that are to be closed

poolVars == <<open, idle, lent, retired>>

Init ==
    /\ open \subseteq Conns /\ idle = open
    /\ lent = [u \in Users |-> Nothing] /\ retired = {}

Open(u, c) ==
    /\ lent[u] = Nothing /\ c \notin open
    /\ open' = open \cup {c}
    /\ lent' = [lent EXCEPT ![u] = c]
    /\ UNCHANGED <<idle, retired>>

Lend(u, c) ==
    /\ lent[u] = Nothing /\ c \in idle
    /\ idle' = idle \ {c}
    /\ lent' = [lent EXCEPT ![u] = c]
    /\ UNCHANGED <<open, retired>>

GiveBack(u) ==
    /\ lent[u] # Nothing
    /\ idle' = idle \cup {lent[u]}
    /\ lent' = [lent EXCEPT ![u] = Nothing]
    /\ UNCHANGED <<open, retired>>

\* It is broken.
Discard(u) ==
    /\ lent[u] # Nothing
    /\ open' = open \ {lent[u]}
    /\ lent' = [lent EXCEPT ![u] = Nothing]
    /\ UNCHANGED <<idle, retired>>

Retire(cs) ==
    /\ cs # {} /\ cs \subseteq idle /\ retired = {}
    /\ idle' = idle \ cs /\ retired' = cs
    /\ UNCHANGED <<open, lent>>

CloseRetired ==
    /\ open' = open \ retired /\ retired' = {}
    /\ UNCHANGED <<idle, lent>>

Next ==
    \/ \E u \in Users :
          \/ \E c \in Conns : Open(u, c) \/ Lend(u, c)
          \/ GiveBack(u) \/ Discard(u)
    \/ \E cs \in SUBSET idle : Retire(cs)
    \/ CloseRetired

Spec == Init /\ [][Next]_poolVars

=============================================================================
