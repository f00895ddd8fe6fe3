------------------------------ MODULE Connections ------------------------------
(***************************************************************************)
(* What the network front end promises of the connections it accepted: no  *)
(* more than a limit, and each at any time with exactly one of those that  *)
(* may work on it.  The main thread watches it, or it waits in the queue,  *)
(* or one service thread serves it, until one of the two closes it; it is  *)
(* never forgotten.  How they hand it over is not said: no flag, no copy   *)
(* of a descriptor set, no counter and no pipe.                            *)
(***************************************************************************)
EXTENDS Integers, FiniteSets

CONSTANTS Conns, Servers, Nobody, Limit

VARIABLES
    open,       \* the connections there are
    watched,    \* those the main thread has
    waiting,    \* those a service thread is to have
    serving     \* the one each service thread has, or Nobody

connVars == <<open, watched, waiting, serving>>

Init ==
    /\ open = {} /\ watched = {} /\ waiting = {}
    /\ serving = [s \in Servers |-> Nobody]

Admit(c) ==
    /\ c \notin open /\ Cardinality(open) < Limit
    /\ open' = open \cup {c} /\ waiting' = waiting \cup {c}
    /\ UNCHANGED <<watched, serving>>

\* The client has sent something.
HandOver(c) ==
    /\ c \in watched
    /\ watched' = watched \ {c} /\ waiting' = waiting \cup {c}
    /\ UNCHANGED <<open, serving>>

\* It has left.
HangUp(c) ==
    /\ c \in watched
    /\ open' = open \ {c} /\ watched' = watched \ {c}
    /\ UNCHANGED <<waiting, serving>>

Begin(s, c) ==
    /\ serving[s] = Nobody /\ c \in waiting
    /\ waiting' = waiting \ {c}
    /\ serving' = [serving EXCEPT ![s] = c]
    /\ UNCHANGED <<open, watched>>

GiveBack(s) ==
    /\ serving[s] # Nobody
    /\ watched' = watched \cup {serving[s]}
    /\ serving' = [serving EXCEPT ![s] = Nobody]
    /\ UNCHANGED <<open, waiting>>

Close(s) ==
    /\ serving[s] # Nobody
    /\ open' = open \ {serving[s]}
    /\ serving' = [serving EXCEPT ![s] = Nobody]
    /\ UNCHANGED <<watched, waiting>>

Next ==
    \/ \E c \in Conns : Admit(c) \/ HandOver(c) \/ HangUp(c)
    \/ \E s \in Servers : GiveBack(s) \/ Close(s) \/ \E c \in Conns : Begin(s, c)

Spec == Init /\ [][Next]_connVars

-----------------------------------------------------------------------------
(* What follows from it. *)

Served == {serving[s] : s \in Servers} \ {Nobody}

\* No connection is in two places or in none, no thread shares one with another,
\* and the limit is kept.
OnePlace ==
    /\ open = watched \cup waiting \cup Served
    /\ watched \cap waiting = {} /\ watched \cap Served = {} /\ waiting \cap Served = {}
    /\ \A s, r \in Servers : serving[s] = serving[r] /\ serving[s] # Nobody => s = r
    /\ Cardinality(open) <= Limit

=============================================================================
