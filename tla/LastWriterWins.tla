---------------------------- MODULE LastWriterWins -----------------------------
(***************************************************************************)
(* What synchronisation promises to the devices of one user: of every      *)
(* account the newest version wins.  The table only moves forward, a       *)
(* device never loses a version it holds to an older one, and it never     *)
(* learns of a version the table did not have.                             *)
(***************************************************************************)
EXTENDS Integers

CONSTANTS Names, Devices, MaxTime

VARIABLES table, copy

lwwVars == <<table, copy>>

Newest(a, b) == IF a >= b THEN a ELSE b
Nothing == [n \in Names |-> 0]

Init == table = Nothing /\ copy = [d \in Devices |-> Nothing]

\* A user changes an account on a device.
Change(d, n, t) ==
    /\ t > copy[d][n]
    /\ copy' = [copy EXCEPT ![d][n] = t]
    /\ UNCHANGED table

\* A device takes over what it lacks from some earlier state of the table.
Pull(d) ==
    /\ \E c \in [Names -> 0 .. MaxTime] :
          /\ \A n \in Names : copy[d][n] <= c[n] /\ c[n] <= Newest(copy[d][n], table[n])
          /\ copy' = [copy EXCEPT ![d] = c]
    /\ UNCHANGED table

\* A device offers some of its accounts, all in one step.
Push(d) ==
    /\ \E S \in SUBSET Names :
          table' = [n \in Names |-> IF n \in S THEN Newest(table[n], copy[d][n]) ELSE table[n]]
    /\ UNCHANGED copy

Next == \E d \in Devices :
    \/ \E n \in Names, t \in 1 .. MaxTime : Change(d, n, t)
    \/ Pull(d)
    \/ Push(d)

Spec == Init /\ [][Next]_lwwVars

=============================================================================
