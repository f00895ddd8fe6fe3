---------------------------- MODULE MCUserRegistry ----------------------------
(* Constant values and symmetry for model checking UserRegistry. *)
EXTENDS UserRegistry, TLC

CONSTANTS u1, u2, pw1, pw2, t1, t2

OneUser == {u1}
TwoUsers == {u1, u2}
TwoPasswords == {pw1, pw2}
TwoThreads == {t1, t2}

\* The model values are only compared.
Symmetry == Permutations(Users) \cup Permutations(Passwords) \cup Permutations(Threads)

=============================================================================
