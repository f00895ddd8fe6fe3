------------------------------- MODULE MCPgPool -------------------------------
(* Constant values and symmetry for model checking PgPool. *)
EXTENDS PgPool, TLC

CONSTANTS c1, c2, c3, c4, p1, p2, p3, p4

FourConns == {c1, c2, c3, c4}
FourProcs == {p1, p2, p3, p4}

\* The model values are only compared.
Symmetry == Permutations(Conns) \cup Permutations(Procs)

=============================================================================
