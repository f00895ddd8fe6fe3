----------------------------- MODULE MCAccountSync -----------------------------
(* Constant values and symmetry for model checking AccountSync. *)
EXTENDS AccountSync, TLC

CONSTANTS d1, d2, n1, n2

OneDevice == {d1}
TwoDevices == {d1, d2}
OneName == {n1}
TwoNames == {n1, n2}

BothStores == {"redis", "postgres"}
RedisOnly == {"redis"}

\* Devices and names are model values that the specification only compares.
Symmetry == Permutations(Devices) \cup Permutations(Names)

=============================================================================
