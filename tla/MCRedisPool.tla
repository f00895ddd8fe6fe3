----------------------------- MODULE MCRedisPool ------------------------------
(* Constant values and symmetry for model checking RedisPool. *)
EXTENDS RedisPool, TLC

CONSTANTS c1, c2, c3, w1, w2

TwoConns == {c1, c2}
ThreeConns == {c1, c2, c3}
OneWorker == {w1}
TwoWorkers == {w1, w2}
NoWorkers == {}

OneOp == {"get_accounts"}
ThreeOps == {"createUser", "get_accounts", "upsert"}

\* Connections and workers are model values that the specification only compares.
Symmetry == Permutations(Conns) \cup Permutations(Workers)

=============================================================================
