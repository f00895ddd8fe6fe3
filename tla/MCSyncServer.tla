----------------------------- MODULE MCSyncServer -----------------------------
(* Constant values and symmetry for model checking SyncServer. *)
EXTENDS SyncServer, TLC

CONSTANTS f1, f2, f3, t1, t2

OneFd == {f1}
TwoFds == {f1, f2}
ThreeFds == {f1, f2, f3}
OneThread == {t1}
TwoThreads == {t1, t2}

\* Descriptors and threads are model values that the specification only compares.
Symmetry == Permutations(Fds) \cup Permutations(Threads)

=============================================================================
