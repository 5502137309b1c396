---------------------------- MODULE MCLoginGuard ----------------------------
(* Small instances of LoginGuard for TLC. *)
EXTENDS LoginGuard, TLC

CONSTANTS t1, t2, t3

MCOneThread == {t1}
MCTwoThreads == {t1, t2}
MCSymmetry == Permutations(Threads)

=============================================================================
