-------------------------- MODULE MCTurnLifecycle --------------------------
(* Instances of TurnLifecycle for TLC.  Turns are used up, so that the      *)
(* system may stop; workers are used again once their process is gone.     *)
EXTENDS TurnLifecycle, TLC

CONSTANTS t1, t2, t3, w1, w2

ThreeTurns == {t1, t2, t3}
TwoTurns == {t1, t2}
TwoWorkers == {w1, w2}

(* Turns and workers are never compared but for equality.                  *)
Symmetry == Permutations(ThreeTurns) \cup Permutations(TwoWorkers)

=============================================================================
