---------------------------- MODULE MCWorkerPool ----------------------------
(* Instances of WorkerPool for TLC: one more worker identity than the pool *)
(* has room, so that one can be dying outside the Map; two requests at once*)
EXTENDS WorkerPool, TLC

CONSTANTS w1, w2, w3, c1, c2, t1, t2, home, other

MCWorker == {w1, w2, w3}
MCTwoWorkers == {w1, w2}
MCClient == {c1, c2}
MCThread == {t1, t2}
MCOneThread == {t1}
MCCwd == {home, other}
MCHome == {home}

(* No definition tells members of these sets apart.                        *)
MCSymmetry ==
  Permutations(MCWorker) \cup Permutations(MCClient) \cup Permutations(MCThread)

(* Each request is made in the directory of its client.                    *)
MCOwnDirectory ==
  \A c \in Client :
    client'[c].pc = "queued" => client'[c].cwd = IF c = c1 THEN home ELSE other

(* What is never read again does not distinguish states: the fields of a   *)
(* forgotten worker, the directory of a request that is not waiting.       *)
MCView ==
  <<workers,
    [w \in Worker |-> IF w \in Forgotten THEN FreshWorker(PrewarmCwd, FALSE) ELSE worker[w]],
    lifecycle, run, recoveryTimer, stopped, started,
    [c \in Client |-> IF client[c].pc = "queued" THEN client[c]
                      ELSE [client[c] EXCEPT !.cwd = PrewarmCwd]],
    persisted, faults>>
=============================================================================
