---------------------------- MODULE MCRpcWorker ----------------------------
(* Two ordinary commands, one of which can be queued behind the other, and *)
(* an abort that overtakes them.                                           *)
EXTENDS RpcWorker

CONSTANTS c1, c2, abort

MCCall == {c1, c2, abort}
MCBypass == {abort}
=============================================================================
