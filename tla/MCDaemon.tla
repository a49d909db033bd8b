------------------------------ MODULE MCDaemon ------------------------------
(* Two processes and four starts: a crash, a start that finds what the     *)
(* crash has left, and another one while it does.                          *)
EXTENDS Daemon, TLC

CONSTANTS d1, d2

MCDaemons == {d1, d2}
MCMaxStarts == 4
=============================================================================
