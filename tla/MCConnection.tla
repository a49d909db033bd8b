---------------------------- MODULE MCConnection ----------------------------
(* A client that subscribes and unsubscribes, and one that stops the       *)
(* daemon and may get stuck with the answer unread.                        *)
EXTENDS Connection

CONSTANTS a, s, listen, drop, halt

MCClient == {a, s}
MCStuck == {s}
MCCall == {listen, drop, halt}
MCOwnerOf == [q \in MCCall |-> IF q = halt THEN s ELSE a]
MCSubscribes == {listen}
MCUnsubscribes == {drop}
MCShutdowns == {halt}
=============================================================================
