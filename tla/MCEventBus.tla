---------------------------- MODULE MCEventBus ----------------------------
(* An instance of EventBus for TLC.                                        *)
EXTENDS EventBus, TLC

CONSTANTS s1, s2, x1, x2

TwoSubscribers == {s1, s2}
TwoTopics == {x1, x2}

=============================================================================
