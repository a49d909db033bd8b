----------------------------- MODULE TurnFrames -----------------------------
(***************************************************************************)
(* What a turn stream promises the one who asked for the turn, whatever    *)
(* lies between: the acceptance, then the events of the turn one by one in *)
(* the order in which they were emitted, then the end; or an error instead *)
(* of the rest.                                                            *)
(***************************************************************************)
EXTENDS Naturals, Sequences

CONSTANT Length  \* events of the turn, of which the last is terminal

VARIABLES
  admitted,  \* the daemon has taken the turn on
  sent,      \* events emitted so far
  got,       \* frames the consumer has been given, the acceptance is frame 0
  outcome,   \* what it has been told in the end: "none", "done" or "error"
  left       \* it has closed the stream itself

vars == <<admitted, sent, got, outcome, left>>

Init ==
  /\ admitted = FALSE
  /\ sent = 0
  /\ got = <<>>
  /\ outcome = "none"
  /\ left = FALSE

Admit ==
  /\ ~admitted
  /\ admitted' = TRUE
  /\ UNCHANGED <<sent, got, outcome, left>>

(* A frame, or an error, reaches the consumer, perhaps as an event is      *)
(* emitted.                                                                *)
Give ==
  /\ outcome = "none" /\ admitted
  /\ Len(got) <= sent'
  /\ got' = Append(got, Len(got))
  /\ UNCHANGED <<admitted, outcome, left>>

Fail ==
  /\ outcome = "none"
  /\ outcome' = "error"
  /\ UNCHANGED <<admitted, got, left>>

Emit ==
  /\ admitted /\ sent < Length
  /\ sent' = sent + 1
  /\ Give \/ Fail \/ UNCHANGED <<admitted, got, outcome, left>>

Finish ==
  /\ outcome = "none"
  /\ Len(got) = Length + 1 \/ left'
  /\ outcome' = "done"
  /\ left' \in {left, TRUE}
  /\ UNCHANGED <<admitted, sent, got>>

Leave ==
  /\ ~left
  /\ left' = TRUE
  /\ UNCHANGED <<admitted, sent, got, outcome>>

Next ==
  \/ Admit \/ Emit \/ Finish \/ Leave
  \/ (Give \/ Fail) /\ UNCHANGED sent

Spec == Init /\ [][Next]_vars
=============================================================================
