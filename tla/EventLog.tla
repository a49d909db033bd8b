------------------------------ MODULE EventLog ------------------------------
(***************************************************************************)
(* What the event bus promises (specs/http-streaming.md, CHANGELOG.md:67): *)
(* events form one log, and every subscriber is given exactly the events   *)
(* of the log that its filter lets through, from the place where it joined *)
(* on, in the order of the log, without a gap and without a repetition,    *)
(* until it leaves.                                                        *)
(***************************************************************************)
EXTENDS Naturals, Sequences

CONSTANTS
  Topic,      \* what filters tell apart: the thread, the turn, the type
  Subscriber

VARIABLES
  log,     \* the topics of the events published so far
  reader   \* per subscriber: whether it listens, to what, and the place in
           \* the log up to which it has been served

logVars == <<log, reader>>

Wanted(r) == {n \in DOMAIN log : n > reader[r].pos /\ log[n] \in reader[r].topics}

-----------------------------------------------------------------------------

Init ==
  /\ log = <<>>
  /\ reader = [r \in Subscriber |-> [phase |-> "new", topics |-> {}, pos |-> 0]]

Publish(x) ==
  /\ log' = Append(log, x)
  /\ UNCHANGED reader

Join(r, topics, from) ==
  /\ reader[r].phase = "new"
  /\ from \in 0..Len(log)
  /\ reader' = [reader EXCEPT ![r] = [phase |-> "on", topics |-> topics, pos |-> from]]
  /\ UNCHANGED log

(* The subscriber is given the next event it wants, and no other.          *)
Receive(r) ==
  /\ reader[r].phase = "on"
  /\ \E n \in Wanted(r) :
       /\ \A m \in Wanted(r) : n <= m
       /\ reader' = [reader EXCEPT ![r].pos = n]
  /\ UNCHANGED log

Leave(r) ==
  /\ reader[r].phase = "on"
  /\ reader' = [reader EXCEPT ![r].phase = "off"]
  /\ UNCHANGED log

Next ==
  \/ \E x \in Topic : Publish(x)
  \/ \E r \in Subscriber :
       \/ \E topics \in SUBSET Topic, from \in 0..Len(log) : Join(r, topics, from)
       \/ Receive(r)
       \/ Leave(r)

Spec == Init /\ [][Next]_logVars

(* Whoever stays is served.                                                *)
FairSpec == Spec /\ \A r \in Subscriber : WF_logVars(Receive(r))

=============================================================================
