-------------------------- MODULE HttpStreamProofs --------------------------
(***************************************************************************)
(* For turns and buffers of any size: a turn stream that has ended keeps   *)
(* no subscription and no connection; it has no gaps; and the same of      *)
(* those that the HTTP handler consumes, which asks for frames and closes  *)
(* its stream like any other consumer, whatever becomes of its response    *)
(* and of its client.  From end to end the frames are those of TurnFrames. *)
(***************************************************************************)
EXTENDS HttpStream, TLAPS, WellFoundedInduction, SequenceTheorems

-----------------------------------------------------------------------------
(* The turn stream by itself.                                              *)

(* GivenUp is not inductive alone: a set-up that has not subscribed yet    *)
(* holds nothing, nor does one that is over, and only a socket's           *)
(* subscription is waited for.                                             *)
HeldInv ==
  /\ source \in {"service", "socket"}
  /\ phase = "resolving" => channel = "none"
  /\ phase = "over" => ~Held(channel)
  /\ channel = "opening" => source = "socket"
  /\ GivenUp

(* What Becomes establishes in a phase in which the disposer is known, or  *)
(* for a socket, or with a stream that is open.                            *)
LEMMA BecomesHeld ==
  ASSUME NEW s, NEW ph, NEW ch, NEW evs,
         Becomes(s, ph, ch, evs), source' = source, source \in {"service", "socket"},
         ph = "over" => ~Held(ch),
         ph # "resolving",
         ph \in {"subscribing", "requesting", "streaming", "over"},
         ch = "opening" => source = "socket"
  PROVE  HeldInv'
BY DEF Becomes, HeldInv, GivenUp, Held, Disposes

(* An event changes the stream, and so perhaps what it holds. *)
LEMMA ArrivesHeld ==
  ASSUME NEW event, HeldInv, source' = source,
         phase \in {"resolving", "subscribing", "requesting", "streaming", "over"},
         Arrives(event)
  PROVE  HeldInv'
<1>1. CASE channel # "live" \/ stream.ended
  BY <1>1 DEF Arrives, HeldInv, GivenUp, Held
<1>2. CASE channel = "live" /\ ~stream.ended
  <2>1. phase \notin {"resolving", "over"}
    BY <1>2 DEF HeldInv, Held
  <2>2. \E s, evs : Becomes(s, phase, channel, evs)
    BY <1>2 DEF Arrives
  <2> QED
    BY <1>2, <2>1, <2>2, BecomesHeld DEF HeldInv
<1> QED
  BY <1>1, <1>2

PhaseType == phase \in {"resolving", "subscribing", "requesting", "streaming", "over"}

(* The phases are those of the set-up. *)
LEMMA StepPhase == ASSUME PhaseType, [Next]_vars PROVE PhaseType'
BY DEF PhaseType, Next, SetUp, vars, Resolved, ResolveFails, SubscribeReturns, SubscribeFails,
       RequestReturns, RequestFails, Subscribed, Admitted, OwnEvent, ForeignEvent, ChannelLost,
       Ask, Close, Becomes, Arrives

(* The inductive step, action by action. *)
LEMMA StepHeld == ASSUME PhaseType, HeldInv, [Next]_vars PROVE HeldInv'
<1>1. CASE Resolved
  <2>1. CASE stream.ended
    BY <1>1, <2>1 DEF Resolved, Becomes, HeldInv, GivenUp, Held
  <2>2. CASE ~stream.ended
    BY <1>1, <2>2, BecomesHeld DEF Resolved, Subscribing, HeldInv
  <2> QED
    BY <2>1, <2>2
<1>2. CASE ResolveFails
  BY <1>2, BecomesHeld DEF ResolveFails, HeldInv, Held
<1>3. CASE SubscribeReturns
  <2>1. CASE stream.ended
    BY <1>3, <2>1 DEF SubscribeReturns, HeldInv, GivenUp, Held
  <2>2. CASE ~stream.ended
    BY <1>3, <2>2, BecomesHeld DEF SubscribeReturns, HeldInv
  <2> QED
    BY <2>1, <2>2
<1>4. CASE SubscribeFails
  BY <1>4, BecomesHeld DEF SubscribeFails, HeldInv, Held
<1>5. CASE RequestReturns
  <2>1. source' = source
    BY <1>5 DEF RequestReturns
  <2>2. CASE stream.ended
    <3>1. Becomes(stream, "over", channel, <<>>) /\ ~Held(channel)
      BY <1>5, <2>2 DEF RequestReturns, HeldInv, GivenUp
    <3> QED
      BY <2>1, <3>1, BecomesHeld DEF HeldInv
  <2>3. CASE ~stream.ended
    <3>1. \E s : Becomes(s, "streaming", channel, <<>>)
      BY <1>5, <2>3 DEF RequestReturns
    <3> QED
      BY <2>1, <3>1, BecomesHeld DEF HeldInv
  <2> QED
    BY <2>2, <2>3
<1>6. CASE RequestFails
  BY <1>6, BecomesHeld DEF RequestFails, HeldInv, Held
<1>7. CASE Subscribed
  BY <1>7 DEF Subscribed, HeldInv, GivenUp, Held
<1>8. CASE Admitted
  BY <1>8 DEF Admitted, HeldInv, GivenUp, Held
<1>9. CASE OwnEvent
  BY <1>9, ArrivesHeld DEF OwnEvent, PhaseType
<1>10. CASE ForeignEvent
  BY <1>10, ArrivesHeld DEF ForeignEvent, PhaseType
<1>11. CASE ChannelLost
  <2>1. phase \notin {"resolving", "over"}
    BY <1>11 DEF ChannelLost, HeldInv, Held
  <2> QED
    BY <1>11, <2>1, BecomesHeld DEF ChannelLost, HeldInv, PhaseType, Held
<1>12. CASE Ask
  <2>1. stream'.ended = stream.ended
    BY <1>12 DEF Ask, Asked
  <2> QED
    BY <1>12, <2>1 DEF Ask, HeldInv, GivenUp, Held
<1>13. CASE Close
  <2>1. CASE phase \in {"resolving", "over"}
    BY <1>13, <2>1 DEF Close, Becomes, HeldInv, GivenUp, Held
  <2>2. CASE phase \notin {"resolving", "over"}
    BY <1>13, <2>2, BecomesHeld DEF Close, HeldInv, PhaseType
  <2> QED
    BY <2>1, <2>2
<1>14. CASE UNCHANGED vars
  BY <1>14 DEF vars, HeldInv, GivenUp, Held
<1> QED
  BY <1>1, <1>2, <1>3, <1>4, <1>5, <1>6, <1>7, <1>8, <1>9, <1>10, <1>11, <1>12, <1>13, <1>14
  DEF Next, SetUp

(* Whatever the set-up was waiting for when the stream ended, and whoever  *)
(* ended it: the subscription and the connection are given up.             *)
THEOREM SubscriptionGivenUp == Spec => []GivenUp
<1>1. Init => PhaseType /\ HeldInv
  BY DEF Init, PhaseType, HeldInv, GivenUp, Held, Subscribing, EmptyStream
<1>2. PhaseType /\ HeldInv /\ [Next]_vars => PhaseType' /\ HeldInv'
  BY StepPhase, StepHeld
<1>3. HeldInv => GivenUp
  BY DEF HeldInv
<1> QED
  BY <1>1, <1>2, <1>3, PTL DEF Spec

-----------------------------------------------------------------------------
(* What a stream holds.                                                    *)

StreamType ==
  [queue : Seq(0..Length), waiting : BOOLEAN, ended : BOOLEAN, failed : BOOLEAN,
   got : Seq(0..Length), outcome : {"none", "done", "error"}]

Consecutive(q, from) == \A i \in DOMAIN q : q[i] = from + i - 1

Fill(s) == Len(s.got) + Len(s.queue)

(* A stream into which the frames 0 to n - 1 have been pushed.             *)
Holds(s, n, closed) ==
  /\ s \in StreamType /\ Len(s.queue) <= Limit
  /\ s.waiting => s.queue = <<>> /\ ~s.ended
  /\ ~s.ended => s.outcome = "none"
  /\ Consecutive(s.got, 0) /\ Consecutive(s.queue, Len(s.got))
  /\ Fill(s) <= n
  /\ s.failed => s.ended /\ s.queue = <<>>
  /\ closed => s.ended
  /\ ~s.failed /\ ~closed => Fill(s) = n
  /\ s.ended /\ ~s.failed /\ ~closed => n = Length + 1

(* The fields of a stream.                                                 *)
LEMMA StreamFields ==
  ASSUME NEW s \in StreamType
  PROVE  /\ s.queue \in Seq(0..Length) /\ s.got \in Seq(0..Length)
         /\ s.waiting \in BOOLEAN /\ s.ended \in BOOLEAN /\ s.failed \in BOOLEAN
         /\ s.outcome \in {"none", "done", "error"}
         /\ Len(s.queue) \in Nat /\ Len(s.got) \in Nat
  BY DEF StreamType

(* What a stream holds is a number of frames, ...                          *)
LEMMA FillType ==
  ASSUME NEW s \in StreamType
  PROVE  Fill(s) \in Nat
<1>1. PICK a \in Nat, b \in Nat : a = Len(s.got) /\ b = Len(s.queue)
  BY StreamFields
<1>2. Fill(s) = a + b
  BY <1>1, Zenon DEF Fill
<1> QED
  BY <1>2

(* ... no more of them after its queue is dropped.                         *)
LEMMA EmptiedFill ==
  ASSUME NEW s \in StreamType, NEW t \in StreamType, t.got = s.got, t.queue = <<>>
  PROVE  Fill(t) = Len(s.got) /\ Fill(t) <= Fill(s)
<1>1. PICK a \in Nat, b \in Nat : a = Len(s.got) /\ b = Len(s.queue)
  BY StreamFields
<1>2. Len(t.got) = a /\ Len(t.queue) = 0
  BY <1>1
<1> QED
  BY <1>1, <1>2 DEF Fill

(* What an end does to the fields. *)
LEMMA SettledFields ==
  ASSUME NEW s \in StreamType, NEW outcome \in {"done", "error"}
  PROVE  /\ Settled(s, outcome) \in StreamType
         /\ Settled(s, outcome).queue = s.queue
         /\ Settled(s, outcome).got = s.got
         /\ Settled(s, outcome).failed = s.failed
         /\ Settled(s, outcome).ended = TRUE
         /\ Settled(s, outcome).waiting = FALSE
         /\ Settled(s, outcome).outcome = IF s.waiting THEN outcome ELSE s.outcome
  BY DEF StreamType, Settled

(* What a failure does to the fields of an open stream.                    *)
LEMMA FailedFields ==
  ASSUME NEW s \in StreamType, ~s.ended
  PROVE  /\ Failed(s) \in StreamType
         /\ Failed(s).queue = <<>>
         /\ Failed(s).got = s.got
         /\ Failed(s).failed = TRUE
         /\ Failed(s).ended = TRUE
         /\ Failed(s).waiting = FALSE
         /\ Failed(s).outcome = IF s.waiting THEN "error" ELSE s.outcome
<1>1. PICK t : t = Settled(s, "error")
  OBVIOUS
<1>2. t \in StreamType /\ t.got = s.got /\ t.ended = TRUE /\ t.waiting = FALSE
      /\ t.outcome = IF s.waiting THEN "error" ELSE s.outcome
  BY <1>1, SettledFields
<1>3. Failed(s) = [[t EXCEPT !.failed = TRUE] EXCEPT !.queue = <<>>]
  BY <1>1 DEF Failed
<1>4. <<>> \in Seq(0..Length)
  OBVIOUS
<1> QED
  BY <1>2, <1>3, <1>4 DEF StreamType

(* How a stream that becomes t looks to the consumer of s. *)
Same(s, t) == t.got = s.got /\ t.outcome = s.outcome
Gets(s, t) == s.outcome = "none" /\ t.outcome = "none" /\ t.got = Append(s.got, Len(s.got))
Errs(s, t) == s.outcome = "none" /\ t.outcome = "error" /\ t.got = s.got
Ends(s, t) == s.outcome = "none" /\ t.outcome = "done" /\ t.got = s.got

(* Nothing is pushed into a stream that has failed or been closed, so that *)
(* it holds as well what comes later ...                                   *)
LEMMA HoldsMore ==
  ASSUME NEW s, NEW n \in Nat, NEW m \in Nat, NEW closed \in BOOLEAN,
         Holds(s, n, closed), n <= m, s.failed \/ closed
  PROVE  Holds(s, m, closed)
<1>1. Fill(s) \in Nat
  BY FillType DEF Holds
<1> QED
  BY <1>1 DEF Holds

(* ... and what it has kept.                                               *)
LEMMA HoldsFill ==
  ASSUME NEW s, NEW n \in Nat, NEW closed \in BOOLEAN, Holds(s, n, closed)
  PROVE  Holds(s, Fill(s), closed) /\ Fill(s) \in Nat
<1>1. Fill(s) \in Nat
  BY FillType DEF Holds
<1> QED
  BY <1>1 DEF Holds

(* A stream that fails keeps what has been handed out; its consumer, if it *)
(* waits, is told.                                                         *)
LEMMA FailedHolds ==
  ASSUME NEW s, NEW n \in Nat, NEW closed \in BOOLEAN, Holds(s, n, closed)
  PROVE  /\ Holds(Failed(s), n, closed)
         /\ Same(s, Failed(s)) \/ Errs(s, Failed(s))
<1>1. CASE s.ended
  BY <1>1 DEF Failed, Same
<1>2. CASE ~s.ended
  <2>1. PICK t : t = Failed(s)
    OBVIOUS
  <2>2. /\ t \in StreamType /\ t.queue = <<>> /\ t.got = s.got
        /\ t.failed = TRUE /\ t.ended = TRUE /\ t.waiting = FALSE
        /\ t.outcome = IF s.waiting THEN "error" ELSE s.outcome
    BY <1>2, <2>1, FailedFields DEF Holds
  <2>3. Fill(s) \in Nat /\ Fill(t) \in Nat /\ Fill(t) <= Fill(s)
    BY <2>2, FillType, EmptiedFill DEF Holds
  <2>4. Len(t.queue) = 0 /\ Consecutive(t.queue, Len(t.got)) /\ Fill(t) <= n
    BY <2>2, <2>3 DEF Consecutive, Holds
  <2>5. 0 <= Limit
    BY TurnStreamAssumption
  <2>6. Holds(t, n, closed)
    BY <2>2, <2>4, <2>5 DEF Holds
  <2>7. Same(s, t) \/ Errs(s, t)
    BY <1>2, <2>2 DEF Same, Errs, Holds
  <2> QED
    BY <2>1, <2>6, <2>7
<1> QED
  BY <1>1, <1>2

(* A stream that has got everything may end. *)
LEMMA FinishedHolds ==
  ASSUME NEW s, NEW closed \in BOOLEAN, Holds(s, Length + 1, closed)
  PROVE  /\ Holds(Finished(s), Length + 1, closed)
         /\ ~s.waiting => Same(s, Finished(s)) /\ ~Finished(s).waiting
<1>1. CASE s.ended
  BY <1>1 DEF Finished, Same
<1>2. CASE ~s.ended
  <2>1. PICK t : t = Finished(s)
    OBVIOUS
  <2>2. /\ t \in StreamType /\ t.queue = s.queue /\ t.got = s.got
        /\ t.failed = s.failed /\ t.ended = TRUE /\ t.waiting = FALSE
        /\ t.outcome = IF s.waiting THEN "done" ELSE s.outcome
    BY <1>2, <2>1, SettledFields DEF Holds, Finished
  <2>3. Holds(t, Length + 1, closed)
    BY <1>2, <2>2 DEF Holds, Fill
  <2>4. ~s.waiting => Same(s, t)
    BY <2>2 DEF Same
  <2> QED
    BY <2>1, <2>2, <2>3, <2>4
<1> QED
  BY <1>1, <1>2

(* The consumer closes it. *)
LEMMA ClosedHolds ==
  ASSUME NEW s, NEW n \in Nat, NEW closed \in BOOLEAN, Holds(s, n, closed)
  PROVE  /\ Holds(Closed(s), n, TRUE)
         /\ Closed(s).ended
         /\ Same(s, Closed(s)) \/ Ends(s, Closed(s))
<1>1. PICK r : r = [s EXCEPT !.queue = <<>>]
  OBVIOUS
<1>2. /\ r \in StreamType /\ r.queue = <<>> /\ r.got = s.got /\ r.waiting = s.waiting
      /\ r.failed = s.failed /\ r.ended = s.ended /\ r.outcome = s.outcome
  <2>1. <<>> \in Seq(0..Length)
    OBVIOUS
  <2> QED
    BY <1>1, <2>1 DEF Holds, StreamType
<1>3. PICK t : t = Closed(s)
  OBVIOUS
<1>4. /\ t \in StreamType /\ t.queue = <<>> /\ t.got = s.got
      /\ t.failed = s.failed /\ t.ended = TRUE /\ t.waiting = FALSE
      /\ t.outcome = IF ~s.ended /\ s.waiting THEN "done" ELSE s.outcome
  <2>1. CASE s.ended
    <3>1. t = r
      BY <1>1, <1>2, <1>3, <2>1 DEF Closed, Finished
    <3>2. s.ended = TRUE /\ s.waiting = FALSE
      BY <2>1, StreamFields DEF Holds
    <3> QED
      BY <1>2, <3>1, <3>2
  <2>2. CASE ~s.ended
    <3>1. t = Settled(r, "done")
      BY <1>1, <1>2, <1>3, <2>2 DEF Closed, Finished
    <3> QED
      BY <1>2, <2>2, <3>1, SettledFields
  <2> QED
    BY <2>1, <2>2
<1>5. Fill(s) \in Nat /\ Fill(t) \in Nat /\ Fill(t) <= Fill(s)
  BY <1>4, FillType, EmptiedFill DEF Holds
<1>6. Len(t.queue) = 0 /\ Consecutive(t.queue, Len(t.got)) /\ Fill(t) <= n /\ 0 <= Limit
  BY <1>4, <1>5, TurnStreamAssumption DEF Consecutive, Holds
<1>7. Holds(t, n, TRUE)
  BY <1>4, <1>6 DEF Holds
<1>8. Same(s, t) \/ Ends(s, t)
  BY <1>4 DEF Same, Ends, Holds
<1> QED
  BY <1>3, <1>4, <1>7, <1>8

(* Appending the next number. *)
LEMMA ConsecutiveAppend ==
  ASSUME NEW q \in Seq(0..Length), NEW from \in Nat, NEW k \in Nat, NEW e \in 0..Length,
         Consecutive(q, from), Len(q) = k, e = from + k
  PROVE  /\ Append(q, e) \in Seq(0..Length) /\ Len(Append(q, e)) = k + 1
         /\ Consecutive(Append(q, e), from)
<1>1. PICK r : r = Append(q, e)
  OBVIOUS
<1>2. /\ r \in Seq(0..Length) /\ Len(r) = Len(q) + 1 /\ Len(q) \in Nat
      /\ \A i \in 1..Len(q) : r[i] = q[i]
      /\ r[Len(q) + 1] = e
  BY <1>1
<1>3. DOMAIN r = 1..(Len(q) + 1) /\ DOMAIN q = 1..Len(q)
  BY <1>2
<1>4. ASSUME NEW i \in DOMAIN r PROVE r[i] = from + i - 1
  <2>1. CASE i = Len(q) + 1
    BY <1>2, <2>1
  <2>2. CASE i # Len(q) + 1
    <3>1. i \in 1..Len(q)
      BY <1>2, <1>3, <2>2
    <3> QED
      BY <1>2, <1>3, <3>1 DEF Consecutive
  <2> QED
    BY <2>1, <2>2
<1> QED
  BY <1>1, <1>2, <1>4 DEF Consecutive

(* The first of consecutive numbers, and the others. *)
LEMMA ConsecutiveTail ==
  ASSUME NEW X, NEW q \in Seq(X), NEW from \in Nat, NEW k \in Nat,
         Consecutive(q, from), Len(q) = k, q # <<>>
  PROVE  /\ Head(q) = from /\ Head(q) \in X
         /\ Tail(q) \in Seq(X) /\ Len(Tail(q)) = k - 1
         /\ Consecutive(Tail(q), from + 1)
<1>1. PICK r : r = Tail(q)
  OBVIOUS
<1>2. /\ r \in Seq(X) /\ Len(r) = Len(q) - 1 /\ Len(q) \in Nat \ {0}
      /\ \A i \in 1..Len(r) : r[i] = q[i + 1]
      /\ Head(q) = q[1] /\ Head(q) \in X
  BY <1>1
<1>3. DOMAIN r = 1..(Len(q) - 1) /\ DOMAIN q = 1..Len(q)
  BY <1>2
<1>4. ASSUME NEW i \in DOMAIN r PROVE r[i] = (from + 1) + i - 1
  <2>1. i + 1 \in DOMAIN q /\ r[i] = q[i + 1] /\ i \in Nat
    BY <1>2, <1>3
  <2>2. q[i + 1] = from + (i + 1) - 1
    BY <2>1 DEF Consecutive
  <2> QED
    BY <2>1, <2>2
<1>5. q[1] = from
  BY <1>2, <1>3 DEF Consecutive
<1> QED
  BY <1>1, <1>2, <1>4, <1>5 DEF Consecutive

(* What has been got is part of what the stream holds. *)
LEMMA FillIs ==
  ASSUME NEW s \in StreamType
  PROVE  \E a \in Nat, b \in Nat : /\ a = Len(s.got) /\ b = Len(s.queue) /\ Fill(s) = a + b
                                   /\ (b = 0 <=> s.queue = <<>>)
<1>1. PICK a \in Nat, b \in Nat : a = Len(s.got) /\ b = Len(s.queue)
  BY StreamFields
<1>2. Fill(s) = a + b
  BY <1>1, Zenon DEF Fill
<1>3. b = 0 <=> s.queue = <<>>
  BY <1>1, StreamFields
<1> QED
  BY <1>1, <1>2, <1>3

(* The next frame is pushed into an open stream. *)
LEMMA PushedHolds ==
  ASSUME NEW s, NEW n \in 0..Length, NEW closed \in BOOLEAN, Holds(s, n, closed), ~s.ended
  PROVE  /\ Holds(Pushed(s, n), n + 1, closed)
         /\ Same(s, Pushed(s, n)) \/ (s.waiting /\ Gets(s, Pushed(s, n)))
         /\ ~Pushed(s, n).waiting
<1>1. PICK t : t = Pushed(s, n)
  OBVIOUS
<1>2. PICK a \in Nat, b \in Nat :
        a = Len(s.got) /\ b = Len(s.queue) /\ Fill(s) = a + b /\ (b = 0 <=> s.queue = <<>>)
  BY FillIs DEF Holds
<1>3. /\ s \in StreamType /\ s.ended = FALSE /\ s.failed = FALSE /\ closed = FALSE
      /\ s.outcome = "none" /\ a + b = n /\ b <= Limit
      /\ Consecutive(s.got, 0) /\ Consecutive(s.queue, a)
  BY <1>2, StreamFields DEF Holds
<1>4. n \in 0..Length /\ n \in Nat /\ n + 1 \in Nat /\ Length \in Nat /\ Limit \in Nat \ {0}
  BY TurnStreamAssumption
<1>5. CASE b = Limit
  <2>1. t = Failed(s) /\ ~s.waiting
    BY <1>1, <1>2, <1>3, <1>4, <1>5 DEF Pushed, Holds
  <2>2. Holds(t, n, closed) /\ t.failed /\ ~t.waiting /\ Same(s, t)
    BY <2>1, <1>3, <1>4, FailedHolds, FailedFields DEF Same
  <2>3. Holds(t, n + 1, closed)
    BY <1>4, <2>2, HoldsMore
  <2> QED
    BY <1>1, <2>2, <2>3
<1>6. CASE b # Limit /\ s.waiting
  <2>1. t = [s EXCEPT !.waiting = FALSE, !.got = Append(s.got, n)]
    BY <1>1, <1>2, <1>3, <1>6 DEF Pushed
  <2>2. s.queue = <<>> /\ b = 0 /\ a = n
    <3>1. s.queue = <<>>
      BY <1>6 DEF Holds
    <3> QED
      BY <1>2, <1>3, <1>4, <3>1
  <2>3. s.got \in Seq(0..Length)
    BY <1>3, StreamFields
  <2>4. PICK g : g = Append(s.got, n)
    OBVIOUS
  <2>5. g \in Seq(0..Length) /\ Len(g) = n + 1 /\ Consecutive(g, 0)
    <3>1. Consecutive(s.got, 0) /\ Len(s.got) = n /\ n = 0 + n /\ 0 \in Nat
      BY <1>2, <1>3, <1>4, <2>2
    <3> QED
      BY <1>2, <1>4, <2>3, <2>4, <3>1, ConsecutiveAppend
  <2>6. /\ t \in StreamType /\ t.queue = <<>> /\ t.got = g /\ t.waiting = FALSE
        /\ t.ended = FALSE /\ t.failed = FALSE /\ t.outcome = "none"
    BY <1>3, <2>1, <2>2, <2>4, <2>5 DEF StreamType
  <2>7. Fill(t) = n + 1
    BY <2>5, <2>6, EmptiedFill, FillIs
  <2>8. Holds(t, n + 1, closed)
    BY <1>3, <1>4, <2>5, <2>6, <2>7 DEF Holds, Consecutive
  <2>9. Gets(s, t)
    BY <1>2, <1>3, <2>2, <2>4, <2>6 DEF Gets
  <2> QED
    BY <1>1, <1>6, <2>6, <2>8, <2>9
<1>7. CASE b # Limit /\ ~s.waiting
  <2>1. t = [s EXCEPT !.queue = Append(s.queue, n)]
    BY <1>1, <1>2, <1>3, <1>7 DEF Pushed
  <2>3. s.queue \in Seq(0..Length) /\ s.waiting = FALSE
    BY <1>3, <1>7, StreamFields
  <2>4. PICK q : q = Append(s.queue, n)
    OBVIOUS
  <2>5. q \in Seq(0..Length) /\ Len(q) = b + 1 /\ Consecutive(q, a)
    <3>1. PICK p : p = s.queue
      OBVIOUS
    <3>2. p \in Seq(0..Length) /\ Consecutive(p, a) /\ Len(p) = b /\ n = a + b /\ q = Append(p, n)
      BY <1>2, <1>3, <2>3, <2>4, <3>1
    <3>3. n \in 0..Length /\ a \in Nat /\ b \in Nat
      BY <1>2, <1>4
    <3>4. /\ Append(p, n) \in Seq(0..Length) /\ Len(Append(p, n)) = b + 1
          /\ Consecutive(Append(p, n), a)
      <4> HIDE DEF Consecutive
      <4>1. p \in Seq(0..Length) /\ Consecutive(p, a) /\ Len(p) = b /\ n = a + b
        BY <3>2
      <4> QED
        BY <3>3, <4>1, ConsecutiveAppend
    <3> QED
      BY <3>2, <3>4
  <2>6. /\ t \in StreamType /\ t.queue = q /\ t.got = s.got /\ t.waiting = FALSE
        /\ t.ended = FALSE /\ t.failed = FALSE /\ t.outcome = "none"
    BY <1>3, <2>1, <2>3, <2>4, <2>5 DEF StreamType
  <2>7. Fill(t) = n + 1
    <3>1. Len(t.got) = a /\ Len(t.queue) = b + 1
      BY <1>2, <2>5, <2>6
    <3>2. Fill(t) = a + (b + 1)
      BY <3>1, Zenon DEF Fill
    <3> QED
      BY <1>3, <3>2
  <2>8. b + 1 <= Limit
    BY <1>3, <1>4, <1>7
  <2>9. Len(t.got) = a
    BY <1>2, <2>6
  <2>10. Holds(t, n + 1, closed)
    BY <1>3, <1>4, <2>5, <2>6, <2>7, <2>8, <2>9 DEF Holds
  <2>11. Same(s, t)
    BY <1>3, <2>6 DEF Same
  <2> QED
    BY <1>1, <2>6, <2>10, <2>11
<1> QED
  BY <1>5, <1>6, <1>7

(* The next event is delivered; after the last one the stream ends. *)
LEMMA DeliveredHolds ==
  ASSUME NEW s, NEW n \in 1..Length, NEW closed \in BOOLEAN, Holds(s, n, closed)
  PROVE  /\ Holds(Delivered(s, n), n + 1, closed)
         /\ Same(s, Delivered(s, n)) \/ (s.waiting /\ Gets(s, Delivered(s, n)))
         /\ ~Delivered(s, n).waiting
<1>1. n \in 0..Length /\ n # Foreign /\ n \in Nat /\ n + 1 \in Nat /\ Length \in Nat
  BY TurnStreamAssumption DEF Foreign
<1>2. CASE s.ended
  <2>1. s.failed \/ closed
    BY <1>1, <1>2 DEF Holds
  <2>2. Holds(s, n + 1, closed)
    BY <1>1, <2>1, HoldsMore
  <2> QED
    BY <1>2, <2>2 DEF Delivered, Same, Holds
<1>3. CASE ~s.ended
  <2>1. PICK t : t = Pushed(s, n)
    OBVIOUS
  <2>2. Holds(t, n + 1, closed) /\ ~t.waiting /\ (Same(s, t) \/ (s.waiting /\ Gets(s, t)))
    BY <1>1, <1>3, <2>1, PushedHolds
  <2>3. CASE n # Length
    BY <1>1, <1>3, <2>1, <2>2, <2>3 DEF Delivered
  <2>4. CASE n = Length
    <3>1. PICK u : u = Finished(t)
      OBVIOUS
    <3>2. Holds(u, n + 1, closed) /\ Same(t, u) /\ ~u.waiting
      BY <2>2, <2>4, <3>1, FinishedHolds
    <3>3. Same(s, u) \/ (s.waiting /\ Gets(s, u))
      BY <2>2, <3>2 DEF Same, Gets
    <3>4. u = Delivered(s, n)
      BY <1>1, <1>3, <2>1, <2>4, <3>1 DEF Delivered
    <3> QED
      BY <3>2, <3>3, <3>4
  <2> QED
    BY <2>3, <2>4
<1> QED
  BY <1>2, <1>3

(* The consumer asks for the next frame. *)
LEMMA AskedHolds ==
  ASSUME NEW s, NEW n \in Nat, NEW closed \in BOOLEAN, Holds(s, n, closed),
         ~s.waiting, s.outcome = "none"
  PROVE  /\ Holds(Asked(s), n, closed)
         /\ Fill(Asked(s)) = Fill(s)
         /\ Asked(s).ended = s.ended /\ Asked(s).failed = s.failed
         /\ \/ Same(s, Asked(s)) \/ Gets(s, Asked(s)) \/ Errs(s, Asked(s))
            \/ Ends(s, Asked(s)) /\ (closed \/ Len(s.got) = Length + 1)
<1>1. PICK t : t = Asked(s)
  OBVIOUS
<1>2. PICK a \in Nat, b \in Nat :
        a = Len(s.got) /\ b = Len(s.queue) /\ Fill(s) = a + b /\ (b = 0 <=> s.queue = <<>>)
  BY FillIs DEF Holds
<1>3. /\ s \in StreamType /\ s.waiting = FALSE /\ a + b <= n /\ b <= Limit
      /\ s.got \in Seq(0..Length) /\ s.queue \in Seq(0..Length)
      /\ Consecutive(s.got, 0) /\ Consecutive(s.queue, a)
  BY <1>2, StreamFields DEF Holds
<1>4. CASE s.failed
  <2>1. t = [s EXCEPT !.outcome = "error"]
    BY <1>1, <1>4 DEF Asked
  <2>2. /\ t \in StreamType /\ t.queue = s.queue /\ t.got = s.got /\ t.waiting = FALSE
        /\ t.ended = s.ended /\ t.failed = s.failed /\ t.outcome = "error"
    BY <1>3, <2>1 DEF StreamType
  <2>3. Fill(t) = Fill(s)
    BY <2>2, Zenon DEF Fill
  <2>4. Holds(t, n, closed)
    BY <1>4, <2>2, <2>3 DEF Holds
  <2> QED
    BY <1>1, <2>2, <2>3, <2>4 DEF Errs
<1>5. CASE ~s.failed /\ s.queue # <<>>
  <2>1. PICK g, q : g = Append(s.got, Head(s.queue)) /\ q = Tail(s.queue)
    OBVIOUS
  <2>2. t = [s EXCEPT !.got = g, !.queue = q]
    BY <1>1, <1>5, <2>1 DEF Asked
  <2>3. /\ Head(s.queue) = a /\ a \in 0..Length
        /\ q \in Seq(0..Length) /\ Len(q) = b - 1 /\ Consecutive(q, a + 1)
    <3>1. PICK p : p = s.queue
      OBVIOUS
    <3>2. /\ p \in Seq(0..Length) /\ Consecutive(p, a) /\ Len(p) = b /\ p # <<>>
          /\ Head(s.queue) = Head(p) /\ q = Tail(p)
      BY <1>2, <1>3, <1>5, <2>1, <3>1
    <3>3. a \in Nat /\ b \in Nat
      BY <1>2
    <3>4. Head(p) = a /\ Head(p) \in 0..Length
      BY <3>2, <3>3, ConsecutiveTail, Zenon
    <3> QED
      BY <3>2, <3>3, <3>4, ConsecutiveTail, Zenon
  <2>4. g \in Seq(0..Length) /\ Len(g) = a + 1 /\ Consecutive(g, 0)
    BY <1>2, <1>3, <2>1, <2>3, ConsecutiveAppend
  <2>5. /\ t \in StreamType /\ t.queue = q /\ t.got = g /\ t.waiting = FALSE
        /\ t.ended = s.ended /\ t.failed = s.failed /\ t.outcome = "none"
    BY <1>3, <2>2, <2>3, <2>4 DEF StreamType
  <2>6. Fill(t) = a + b
    <3>1. Fill(t) = (a + 1) + (b - 1)
      BY <2>3, <2>4, <2>5, Zenon DEF Fill
    <3> QED
      BY <3>1
  <2>7. b - 1 <= Limit
    BY <1>3, TurnStreamAssumption
  <2>8. Holds(t, n, closed)
    BY <1>2, <1>3, <1>5, <2>3, <2>4, <2>5, <2>6, <2>7 DEF Holds
  <2>9. Gets(s, t)
    BY <1>2, <2>1, <2>3, <2>5 DEF Gets
  <2> QED
    BY <1>1, <1>2, <2>5, <2>6, <2>8, <2>9
<1>6. CASE ~s.failed /\ s.queue = <<>> /\ s.ended
  <2>1. t = [s EXCEPT !.outcome = "done"]
    BY <1>1, <1>6 DEF Asked
  <2>2. /\ t \in StreamType /\ t.queue = s.queue /\ t.got = s.got /\ t.waiting = FALSE
        /\ t.ended = s.ended /\ t.failed = s.failed /\ t.outcome = "done"
    BY <1>3, <2>1 DEF StreamType
  <2>3. Fill(t) = Fill(s)
    BY <2>2, Zenon DEF Fill
  <2>4. Holds(t, n, closed)
    BY <1>6, <2>2, <2>3 DEF Holds
  <2>5. closed \/ a = Length + 1
    BY <1>2, <1>3, <1>6 DEF Holds
  <2> QED
    BY <1>1, <1>2, <2>2, <2>3, <2>4, <2>5 DEF Ends
<1>7. CASE ~s.failed /\ s.queue = <<>> /\ ~s.ended
  <2>1. t = [s EXCEPT !.waiting = TRUE]
    BY <1>1, <1>7 DEF Asked
  <2>2. /\ t \in StreamType /\ t.queue = <<>> /\ t.got = s.got
        /\ t.ended = s.ended /\ t.failed = s.failed /\ t.outcome = s.outcome
    BY <1>3, <1>7, <2>1 DEF StreamType
  <2>3. Fill(t) = Fill(s)
    BY <1>7, <2>2, Zenon DEF Fill
  <2>4. Holds(t, n, closed)
    BY <1>7, <2>2, <2>3 DEF Holds
  <2> QED
    BY <1>1, <2>2, <2>3, <2>4 DEF Same
<1> QED
  BY <1>4, <1>5, <1>6, <1>7

-----------------------------------------------------------------------------
(* What AllDelivered computes.                                             *)

(* The order of the numbers, as a relation.                                *)
LessThan == {ss \in Nat \X Nat : ss[1] < ss[2]}

(* Every set of numbers has a least one. *)
LEMMA Least ==
  ASSUME NEW T \in SUBSET Nat, T # {}
  PROVE  \E n \in T : \A m \in T : n <= m
<1>1. IsWellFoundedOn(LessThan, Nat)
  BY NatLessThanWellFounded, Zenon DEF OpToRel, LessThan
<1>2. PICK n \in T : \A m \in T : <<m, n>> \notin LessThan
  BY <1>1, WFMin, Zenon
<1>3. \A m \in T : n <= m
  <2> SUFFICES ASSUME NEW m \in T PROVE n <= m
    OBVIOUS
  <2>1. <<m, n>> \notin LessThan /\ m \in Nat /\ n \in Nat
    BY <1>2
  <2>2. ~(m < n)
    BY <2>1, Zenon DEF LessThan
  <2> QED
    BY <2>1, <2>2
<1> QED
  BY <1>3

(* Induction, for a set of numbers. *)
LEMMA Induction ==
  ASSUME NEW S, 0 \in S, \A n \in Nat : n \in S => n + 1 \in S
  PROVE  Nat \subseteq S
<1> SUFFICES ASSUME Nat \ S # {} PROVE FALSE
  OBVIOUS
<1>1. PICK n \in Nat \ S : \A m \in Nat \ S : n <= m
  BY Least
<1>2. n # 0 /\ n - 1 \in Nat
  OBVIOUS
<1>3. n - 1 \in S
  BY <1>1, <1>2
<1> QED
  BY <1>2, <1>3

IsAfter(s, evs, f, n) ==
  f = [i \in 0..n |-> IF i = 0 THEN s ELSE Delivered(f[i - 1], evs[i])]

(* The function AllDelivered is defined with exists. *)
LEMMA AfterExists ==
  ASSUME NEW s, NEW evs, NEW n \in Nat
  PROVE  \E f : IsAfter(s, evs, f, n)
<1> DEFINE D == {m \in Nat : \E f : IsAfter(s, evs, f, m)}
<1>1. 0 \in D
  <2> DEFINE f == [i \in 0..0 |-> s]
  <2>1. IsAfter(s, evs, f, 0)
    BY DEF IsAfter
  <2> QED
    BY <2>1
<1>2. ASSUME NEW m \in Nat, m \in D PROVE m + 1 \in D
  <2>1. PICK f : IsAfter(s, evs, f, m)
    BY <1>2
  <2> DEFINE new == Delivered(f[m], evs[m + 1])
             g == [i \in 0..(m + 1) |-> IF i = m + 1 THEN new ELSE f[i]]
             h == [i \in 0..(m + 1) |-> IF i = 0 THEN s ELSE Delivered(g[i - 1], evs[i])]
  <2>2. ASSUME NEW i \in 0..(m + 1) PROVE g[i] = h[i]
    <3>1. CASE i = m + 1
      <4>1. g[m] = f[m] /\ i # 0 /\ i - 1 = m
        BY <3>1
      <4> QED
        BY <3>1, <4>1
    <3>2. CASE i # m + 1
      <4>1. i \in 0..m /\ g[i] = f[i] /\ (i # 0 => i - 1 \in 0..m /\ g[i - 1] = f[i - 1])
        BY <3>2
      <4>2. f[i] = IF i = 0 THEN s ELSE Delivered(f[i - 1], evs[i])
        BY <2>1, <4>1 DEF IsAfter
      <4> QED
        BY <4>1, <4>2
    <3> QED
      BY <3>1, <3>2
  <2>3. g = h
    BY <2>2
  <2>4. IsAfter(s, evs, g, m + 1)
    BY <2>3 DEF IsAfter
  <2> QED
    BY <2>4
<1>3. Nat \subseteq D
  BY <1>1, <1>2, Induction
<1> QED
  BY <1>3

(* Its result is the last of a sequence of streams, one for each event. *)
LEMMA AllDeliveredIs ==
  ASSUME NEW X, NEW evs \in Seq(X), NEW s
  PROVE  \E f : /\ f[0] = s
                /\ \A i \in 1..Len(evs) : f[i] = Delivered(f[i - 1], evs[i])
                /\ AllDelivered(s, evs) = f[Len(evs)]
<1> DEFINE f == CHOOSE f : IsAfter(s, evs, f, Len(evs))
<1>1. IsAfter(s, evs, f, Len(evs))
  BY AfterExists
<1>2. AllDelivered(s, evs) = f[Len(evs)]
  BY DEF AllDelivered, IsAfter
<1>3. \A i \in 0..Len(evs) : f[i] = IF i = 0 THEN s ELSE Delivered(f[i - 1], evs[i])
  BY <1>1 DEF IsAfter
<1>4. f[0] = s /\ \A i \in 1..Len(evs) : f[i] = Delivered(f[i - 1], evs[i])
  BY <1>3
<1> QED
  BY <1>2, <1>4

(* Among evs are the events 1 to n of the turn, each once and in their     *)
(* order; c counts them.                                                   *)
Counts(c, evs, n) ==
  /\ c \in [0..Len(evs) -> 0..n] /\ c[0] = 0 /\ c[Len(evs)] = n
  /\ \A i \in 1..Len(evs) :
       \/ evs[i] = Foreign /\ c[i] = c[i - 1]
       \/ evs[i] = c[i] /\ c[i] = c[i - 1] + 1

Early(evs, n) == \E c : Counts(c, evs, n)

(* Nothing came early.                                                     *)
LEMMA EarlyNone == Early(<<>>, 0)
<1> DEFINE c == [i \in 0..0 |-> 0]
<1>1. Len(<<>>) = 0
  OBVIOUS
<1>2. Counts(c, <<>>, 0)
  BY <1>1 DEF Counts
<1> QED
  BY <1>2 DEF Early

(* One more event, of the turn or of another. *)
LEMMA EarlyMore ==
  ASSUME NEW evs \in Seq(1..Foreign), NEW n \in Nat, NEW m \in Nat, NEW e \in 1..Foreign,
         Early(evs, n), (e = Foreign /\ m = n) \/ (m = n + 1 /\ e = m)
  PROVE  Early(Append(evs, e), m)
<1>1. PICK c : Counts(c, evs, n)
  BY DEF Early
<1>2. PICK k \in Nat : k = Len(evs)
  OBVIOUS
<1> DEFINE d == [i \in 0..(k + 1) |-> IF i = k + 1 THEN m ELSE c[i]]
<1>3. PICK r : r = Append(evs, e)
  OBVIOUS
<1>4. Len(r) = k + 1 /\ r[k + 1] = e /\ \A i \in 1..k : r[i] = evs[i]
  BY <1>2, <1>3
<1>5. c \in [0..k -> 0..n] /\ c[0] = 0 /\ c[k] = n
  BY <1>1, <1>2 DEF Counts
<1>6. d \in [0..(k + 1) -> 0..m]
  <2>1. ASSUME NEW i \in 0..(k + 1) PROVE d[i] \in 0..m
    <3>1. CASE i = k + 1
      BY <3>1
    <3>2. CASE i # k + 1
      <4>1. i \in 0..k
        BY <1>2, <3>2
      <4>2. c[i] \in 0..n /\ d[i] = c[i]
        BY <1>5, <3>2, <4>1
      <4> QED
        BY <4>2
    <3> QED
      BY <3>1, <3>2
  <2> QED
    BY <2>1
<1>7. d[0] = 0 /\ d[k + 1] = m
  BY <1>2, <1>5
<1>8. ASSUME NEW i \in 1..(k + 1)
      PROVE  \/ r[i] = Foreign /\ d[i] = d[i - 1]
             \/ r[i] = d[i] /\ d[i] = d[i - 1] + 1
  <2>1. CASE i = k + 1
    <3>1. d[i] = m /\ d[i - 1] = c[k] /\ r[i] = e
      BY <1>2, <1>4, <2>1
    <3> QED
      BY <1>5, <3>1
  <2>2. CASE i # k + 1
    <3>1. i \in 1..k /\ d[i] = c[i] /\ d[i - 1] = c[i - 1] /\ r[i] = evs[i]
      BY <1>2, <1>4, <2>2
    <3>2. \/ evs[i] = Foreign /\ c[i] = c[i - 1]
          \/ evs[i] = c[i] /\ c[i] = c[i - 1] + 1
      BY <1>1, <1>2, <3>1 DEF Counts
    <3> QED
      BY <3>1, <3>2
  <2> QED
    BY <2>1, <2>2
<1> HIDE DEF d
<1>9. Counts(d, r, m)
  BY <1>4, <1>6, <1>7, <1>8 DEF Counts
<1> QED
  BY <1>3, <1>9 DEF Early

(* The early events are delivered after the acceptance: the stream then    *)
(* holds it and the n events of the turn, or has failed.                   *)
LEMMA AllDeliveredHolds ==
  ASSUME NEW evs \in Seq(1..Foreign), NEW n \in 0..Length, NEW closed \in BOOLEAN,
         NEW s, Early(evs, n), Holds(s, 1, closed), ~s.waiting
  PROVE  /\ Holds(AllDelivered(s, evs), n + 1, closed)
         /\ Same(s, AllDelivered(s, evs)) /\ ~AllDelivered(s, evs).waiting
<1>1. PICK f : /\ f[0] = s
               /\ \A i \in 1..Len(evs) : f[i] = Delivered(f[i - 1], evs[i])
               /\ AllDelivered(s, evs) = f[Len(evs)]
  BY AllDeliveredIs
<1>2. PICK c : Counts(c, evs, n)
  BY DEF Early
<1>3. PICK k \in Nat : k = Len(evs)
  OBVIOUS
<1>4. c \in [0..k -> 0..n] /\ c[0] = 0 /\ c[k] = n
  BY <1>2, <1>3 DEF Counts
<1> DEFINE Good(i) == Holds(f[i], c[i] + 1, closed) /\ Same(s, f[i]) /\ ~f[i].waiting
           D == {i \in Nat : i <= k => Good(i)}
<1>5. 0 \in D
  BY <1>1, <1>4 DEF Same
<1>6. ASSUME NEW i \in Nat, i \in D PROVE i + 1 \in D
  <2> SUFFICES ASSUME i + 1 <= k PROVE Good(i + 1)
    OBVIOUS
  <2>1. i \in 0..k /\ i + 1 \in 1..k /\ i + 1 \in 0..k /\ (i + 1) - 1 = i
    BY <1>3
  <2>2. Holds(f[i], c[i] + 1, closed) /\ Same(s, f[i]) /\ ~f[i].waiting
    BY <1>6, <2>1
  <2>3. f[i + 1] = Delivered(f[i], evs[i + 1])
    BY <1>1, <1>3, <2>1
  <2>4. c[i] \in 0..n /\ c[i + 1] \in 0..n /\ n \in 0..Length /\ Length \in Nat
    BY <1>4, <2>1, TurnStreamAssumption
  <2>5. \/ evs[i + 1] = Foreign /\ c[i + 1] = c[i]
        \/ evs[i + 1] = c[i + 1] /\ c[i + 1] = c[i] + 1
    BY <1>2, <1>3, <2>1 DEF Counts
  <2>6. CASE evs[i + 1] = Foreign /\ c[i + 1] = c[i]
    <3>1. f[i + 1] = f[i]
      BY <2>3, <2>6 DEF Delivered
    <3> QED
      BY <2>2, <2>6, <3>1
  <2>7. CASE evs[i + 1] = c[i + 1] /\ c[i + 1] = c[i] + 1
    <3>1. PICK e : e = c[i + 1]
      OBVIOUS
    <3>2. e \in 1..Length /\ Holds(f[i], e, closed) /\ f[i + 1] = Delivered(f[i], e)
      BY <2>2, <2>3, <2>4, <2>7, <3>1
    <3>3. Holds(f[i + 1], e + 1, closed) /\ Same(f[i], f[i + 1]) /\ ~f[i + 1].waiting
      BY <2>2, <3>2, DeliveredHolds
    <3> QED
      BY <2>2, <3>1, <3>3 DEF Same
  <2> QED
    BY <2>5, <2>6, <2>7
<1>7. Nat \subseteq D
  <2>1. \A i \in Nat : i \in D => i + 1 \in D
    BY <1>6
  <2> HIDE DEF D
  <2> QED
    BY <1>5, <2>1, Induction
<1>8. Good(k)
  BY <1>3, <1>7
<1> QED
  BY <1>1, <1>3, <1>4, <1>8

-----------------------------------------------------------------------------
(* The invariant of the turn stream.                                       *)

SetUpType ==
  /\ source \in {"service", "socket"}
  /\ phase \in {"resolving", "subscribing", "requesting", "streaming", "over"}
  /\ channel \in {"none", "opening", "live", "released", "lost"}
  /\ turn \in {"none", "admitted", "refused"}
  /\ left \in BOOLEAN
  /\ sent \in 0..Length

(* How far the set-up can be with stream s; one that is open has its       *)
(* channel.                                                                *)
Placed(s, ph, ch, tn, sn) ==
  /\ ph = "resolving" => ch = "none"
  /\ ph = "over" => s.ended
  /\ ph \in {"resolving", "subscribing"} => tn = "none"
  /\ tn # "admitted" => sn = 0
  /\ ph = "streaming" => tn = "admitted"
  /\ ~s.ended /\ ph = "subscribing" => Held(ch)
  /\ ~s.ended /\ ph \in {"requesting", "streaming"} => ch = "live"

(* The events that wait for the acceptance, while the stream is open.      *)
Waits(s, ph, evs, sn) ==
  ~s.ended =>
    /\ evs # <<>> => ph \in {"subscribing", "requesting"}
    /\ ph \in {"subscribing", "requesting"} => Early(evs, sn)

(* The frames that have been due to the stream.                            *)
Due(ph, sn) == IF ph = "streaming" THEN sn + 1 ELSE 0

PendingType == pending \in Seq(1..Foreign) /\ Len(pending) <= Limit

(* Where the set-up is, what waits for the acceptance, and what the stream *)
(* holds.                                                                  *)
TurnInv ==
  /\ SetUpType
  /\ Placed(stream, phase, channel, turn, sent)
  /\ PendingType
  /\ stream.ended => pending = <<>>
  /\ Waits(stream, phase, pending, sent)
  /\ Holds(stream, Due(phase, sent), left)

(* The stream that createTurnStream begins with. *)
LEMMA EmptyHolds == Holds(EmptyStream, 0, FALSE) /\ Fill(EmptyStream) = 0
<1>1. /\ EmptyStream.queue = <<>> /\ EmptyStream.got = <<>> /\ EmptyStream.waiting = FALSE
      /\ EmptyStream.ended = FALSE /\ EmptyStream.failed = FALSE /\ EmptyStream.outcome = "none"
      /\ EmptyStream \in StreamType
  <2>1. <<>> \in Seq(0..Length)
    OBVIOUS
  <2> QED
    BY <2>1 DEF EmptyStream, StreamType
<1>2. Fill(EmptyStream) = 0 /\ Consecutive(<<>>, 0) /\ Len(<<>>) = 0
  <2>1. Len(<<>>) = 0
    OBVIOUS
  <2>2. Fill(EmptyStream) = 0 + 0
    BY <1>1, <2>1, Zenon DEF Fill
  <2> QED
    BY <2>1, <2>2 DEF Consecutive
<1> QED
  BY <1>1, <1>2, TurnStreamAssumption DEF Holds

(* At the start nothing has come. *)
LEMMA InitTurn == Init => TurnInv
<1> SUFFICES ASSUME Init PROVE TurnInv
  OBVIOUS
<1>1. SetUpType
  <2>1. 0 \in 0..Length
    BY TurnStreamAssumption
  <2>2. channel \in {"none", "opening", "live"}
    BY DEF Init, Subscribing
  <2>3. phase \in {"resolving", "subscribing"}
    BY DEF Init
  <2> QED
    BY <2>1, <2>2, <2>3 DEF Init, SetUpType
<1>2. Holds(EmptyStream, 0, FALSE) /\ EmptyStream.ended = FALSE
  BY EmptyHolds DEF EmptyStream
<1>3. Placed(stream, phase, channel, turn, sent)
  BY <1>2 DEF Init, Placed, Subscribing, Held
<1>4. PendingType
  <2>1. <<>> \in Seq(1..Foreign) /\ Len(<<>>) = 0
    OBVIOUS
  <2> QED
    BY <2>1, TurnStreamAssumption DEF Init, PendingType
<1>5. Waits(stream, phase, pending, sent)
  BY EarlyNone DEF Init, Waits
<1>6. Holds(stream, Due(phase, sent), left)
  BY <1>2 DEF Init, Due
<1> QED
  BY <1>1, <1>2, <1>3, <1>4, <1>5, <1>6 DEF Init, TurnInv

(* The end of every step that touches the stream. *)
LEMMA BecomesTurn ==
  ASSUME NEW s, NEW ph, NEW ch, NEW evs, Becomes(s, ph, ch, evs),
         source' \in {"service", "socket"}, turn' \in {"none", "admitted", "refused"},
         left' \in BOOLEAN, sent' \in 0..Length,
         ph \in {"resolving", "subscribing", "requesting", "streaming", "over"},
         ch \in {"none", "opening", "live", "released", "lost"},
         evs \in Seq(1..Foreign), Len(evs) <= Limit,
         Placed(s, ph, ch, turn', sent'), Waits(s, ph, evs, sent'),
         Holds(s, Due(ph, sent'), left')
  PROVE  TurnInv'
<1>1. stream' = s /\ phase' = ph
  BY DEF Becomes
<1>2. /\ channel' \in {"none", "opening", "live", "released", "lost"}
      /\ ~s.ended => channel' = ch
      /\ ch = "none" => channel' = "none"
  BY DEF Becomes, Held
<1>3. pending' = IF s.ended THEN <<>> ELSE evs
  BY DEF Becomes
<1>4. SetUpType'
  BY <1>1, <1>2 DEF SetUpType
<1>5. Placed(s, ph, channel', turn', sent')
  BY <1>2 DEF Placed
<1>6. PendingType'
  <2>1. <<>> \in Seq(1..Foreign) /\ Len(<<>>) = 0
    OBVIOUS
  <2> QED
    <3>1. CASE s.ended
      BY <1>3, <2>1, <3>1, TurnStreamAssumption DEF PendingType
    <3>2. CASE ~s.ended
      BY <1>3, <3>2 DEF PendingType
    <3> QED
      BY <3>1, <3>2
<1>7. s.ended => pending' = <<>>
  BY <1>3
<1>8. Waits(s, ph, pending', sent')
  BY <1>3 DEF Waits
<1> QED
  BY <1>1, <1>4, <1>5, <1>6, <1>7, <1>8 DEF TurnInv

(* A stream that has failed has ended. *)
LEMMA FailedEnds ==
  ASSUME NEW s \in StreamType
  PROVE  Failed(s).ended
<1>1. CASE s.ended
  BY <1>1 DEF Failed
<1>2. CASE ~s.ended
  BY <1>2, FailedFields
<1> QED
  BY <1>1, <1>2

(* What is empty waits for nothing. *)
LEMMA NoneWait ==
  /\ <<>> \in Seq(1..Foreign) /\ Len(<<>>) <= Limit
  /\ \A s, ph, sn : s.ended \/ ph \notin {"subscribing", "requesting"} \/ sn = 0 =>
       Waits(s, ph, <<>>, sn)
<1>1. <<>> \in Seq(1..Foreign) /\ Len(<<>>) = 0
  OBVIOUS
<1> QED
  BY <1>1, EarlyNone, TurnStreamAssumption DEF Waits

(* The set-up: resolving the thread's id, *)
LEMMA ResolveTurn ==
  ASSUME TurnInv, Resolved \/ ResolveFails
  PROVE  TurnInv' /\ (Same(stream, stream') \/ Errs(stream, stream'))
<1>1. /\ phase = "resolving" /\ channel = "none" /\ turn = "none" /\ sent = 0
      /\ Holds(stream, 0, left) /\ stream \in StreamType /\ SetUpType
      /\ source' = source /\ left' = left /\ turn' = turn /\ sent' = sent
  BY DEF TurnInv, Placed, Due, Holds, Resolved, ResolveFails
<1>2. 0 \in 0..Length /\ 0 \in Nat
  BY TurnStreamAssumption
<1>3. CASE Resolved /\ stream.ended
  <2>1. Becomes(stream, "over", "none", <<>>)
    BY <1>3 DEF Resolved
  <2>2. Placed(stream, "over", "none", turn', sent') /\ Waits(stream, "over", <<>>, sent')
    BY <1>1, <1>3, NoneWait DEF Placed
  <2>3. Holds(stream, Due("over", sent'), left')
    BY <1>1 DEF Due
  <2>4. TurnInv'
    BY <1>1, <1>2, <2>1, <2>2, <2>3, NoneWait, BecomesTurn DEF SetUpType
  <2> QED
    BY <2>1, <2>4 DEF Becomes, Same
<1>4. CASE Resolved /\ ~stream.ended
  <2>1. Becomes(stream, "subscribing", Subscribing, <<>>)
    BY <1>4 DEF Resolved
  <2>2. Subscribing \in {"opening", "live"}
    BY DEF Subscribing
  <2>3. Placed(stream, "subscribing", Subscribing, turn', sent')
    BY <1>1, <2>2 DEF Placed, Held
  <2>4. Waits(stream, "subscribing", <<>>, sent')
    BY <1>1, NoneWait
  <2>5. Holds(stream, Due("subscribing", sent'), left')
    BY <1>1 DEF Due
  <2>6. TurnInv'
    BY <1>1, <1>2, <2>1, <2>2, <2>3, <2>4, <2>5, NoneWait, BecomesTurn DEF SetUpType
  <2> QED
    BY <2>1, <2>6 DEF Becomes, Same
<1>5. CASE ResolveFails
  <2>1. PICK s : s = Failed(stream)
    OBVIOUS
  <2>2. Becomes(s, "over", "none", <<>>)
    BY <1>5, <2>1 DEF ResolveFails
  <2>3. s.ended /\ Holds(s, 0, left) /\ (Same(stream, s) \/ Errs(stream, s))
    BY <1>1, <1>2, <2>1, FailedEnds, FailedHolds DEF SetUpType
  <2>4. Placed(s, "over", "none", turn', sent') /\ Waits(s, "over", <<>>, sent')
    BY <1>1, <2>3, NoneWait DEF Placed
  <2>5. Holds(s, Due("over", sent'), left')
    BY <1>1, <2>3 DEF Due
  <2>6. TurnInv'
    BY <1>1, <1>2, <2>2, <2>4, <2>5, NoneWait, BecomesTurn DEF SetUpType
  <2>7. stream' = s
    BY <2>2 DEF Becomes
  <2> QED
    BY <2>3, <2>6, <2>7
<1> QED
  BY <1>3, <1>4, <1>5

(* subscribing, *)
LEMMA SubscribeTurn ==
  ASSUME TurnInv, SubscribeReturns \/ SubscribeFails
  PROVE  TurnInv' /\ (Same(stream, stream') \/ Errs(stream, stream'))
<1>1. /\ phase = "subscribing" /\ turn = "none" /\ sent = 0
      /\ Holds(stream, 0, left) /\ stream \in StreamType /\ SetUpType
      /\ source' = source /\ left' = left /\ turn' = turn /\ sent' = sent
      /\ PendingType /\ Waits(stream, phase, pending, sent) /\ (stream.ended => pending = <<>>)
      /\ (~stream.ended => Held(channel))
  BY DEF TurnInv, Placed, Due, Holds, SubscribeReturns, SubscribeFails
<1>2. 0 \in 0..Length /\ 0 \in Nat
  BY TurnStreamAssumption
<1>3. CASE SubscribeReturns /\ stream.ended
  <2>1. phase' = "over" /\ stream' = stream /\ pending' = pending
        /\ channel' \in {"none", "opening", "live", "released", "lost"}
    BY <1>1, <1>3 DEF SubscribeReturns, SetUpType
  <2>2. SetUpType'
    BY <1>1, <2>1 DEF SetUpType
  <2>3. Placed(stream, "over", channel', turn', sent')
    BY <1>1, <1>3 DEF Placed
  <2>4. PendingType' /\ Waits(stream, "over", pending, sent)
    BY <1>1, <1>3, <2>1 DEF PendingType, Waits
  <2>5. Holds(stream, Due("over", sent'), left')
    BY <1>1 DEF Due
  <2> QED
    BY <1>1, <2>1, <2>2, <2>3, <2>4, <2>5 DEF TurnInv, Same
<1>4. CASE SubscribeReturns /\ ~stream.ended
  <2>1. Becomes(stream, "requesting", channel, pending) /\ channel = "live"
    BY <1>1, <1>4 DEF SubscribeReturns, Held
  <2>2. Placed(stream, "requesting", channel, turn', sent')
    BY <1>1, <2>1 DEF Placed
  <2>3. Waits(stream, "requesting", pending, sent')
    BY <1>1 DEF Waits
  <2>4. Holds(stream, Due("requesting", sent'), left')
    BY <1>1 DEF Due
  <2>5. TurnInv'
    BY <1>1, <1>2, <2>1, <2>2, <2>3, <2>4, BecomesTurn DEF SetUpType, PendingType
  <2> QED
    BY <2>1, <2>5 DEF Becomes, Same
<1>5. CASE SubscribeFails
  <2>1. PICK s, ch : s = Failed(stream) /\ ch = IF Held(channel) THEN "released" ELSE channel
    OBVIOUS
  <2>2. Becomes(s, "over", ch, <<>>)
    BY <1>5, <2>1 DEF SubscribeFails
  <2>3. s.ended /\ Holds(s, 0, left) /\ (Same(stream, s) \/ Errs(stream, s))
    BY <1>1, <1>2, <2>1, FailedEnds, FailedHolds DEF SetUpType
  <2>4. Placed(s, "over", ch, turn', sent') /\ Waits(s, "over", <<>>, sent')
    BY <1>1, <2>3, NoneWait DEF Placed
  <2>5. Holds(s, Due("over", sent'), left')
    BY <1>1, <2>3 DEF Due
  <2>6. ch \in {"none", "opening", "live", "released", "lost"}
    BY <1>1, <2>1 DEF SetUpType
  <2>7. TurnInv'
    BY <1>1, <1>2, <2>2, <2>4, <2>5, <2>6, NoneWait, BecomesTurn DEF SetUpType
  <2>8. stream' = s
    BY <2>2 DEF Becomes
  <2> QED
    BY <2>3, <2>7, <2>8
<1> QED
  BY <1>3, <1>4, <1>5

(* and the request, whose answer is followed by the early events.          *)
LEMMA RequestTurn ==
  ASSUME TurnInv, RequestReturns \/ RequestFails
  PROVE  /\ TurnInv'
         /\ \/ Same(stream, stream') \/ Errs(stream, stream')
            \/ Gets(stream, stream') /\ turn = "admitted"
<1>1. /\ phase = "requesting" /\ sent \in 0..Length
      /\ Holds(stream, 0, left) /\ stream \in StreamType /\ SetUpType
      /\ source' = source /\ left' = left /\ sent' = sent
      /\ PendingType /\ (~stream.ended => Early(pending, sent))
      /\ (~stream.ended => channel = "live")
      /\ (turn # "admitted" => sent = 0)
  BY DEF TurnInv, Placed, Due, Holds, Waits, SetUpType, RequestReturns, RequestFails
<1>2. 0 \in 0..Length /\ 0 \in Nat /\ left \in BOOLEAN /\ Length \in Nat /\ sent \in Nat
  BY <1>1, TurnStreamAssumption DEF SetUpType
<1>3. CASE RequestReturns /\ stream.ended
  <2>1. Becomes(stream, "over", channel, <<>>) /\ turn' = turn
    BY <1>3 DEF RequestReturns
  <2>2. Placed(stream, "over", channel, turn', sent') /\ Waits(stream, "over", <<>>, sent')
    BY <1>1, <1>3, <2>1, NoneWait DEF Placed
  <2>3. Holds(stream, Due("over", sent'), left')
    BY <1>1 DEF Due
  <2>4. TurnInv'
    BY <1>1, <1>2, <2>1, <2>2, <2>3, NoneWait, BecomesTurn DEF SetUpType
  <2>5. stream' = stream
    BY <2>1 DEF Becomes
  <2> QED
    BY <2>4, <2>5 DEF Same
<1>4. CASE RequestReturns /\ ~stream.ended
  <2>1. PICK p, s : p = Pushed(stream, Accepted) /\ s = AllDelivered(p, pending)
    OBVIOUS
  <2>2. Becomes(s, "streaming", channel, <<>>) /\ turn' = turn /\ turn = "admitted"
    BY <1>4, <2>1 DEF RequestReturns
  <2>3. Holds(p, 1, left) /\ ~p.waiting /\ (Same(stream, p) \/ Gets(stream, p))
    <3>1. Accepted = 0 /\ 0 + 1 = 1
      BY DEF Accepted
    <3> QED
      BY <1>1, <1>2, <1>4, <2>1, <3>1, PushedHolds
  <2>4. Holds(s, sent + 1, left) /\ Same(p, s)
    BY <1>1, <1>2, <1>4, <2>1, <2>3, AllDeliveredHolds DEF PendingType
  <2>5. Placed(s, "streaming", channel, turn', sent') /\ Waits(s, "streaming", <<>>, sent')
    BY <1>1, <1>4, <2>2, NoneWait DEF Placed
  <2>6. Holds(s, Due("streaming", sent'), left')
    BY <1>1, <2>4 DEF Due
  <2>7. TurnInv'
    BY <1>1, <1>2, <2>2, <2>5, <2>6, NoneWait, BecomesTurn DEF SetUpType
  <2>8. stream' = s
    BY <2>2 DEF Becomes
  <2>9. Same(stream, s) \/ Gets(stream, s)
    BY <2>3, <2>4 DEF Same, Gets
  <2> QED
    BY <2>2, <2>7, <2>8, <2>9
<1>5. CASE RequestFails
  <2>1. PICK s, ch : s = Failed(stream) /\ ch = IF Held(channel) THEN "released" ELSE channel
    OBVIOUS
  <2>2. Becomes(s, "over", ch, <<>>) /\ turn' \in {"none", "admitted", "refused"}
        /\ (turn' = turn \/ (turn = "none" /\ turn' = "refused"))
    BY <1>1, <1>5, <2>1 DEF RequestFails, SetUpType
  <2>3. s.ended /\ Holds(s, 0, left) /\ (Same(stream, s) \/ Errs(stream, s))
    BY <1>1, <1>2, <2>1, FailedEnds, FailedHolds
  <2>4. Placed(s, "over", ch, turn', sent') /\ Waits(s, "over", <<>>, sent')
    BY <1>1, <2>2, <2>3, NoneWait DEF Placed
  <2>5. Holds(s, Due("over", sent'), left')
    BY <1>1, <2>3 DEF Due
  <2>6. ch \in {"none", "opening", "live", "released", "lost"}
    BY <1>1, <2>1 DEF SetUpType
  <2>7. TurnInv'
    BY <1>1, <1>2, <2>2, <2>4, <2>5, <2>6, NoneWait, BecomesTurn DEF SetUpType
  <2>8. stream' = s
    BY <2>2 DEF Becomes
  <2> QED
    BY <2>3, <2>7, <2>8
<1> QED
  BY <1>3, <1>4, <1>5

(* Steps that leave the stream and its phase alone. *)
LEMMA SourceTurn == ASSUME TurnInv, Subscribed \/ Admitted PROVE TurnInv'
<1>1. CASE Subscribed
  <2>1. /\ channel = "opening" /\ channel' = "live" /\ source' = source /\ phase' = phase
        /\ pending' = pending /\ stream' = stream /\ left' = left /\ turn' = turn /\ sent' = sent
    BY <1>1 DEF Subscribed
  <2>2. Placed(stream, phase, "live", turn, sent)
    BY <2>1 DEF TurnInv, Placed, Held
  <2> QED
    BY <2>1, <2>2 DEF TurnInv, SetUpType, PendingType
<1>2. CASE Admitted
  <2>1. /\ phase = "requesting" /\ turn = "none" /\ turn' = "admitted"
        /\ source' = source /\ phase' = phase /\ channel' = channel
        /\ pending' = pending /\ stream' = stream /\ left' = left /\ sent' = sent
    BY <1>2 DEF Admitted
  <2>2. Placed(stream, phase, channel, "admitted", sent)
    BY <2>1 DEF TurnInv, Placed
  <2> QED
    BY <2>1, <2>2 DEF TurnInv, SetUpType, PendingType
<1> QED
  BY <1>1, <1>2

(* An event of the turn: it goes to the stream, or waits, or finds nobody. *)
LEMMA OwnEventTurn ==
  ASSUME TurnInv, OwnEvent
  PROVE  /\ TurnInv'
         /\ Same(stream, stream') \/ Errs(stream, stream') \/ Gets(stream, stream')
<1>1. PICK n : n = sent + 1
  OBVIOUS
<1>2. /\ sent' = n /\ turn = "admitted" /\ turn' = turn /\ source' = source /\ left' = left
      /\ Arrives(n) /\ sent < Length
  BY <1>1 DEF OwnEvent
<1>3. /\ sent \in 0..Length /\ n \in 1..Length /\ n \in 0..Length /\ n \in Nat /\ sent \in Nat
      /\ n + 1 \in Nat /\ n \in 1..Foreign /\ Length \in Nat /\ Limit \in Nat /\ n # Foreign
  BY <1>1, <1>2, TurnStreamAssumption DEF TurnInv, SetUpType, Foreign
<1>4. /\ SetUpType /\ PendingType /\ stream \in StreamType /\ left \in BOOLEAN
      /\ Placed(stream, phase, channel, turn, sent) /\ Waits(stream, phase, pending, sent)
      /\ (stream.ended => pending = <<>>)
      /\ Holds(stream, Due(phase, sent), left)
      /\ phase \in {"requesting", "streaming", "over"}
  BY <1>2 DEF TurnInv, SetUpType, Placed, Holds
<1>5. Placed(stream, phase, channel, turn', sent')
  BY <1>2, <1>4 DEF Placed
<1>6. CASE channel # "live" \/ stream.ended
  <2>1. stream' = stream /\ phase' = phase /\ channel' = channel /\ pending' = pending
    BY <1>2, <1>6 DEF Arrives
  <2>2. stream.ended
    BY <1>4, <1>6 DEF Placed
  <2>3. Holds(stream, Due(phase, n), left)
    <3>1. CASE phase = "streaming"
      <4>1. Holds(stream, n, left)
        BY <1>1, <1>4, <3>1 DEF Due
      <4>2. stream.failed \/ left
        BY <1>3, <2>2, <4>1 DEF Holds
      <4>3. Holds(stream, n + 1, left)
        BY <1>3, <1>4, <4>1, <4>2, HoldsMore
      <4> QED
        BY <3>1, <4>3 DEF Due
    <3>2. CASE phase # "streaming"
      BY <1>4, <3>2 DEF Due
    <3> QED
      BY <3>1, <3>2
  <2>4. Waits(stream, phase, pending, n)
    BY <2>2 DEF Waits
  <2>5. TurnInv'
    BY <1>2, <1>3, <1>4, <1>5, <2>1, <2>2, <2>3, <2>4 DEF TurnInv, SetUpType, PendingType
  <2> QED
    BY <2>1, <2>5 DEF Same
<1>7. CASE channel = "live" /\ ~stream.ended /\ phase = "streaming"
  <2>1. PICK s : s = Delivered(stream, n)
    OBVIOUS
  <2>2. Becomes(s, phase, channel, pending)
    BY <1>2, <1>7, <2>1 DEF Arrives
  <2>3. Holds(stream, n, left)
    BY <1>1, <1>4, <1>7 DEF Due
  <2>4. Holds(s, n + 1, left) /\ (Same(stream, s) \/ Gets(stream, s))
    BY <1>3, <1>4, <2>1, <2>3, DeliveredHolds
  <2>5. Placed(s, phase, channel, turn', sent')
    BY <1>5, <1>7 DEF Placed
  <2>6. Waits(s, phase, pending, sent')
    BY <1>4, <1>7 DEF Waits
  <2>7. Holds(s, Due(phase, sent'), left')
    BY <1>2, <1>7, <2>4 DEF Due
  <2>8. TurnInv'
    BY <1>2, <1>3, <1>4, <2>2, <2>5, <2>6, <2>7, BecomesTurn DEF SetUpType, PendingType
  <2>9. stream' = s
    BY <2>2 DEF Becomes
  <2> QED
    BY <2>4, <2>8, <2>9
<1>8. CASE channel = "live" /\ ~stream.ended /\ phase # "streaming"
  <2>1. phase = "requesting" /\ Early(pending, sent) /\ Holds(stream, 0, left)
    BY <1>4, <1>8 DEF Placed, Waits, Due
  <2>2. CASE Len(pending) = Limit
    <3>1. PICK s : s = Failed(stream)
      OBVIOUS
    <3>2. Becomes(s, phase, channel, pending)
      BY <1>2, <1>8, <2>2, <3>1 DEF Arrives
    <3>3. s.ended /\ Holds(s, 0, left) /\ (Same(stream, s) \/ Errs(stream, s))
      BY <1>4, <2>1, <3>1, FailedEnds, FailedHolds
    <3>4. Placed(s, phase, channel, turn', sent') /\ Waits(s, phase, pending, sent')
      BY <1>5, <1>8, <3>3 DEF Placed, Waits
    <3>5. Holds(s, Due(phase, sent'), left')
      BY <1>2, <2>1, <3>3 DEF Due
    <3>6. TurnInv'
      BY <1>2, <1>3, <1>4, <3>2, <3>4, <3>5, BecomesTurn DEF SetUpType, PendingType
    <3>7. stream' = s
      BY <3>2 DEF Becomes
    <3> QED
      BY <3>3, <3>6, <3>7
  <2>3. CASE Len(pending) # Limit
    <3>1. PICK evs : evs = Append(pending, n)
      OBVIOUS
    <3>2. Becomes(stream, phase, channel, evs)
      BY <1>2, <1>8, <2>3, <3>1 DEF Arrives
    <3>3. evs \in Seq(1..Foreign) /\ Len(evs) <= Limit
      <4>1. PICK k \in Nat : k = Len(pending)
        BY <1>4 DEF PendingType
      <4>2. k <= Limit /\ k # Limit /\ Len(evs) = k + 1 /\ evs \in Seq(1..Foreign)
        BY <1>3, <1>4, <2>3, <3>1, <4>1 DEF PendingType
      <4> QED
        BY <1>3, <4>1, <4>2
    <3>4. Early(evs, n)
      BY <1>1, <1>3, <1>4, <2>1, <3>1, EarlyMore DEF PendingType
    <3>5. Waits(stream, phase, evs, sent')
      BY <1>2, <2>1, <3>4 DEF Waits
    <3>6. Holds(stream, Due(phase, sent'), left')
      BY <1>2, <2>1 DEF Due
    <3>7. TurnInv'
      BY <1>2, <1>3, <1>4, <1>5, <3>2, <3>3, <3>5, <3>6, BecomesTurn DEF SetUpType
    <3>8. stream' = stream
      BY <3>2 DEF Becomes
    <3> QED
      BY <3>7, <3>8 DEF Same
  <2> QED
    BY <2>2, <2>3
<1> QED
  BY <1>6, <1>7, <1>8

(* An event of another turn is dropped, or waits. *)
LEMMA ForeignEventTurn ==
  ASSUME TurnInv, ForeignEvent
  PROVE  TurnInv' /\ (Same(stream, stream') \/ Errs(stream, stream'))
<1>1. /\ turn' = turn /\ source' = source /\ left' = left /\ sent' = sent
      /\ Arrives(Foreign) /\ channel = "live"
  BY DEF ForeignEvent
<1>2. /\ Length \in Nat /\ Limit \in Nat /\ sent \in Nat /\ sent \in 0..Length
      /\ Foreign \in 1..Foreign /\ 0 \in Nat
  BY TurnStreamAssumption DEF TurnInv, SetUpType, Foreign
<1>3. /\ SetUpType /\ PendingType /\ stream \in StreamType /\ left \in BOOLEAN
      /\ Placed(stream, phase, channel, turn, sent) /\ Waits(stream, phase, pending, sent)
      /\ (stream.ended => pending = <<>>)
      /\ Holds(stream, Due(phase, sent), left)
      /\ phase \in {"resolving", "subscribing", "requesting", "streaming", "over"}
  BY DEF TurnInv, SetUpType, Holds
<1>4. CASE stream.ended
  <2>1. stream' = stream /\ phase' = phase /\ channel' = channel /\ pending' = pending
    BY <1>1, <1>4 DEF Arrives
  <2> QED
    BY <1>1, <2>1 DEF TurnInv, SetUpType, PendingType, Same
<1>5. CASE ~stream.ended /\ phase = "streaming"
  <2>1. Delivered(stream, Foreign) = stream
    BY DEF Delivered
  <2>2. Becomes(stream, phase, channel, pending)
    BY <1>1, <1>5, <2>1 DEF Arrives
  <2>3. TurnInv'
    BY <1>1, <1>2, <1>3, <2>2, BecomesTurn DEF SetUpType, PendingType
  <2>4. stream' = stream
    BY <2>2 DEF Becomes
  <2> QED
    BY <2>3, <2>4 DEF Same
<1>6. CASE ~stream.ended /\ phase # "streaming"
  <2>1. phase \in {"subscribing", "requesting"} /\ Early(pending, sent) /\ Holds(stream, 0, left)
    BY <1>1, <1>3, <1>6 DEF Placed, Waits, Due
  <2>2. CASE Len(pending) = Limit
    <3>1. PICK s : s = Failed(stream)
      OBVIOUS
    <3>2. Becomes(s, phase, channel, pending)
      BY <1>1, <1>6, <2>2, <3>1 DEF Arrives
    <3>3. s.ended /\ Holds(s, 0, left) /\ (Same(stream, s) \/ Errs(stream, s))
      BY <1>2, <1>3, <2>1, <3>1, FailedEnds, FailedHolds
    <3>4. Placed(s, phase, channel, turn', sent') /\ Waits(s, phase, pending, sent')
      BY <1>1, <1>3, <2>1, <3>3 DEF Placed, Waits
    <3>5. Holds(s, Due(phase, sent'), left')
      BY <1>1, <2>1, <3>3 DEF Due
    <3>6. TurnInv'
      BY <1>1, <1>2, <1>3, <3>2, <3>4, <3>5, BecomesTurn DEF SetUpType, PendingType
    <3>7. stream' = s
      BY <3>2 DEF Becomes
    <3> QED
      BY <3>3, <3>6, <3>7
  <2>3. CASE Len(pending) # Limit
    <3>1. PICK evs : evs = Append(pending, Foreign)
      OBVIOUS
    <3>2. Becomes(stream, phase, channel, evs)
      BY <1>1, <1>6, <2>3, <3>1 DEF Arrives
    <3>3. evs \in Seq(1..Foreign) /\ Len(evs) <= Limit
      <4>1. PICK k \in Nat : k = Len(pending)
        BY <1>3 DEF PendingType
      <4>2. k <= Limit /\ k # Limit /\ Len(evs) = k + 1 /\ evs \in Seq(1..Foreign)
        BY <1>2, <1>3, <2>3, <3>1, <4>1 DEF PendingType
      <4> QED
        BY <1>2, <4>1, <4>2
    <3>4. Early(evs, sent)
      BY <1>2, <1>3, <2>1, <3>1, EarlyMore DEF PendingType
    <3>5. Waits(stream, phase, evs, sent')
      BY <1>1, <2>1, <3>4 DEF Waits
    <3>6. TurnInv'
      BY <1>1, <1>2, <1>3, <3>2, <3>3, <3>5, BecomesTurn DEF SetUpType
    <3>7. stream' = stream
      BY <3>2 DEF Becomes
    <3> QED
      BY <3>6, <3>7 DEF Same
  <2> QED
    BY <2>2, <2>3
<1> QED
  BY <1>4, <1>5, <1>6

(* The connection of a socket is lost: the stream fails. *)
LEMMA ChannelLostTurn ==
  ASSUME TurnInv, ChannelLost
  PROVE  TurnInv' /\ (Same(stream, stream') \/ Errs(stream, stream'))
<1>1. /\ turn' = turn /\ source' = source /\ left' = left /\ sent' = sent
      /\ Held(channel)
  BY DEF ChannelLost
<1>2. /\ Due(phase, sent) \in Nat /\ sent \in 0..Length
  BY TurnStreamAssumption DEF TurnInv, SetUpType, Due
<1>3. /\ SetUpType /\ PendingType /\ stream \in StreamType /\ left \in BOOLEAN
      /\ Placed(stream, phase, channel, turn, sent)
      /\ Holds(stream, Due(phase, sent), left)
      /\ phase \in {"resolving", "subscribing", "requesting", "streaming", "over"}
  BY DEF TurnInv, SetUpType, Holds
<1>4. PICK s : s = Failed(stream)
  OBVIOUS
<1>5. Becomes(s, phase, "lost", pending)
  BY <1>4 DEF ChannelLost
<1>6. s.ended /\ Holds(s, Due(phase, sent), left) /\ (Same(stream, s) \/ Errs(stream, s))
  BY <1>2, <1>3, <1>4, FailedEnds, FailedHolds
<1>7. Placed(s, phase, "lost", turn', sent')
  BY <1>1, <1>3, <1>6 DEF Placed, Held
<1>8. Waits(s, phase, pending, sent')
  BY <1>6 DEF Waits
<1>9. TurnInv'
  BY <1>1, <1>2, <1>3, <1>5, <1>6, <1>7, <1>8, BecomesTurn DEF SetUpType, PendingType
<1>10. stream' = s
  BY <1>5 DEF Becomes
<1> QED
  BY <1>6, <1>9, <1>10

(* The consumer asks. *)
LEMMA AskTurn ==
  ASSUME TurnInv, Ask
  PROVE  /\ TurnInv'
         /\ \/ Same(stream, stream') \/ Gets(stream, stream') \/ Errs(stream, stream')
            \/ Ends(stream, stream') /\ (left \/ Len(stream.got) = Length + 1)
<1>1. /\ UNCHANGED <<source, phase, channel, pending, left, turn, sent>>
      /\ stream' = Asked(stream) /\ ~stream.waiting /\ stream.outcome = "none"
  BY DEF Ask
<1>2. Due(phase, sent) \in Nat /\ left \in BOOLEAN /\ Holds(stream, Due(phase, sent), left)
  BY TurnStreamAssumption DEF TurnInv, SetUpType, Due
<1>3. PICK s : s = Asked(stream)
  OBVIOUS
<1>4. /\ Holds(s, Due(phase, sent), left) /\ s.ended = stream.ended
      /\ \/ Same(stream, s) \/ Gets(stream, s) \/ Errs(stream, s)
         \/ Ends(stream, s) /\ (left \/ Len(stream.got) = Length + 1)
  BY <1>1, <1>2, <1>3, AskedHolds
<1>5. Placed(s, phase, channel, turn, sent) /\ Waits(s, phase, pending, sent)
  BY <1>4 DEF TurnInv, Placed, Waits
<1>6. TurnInv'
  BY <1>1, <1>3, <1>4, <1>5 DEF TurnInv, SetUpType, PendingType
<1> QED
  BY <1>1, <1>3, <1>4, <1>6

(* The consumer closes the stream. *)
LEMMA CloseTurn ==
  ASSUME TurnInv, Close
  PROVE  TurnInv' /\ (Same(stream, stream') \/ Ends(stream, stream'))
<1>1. /\ turn' = turn /\ source' = source /\ left' = TRUE /\ sent' = sent
  BY DEF Close
<1>2. Due(phase, sent) \in Nat /\ sent \in 0..Length
  BY TurnStreamAssumption DEF TurnInv, SetUpType, Due
<1>3. /\ SetUpType /\ PendingType /\ stream \in StreamType /\ left \in BOOLEAN
      /\ Placed(stream, phase, channel, turn, sent)
      /\ Holds(stream, Due(phase, sent), left)
      /\ phase \in {"resolving", "subscribing", "requesting", "streaming", "over"}
  BY DEF TurnInv, SetUpType, Holds
<1>4. PICK s : s = Closed(stream)
  OBVIOUS
<1>5. Becomes(s, phase, channel, pending)
  BY <1>4 DEF Close
<1>6. s.ended /\ Holds(s, Due(phase, sent), TRUE) /\ (Same(stream, s) \/ Ends(stream, s))
  BY <1>2, <1>3, <1>4, ClosedHolds
<1>7. Placed(s, phase, channel, turn', sent')
  BY <1>1, <1>3, <1>6 DEF Placed
<1>8. Waits(s, phase, pending, sent')
  BY <1>6 DEF Waits
<1>9. TurnInv'
  BY <1>1, <1>2, <1>3, <1>5, <1>6, <1>7, <1>8, BecomesTurn DEF SetUpType, PendingType
<1>10. stream' = s
  BY <1>5 DEF Becomes
<1> QED
  BY <1>6, <1>9, <1>10

(* Every step of the turn stream preserves the invariant; what its         *)
(* consumer has been given only grows.                                     *)
LEMMA StepTurn ==
  ASSUME TurnInv, [Next]_vars
  PROVE  /\ TurnInv'
         /\ \/ Same(stream, stream') \/ Gets(stream, stream')
            \/ Errs(stream, stream') \/ Ends(stream, stream')
<1>1. CASE UNCHANGED vars
  BY <1>1 DEF vars, TurnInv, SetUpType, PendingType, Same
<1>2. CASE SetUp
  BY <1>2, ResolveTurn, SubscribeTurn, RequestTurn DEF SetUp
<1>3. CASE Subscribed \/ Admitted
  <2>1. Same(stream, stream')
    BY <1>3 DEF Subscribed, Admitted, Same
  <2> QED
    BY <1>3, <2>1, SourceTurn
<1> QED
  BY <1>1, <1>2, <1>3, OwnEventTurn, ForeignEventTurn, ChannelLostTurn, AskTurn, CloseTurn
  DEF Next

(* Consecutive numbers, and then those that follow them. *)
LEMMA ConsecutiveJoin ==
  ASSUME NEW X, NEW p \in Seq(X), NEW q \in Seq(X), NEW a \in Nat, NEW b \in Nat,
         Len(p) = a, Len(q) = b, NEW from \in Nat,
         Consecutive(p, from), Consecutive(q, from + a)
  PROVE  Consecutive(p \o q, from)
<1>1. PICK r : r = p \o q
  OBVIOUS
<1>2. /\ r \in Seq(X) /\ Len(r) = a + b
      /\ \A i \in 1..a : r[i] = p[i]
      /\ \A i \in 1..b : r[a + i] = q[i]
  <2>1. /\ p \o q \in Seq(X) /\ Len(p \o q) = Len(p) + Len(q)
        /\ \A i \in 1..Len(p) : (p \o q)[i] = p[i]
        /\ \A i \in 1..Len(q) : (p \o q)[Len(p) + i] = q[i]
    OBVIOUS
  <2> QED
    BY <1>1, <2>1, Zenon
<1>3. DOMAIN r = 1..(a + b) /\ DOMAIN p = 1..a /\ DOMAIN q = 1..b
  BY <1>2
<1>4. ASSUME NEW i \in DOMAIN r PROVE r[i] = from + i - 1
  <2>1. i \in 1..(a + b)
    BY <1>3
  <2>2. CASE i \in 1..a
    BY <1>2, <1>3, <2>2 DEF Consecutive
  <2>3. CASE i \notin 1..a
    <3>1. PICK j : j = i - a
      OBVIOUS
    <3>2. j \in 1..b /\ i = a + j
      BY <2>1, <2>3, <3>1
    <3>3. r[i] = q[j] /\ q[j] = (from + a) + j - 1
      BY <1>2, <1>3, <3>2 DEF Consecutive
    <3> QED
      BY <3>2, <3>3
  <2> QED
    BY <2>2, <2>3
<1> QED
  BY <1>1, <1>4 DEF Consecutive

(* The invariant says what is in a stream in terms of its two parts. *)
LEMMA TurnIsSafe == TurnInv => TypeOK /\ NoGaps
<1> SUFFICES ASSUME TurnInv PROVE TypeOK /\ NoGaps
  OBVIOUS
<1>1. PICK n : n = Due(phase, sent)
  OBVIOUS
<1>2. /\ n \in Nat /\ n <= sent + 1 /\ sent \in Nat /\ Holds(stream, n, left)
      /\ (phase = "streaming" => n = sent + 1)
  BY <1>1 DEF TurnInv, SetUpType, Due
<1>3. PICK a \in Nat, b \in Nat : a = Len(stream.got) /\ b = Len(stream.queue) /\ Fill(stream) = a + b
  BY <1>2, FillIs DEF Holds
<1>4. stream \in StreamType /\ stream.got \in Seq(0..Length) /\ stream.queue \in Seq(0..Length)
  BY <1>2, StreamFields DEF Holds
<1>5. TypeOK
  <2>1. pending # <<>> => phase \in {"subscribing", "requesting"} /\ ~stream.ended
    BY DEF TurnInv, Waits
  <2> QED
    BY <1>2, <1>4, <2>1 DEF TypeOK, TurnInv, SetUpType, PendingType, Holds, StreamType
<1>6. \A i \in DOMAIN stream.got : stream.got[i] = i - 1
  <2>1. \A i \in DOMAIN stream.got : stream.got[i] = 0 + i - 1 /\ i \in Nat
    BY <1>2, <1>4 DEF Holds, Consecutive
  <2> QED
    BY <2>1
<1>7. Len(stream.got) <= sent + 1
  <2>1. a + b <= n
    BY <1>2, <1>3 DEF Holds
  <2>3. a \in Nat /\ b \in Nat /\ n \in Nat /\ sent \in Nat /\ n <= sent + 1
    BY <1>2, <1>3
  <2>4. a <= sent + 1
    BY <2>1, <2>3
  <2> QED
    BY <1>3, <2>4
<1>8. ASSUME phase = "streaming", ~stream.failed, ~left
      PROVE  stream.got \o stream.queue = [i \in 1..(sent + 1) |-> i - 1]
  <2>1. a + b = sent + 1
    BY <1>2, <1>3, <1>8 DEF Holds
  <2>2. PICK g, q : g = stream.got /\ q = stream.queue
    OBVIOUS
  <2>3. /\ g \in Seq(0..Length) /\ Len(g) = a /\ Consecutive(g, 0)
        /\ q \in Seq(0..Length) /\ Len(q) = b /\ Consecutive(q, 0 + a)
    BY <1>2, <1>3, <1>4, <2>2 DEF Holds
  <2>4. PICK r, X : r = g \o q /\ X = 0..Length
    OBVIOUS
  <2>5. r \in Seq(X) /\ Len(r) = a + b
    <3>1. g \in Seq(X) /\ q \in Seq(X) /\ a \in Nat /\ b \in Nat
      BY <1>3, <2>3, <2>4
    <3>2. Len(g) = a /\ Len(q) = b
      BY <2>3
    <3>3. g \o q \in Seq(X) /\ Len(g \o q) = Len(g) + Len(q)
      BY <3>1
    <3> QED
      BY <2>4, <3>2, <3>3, Zenon
  <2>6. Consecutive(r, 0)
    <3>1. 0 \in Nat /\ a \in Nat /\ b \in Nat
      BY <1>3
    <3> QED
      BY <2>3, <2>4, <3>1, ConsecutiveJoin, Zenon
  <2>7. r = [i \in 1..(sent + 1) |-> i - 1]
    <3>1. DOMAIN r = 1..(sent + 1) /\ r = [i \in DOMAIN r |-> r[i]]
      BY <2>1, <2>5
    <3>2. \A i \in DOMAIN r : r[i] = i - 1
      BY <2>6, <3>1 DEF Consecutive
    <3> QED
      BY <3>1, <3>2
  <2> QED
    BY <2>2, <2>4, <2>7
<1>9. NoGaps
  BY <1>6, <1>7, <1>8 DEF NoGaps
<1> QED
  BY <1>5, <1>9

(* At every moment a turn stream keeps to its buffers and has given its    *)
(* consumer the beginning of the turn without a gap, for turns and buffers *)
(* of any size; one that is open holds all of it.                          *)
THEOREM TurnStreamSafe == Spec => [](TypeOK /\ NoGaps)
<1>1. TurnInv /\ [Next]_vars => TurnInv'
  BY StepTurn
<1> QED
  BY InitTurn, <1>1, TurnIsSafe, PTL DEF Spec

-----------------------------------------------------------------------------
(* Behind an HTTP response.                                                *)

(* The listener and the handler's finally close the stream once.           *)
LEMMA ClosedSteps == ASSUME StreamClosed PROVE [Next]_vars
BY DEF StreamClosed, Next

(* The handler's steps ask, close, or leave the stream alone.              *)
LEMMA DaemonSteps == ASSUME Daemon PROVE [Next]_vars
<1>1. CASE LoopAsks
  BY <1>1 DEF LoopAsks, Next
<1>2. CASE LoopWrites
  BY <1>2 DEF LoopWrites
<1>3. CASE LoopThrows
  BY <1>3, ClosedSteps DEF LoopThrows
<1>4. CASE LoopEnds
  BY <1>4 DEF LoopEnds
<1>5. CASE Flush
  BY <1>5 DEF Flush
<1>6. CASE DrainTimeout
  BY <1>6 DEF DrainTimeout, Destroyed
<1>7. CASE ResponseCloses
  BY <1>7, ClosedSteps DEF ResponseCloses
<1>8. CASE GraceEnds
  BY <1>8 DEF GraceEnds, Destroyed
<1> QED
  BY <1>1, <1>2, <1>3, <1>4, <1>5, <1>6, <1>7, <1>8 DEF Daemon

(* The client is at the other end of the response.                         *)
LEMMA ClientSteps == ASSUME Client PROVE UNCHANGED vars
BY DEF Client, Opens, OpenFails, Read, ConsumerAsks, ConsumerCloses, ClientCloses, ClientBecomes

(* A step of the whole is one of the turn stream or leaves it alone.       *)
LEMMA HttpSteps == ASSUME [HttpNext]_allVars PROVE [Next]_vars
<1>1. CASE Inner
  BY <1>1 DEF Inner, Next
<1>2. CASE Daemon
  BY <1>2, DaemonSteps
<1>3. CASE Stop
  BY <1>3 DEF Stop
<1>4. CASE ConnectionLost
  BY <1>4 DEF ConnectionLost, Destroyed
<1>5. CASE Client
  BY <1>5, ClientSteps
<1>6. CASE UNCHANGED allVars
  BY <1>6 DEF allVars
<1> QED
  BY <1>1, <1>2, <1>3, <1>4, <1>5, <1>6 DEF HttpNext

(* The turn stream behind an HTTP response is a turn stream: handleRequest *)
(* consumes createTurnStream's stream without a way around it.             *)
THEOREM HttpImplementsTurnStream == HttpSpec => Spec
<1>1. HttpInit => Init
  BY DEF HttpInit
<1>2. [HttpNext]_allVars => [Next]_vars
  BY HttpSteps
<1> QED
  BY <1>1, <1>2, PTL DEF HttpSpec, Spec

(* A turn stream that has ended holds no subscription once its set-up has  *)
(* returned, when HTTP clients leave, stop reading or lose their           *)
(* connections, and when the server closes, as well.                       *)
THEOREM HttpSubscriptionGivenUp == HttpSpec => []GivenUp
BY HttpImplementsTurnStream, SubscriptionGivenUp, PTL

-----------------------------------------------------------------------------
(* What is under way to the client.                                        *)

Frame == 0..Cut

(* q begins with the frames of the stream from d on, no more of them than  *)
(* w, and the first that comes after them is none of the stream's; if q is *)
(* whole and there is none, it has them all.                               *)
CarriesFirst(q, d, w, whole, k) ==
  /\ k <= Len(q) /\ d + k <= w
  /\ \A i \in 1..k : q[i] = d + i - 1
  /\ k < Len(q) => q[k + 1] > Length
  /\ whole /\ k = Len(q) => d + k = w

Carries(q, d, w, whole) == \E k \in Nat : CarriesFirst(q, d, w, whole, k)

(* What appending does, in terms of the length. *)
LEMMA Appended ==
  ASSUME NEW X, NEW q \in Seq(X), NEW e \in X
  PROVE  \E l \in Nat : /\ Len(q) = l /\ Len(Append(q, e)) = l + 1
                        /\ Append(q, e) \in Seq(X)
                        /\ \A i \in 1..l : Append(q, e)[i] = q[i]
                        /\ Append(q, e)[l + 1] = e
  OBVIOUS

(* The next frame is written. *)
LEMMA CarriesNext ==
  ASSUME NEW q \in Seq(Frame), NEW d \in Nat, NEW w \in 0..Length,
         Carries(q, d, w, TRUE)
  PROVE  Carries(Append(q, w), d, w + 1, TRUE)
<1>1. w \in Frame /\ w \in Nat /\ Length \in Nat
  BY TurnStreamAssumption DEF Frame, Cut
<1>2. PICK r : r = Append(q, w)
  OBVIOUS
<1>3. PICK l \in Nat : /\ Len(q) = l /\ Len(r) = l + 1
                       /\ \A i \in 1..l : r[i] = q[i]
                       /\ r[l + 1] = w
  BY <1>1, <1>2, Appended
<1>4. PICK k \in Nat : /\ k <= l /\ d + k <= w
                       /\ \A i \in 1..k : q[i] = d + i - 1
                       /\ k < l => q[k + 1] > Length
                       /\ k = l => d + k = w
  BY <1>3 DEF Carries, CarriesFirst
<1>5. CASE k < l
  <2>1. \A i \in 1..k : r[i] = d + i - 1
    BY <1>3, <1>4, <1>5
  <2>2. r[k + 1] > Length
    BY <1>3, <1>4, <1>5
  <2>3. CarriesFirst(r, d, w + 1, TRUE, k)
    BY <1>1, <1>3, <1>4, <1>5, <2>1, <2>2 DEF CarriesFirst
  <2> QED
    BY <1>2, <2>3 DEF Carries
<1>6. CASE k = l
  <2>1. \A i \in 1..(k + 1) : r[i] = d + i - 1
    BY <1>1, <1>3, <1>4, <1>6
  <2>2. k + 1 \in Nat /\ k + 1 = Len(r) /\ d + (k + 1) = w + 1
    BY <1>1, <1>3, <1>4, <1>6
  <2>3. CarriesFirst(r, d, w + 1, TRUE, k + 1)
    BY <1>1, <2>1, <2>2 DEF CarriesFirst
  <2> QED
    BY <1>2, <2>2, <2>3 DEF Carries
<1>7. k < l \/ k = l
  BY <1>4
<1> QED
  BY <1>5, <1>6, <1>7

(* Another one is, after which nothing counts. *)
LEMMA CarriesOther ==
  ASSUME NEW q \in Seq(Frame), NEW d \in Nat, NEW w \in Nat, NEW e \in Frame, e > Length,
         NEW some \in BOOLEAN, NEW all \in BOOLEAN, Carries(q, d, w, some)
  PROVE  Carries(Append(q, e), d, w, all)
<1>1. PICK r : r = Append(q, e)
  OBVIOUS
<1>2. PICK l \in Nat : /\ Len(q) = l /\ Len(r) = l + 1
                       /\ \A i \in 1..l : r[i] = q[i]
                       /\ r[l + 1] = e
  BY <1>1, Appended
<1>3. PICK k \in Nat : /\ k <= l /\ d + k <= w
                       /\ \A i \in 1..k : q[i] = d + i - 1
                       /\ k < l => q[k + 1] > Length
  BY <1>2 DEF Carries, CarriesFirst
<1>4. \A i \in 1..k : r[i] = d + i - 1
  BY <1>2, <1>3
<1>5. k < Len(r) /\ r[k + 1] > Length
  BY <1>2, <1>3
<1>6. CarriesFirst(r, d, w, all, k)
  BY <1>2, <1>3, <1>4, <1>5 DEF CarriesFirst
<1> QED
  BY <1>1, <1>6 DEF Carries

(* What is left when the unsent frames are lost. *)
LEMMA CarriesSent ==
  ASSUME NEW p \in Seq(Frame), NEW q \in Seq(Frame), NEW d \in Nat, NEW w \in Nat,
         NEW some \in BOOLEAN, Carries(p \o q, d, w, some)
  PROVE  Carries(p, d, w, FALSE)
<1>1. PICK r : r = p \o q
  OBVIOUS
<1>2. PICK a \in Nat, b \in Nat : a = Len(p) /\ b = Len(q)
  OBVIOUS
<1>3. Len(r) = a + b /\ \A i \in 1..a : r[i] = p[i]
  BY <1>1, <1>2
<1>4. PICK k \in Nat : /\ k <= a + b /\ d + k <= w
                       /\ \A i \in 1..k : r[i] = d + i - 1
                       /\ k < a + b => r[k + 1] > Length
  BY <1>1, <1>3 DEF Carries, CarriesFirst
<1>5. CASE k < a
  <2>1. (\A i \in 1..k : p[i] = d + i - 1) /\ p[k + 1] > Length
    BY <1>3, <1>4, <1>5
  <2>2. CarriesFirst(p, d, w, FALSE, k)
    BY <1>2, <1>4, <1>5, <2>1 DEF CarriesFirst
  <2> QED
    BY <2>2 DEF Carries
<1>6. CASE k >= a
  <2>1. (\A i \in 1..a : p[i] = d + i - 1) /\ d + a <= w
    BY <1>3, <1>4, <1>6
  <2>2. CarriesFirst(p, d, w, FALSE, a)
    BY <1>2, <2>1 DEF CarriesFirst
  <2> QED
    BY <2>2 DEF Carries
<1>7. k < a \/ k >= a
  BY <1>2, <1>4
<1> QED
  BY <1>5, <1>6, <1>7

(* The first frame is taken. *)
LEMMA CarriesTail ==
  ASSUME NEW q \in Seq(Frame), NEW d \in Nat, NEW w \in Nat, NEW whole \in BOOLEAN,
         Carries(q, d, w, whole), q # <<>>, Head(q) <= Length
  PROVE  Head(q) = d /\ d < w /\ Carries(Tail(q), d + 1, w, whole)
<1>1. PICK r : r = Tail(q)
  OBVIOUS
<1>2. PICK l \in Nat : /\ Len(q) = l + 1 /\ Len(r) = l /\ Head(q) = q[1]
                       /\ \A i \in 1..l : r[i] = q[i + 1]
  <2>1. PICK n \in Nat \ {0} : Len(q) = n
    OBVIOUS
  <2>2. Len(r) = n - 1 /\ Head(q) = q[1] /\ \A i \in 1..(n - 1) : r[i] = q[i + 1]
    BY <1>1, <2>1
  <2>3. PICK l \in Nat : l = n - 1
    OBVIOUS
  <2> QED
    BY <2>1, <2>2, <2>3
<1>3. PICK k \in Nat : /\ k <= l + 1 /\ d + k <= w
                       /\ \A i \in 1..k : q[i] = d + i - 1
                       /\ k < l + 1 => q[k + 1] > Length
                       /\ whole /\ k = l + 1 => d + k = w
  BY <1>2 DEF Carries, CarriesFirst
<1>4. k # 0
  <2> SUFFICES ASSUME k = 0 PROVE FALSE
    OBVIOUS
  <2>1. q[1] > Length /\ q[1] <= Length /\ q[1] \in Frame
    BY <1>2, <1>3
  <2> QED
    BY <2>1, TurnStreamAssumption DEF Frame, Cut
<1>5. PICK j \in Nat : k = j + 1
  BY <1>4
<1>6. Head(q) = d /\ d < w
  BY <1>2, <1>3, <1>5
<1>7. \A i \in 1..j : r[i] = (d + 1) + i - 1
  BY <1>2, <1>3, <1>5
<1>8. j <= Len(r) /\ (d + 1) + j <= w /\ (j < Len(r) => r[j + 1] > Length)
      /\ (whole /\ j = Len(r) => (d + 1) + j = w)
  BY <1>2, <1>3, <1>5
<1>9. CarriesFirst(r, d + 1, w, whole, j)
  BY <1>7, <1>8 DEF CarriesFirst
<1> QED
  BY <1>1, <1>6, <1>9 DEF Carries

-----------------------------------------------------------------------------
(* The frames that are sent and those that are not, one after the other.   *)

(* A frame is appended to those that are not sent;                         *)
LEMMA FlowAppend ==
  ASSUME NEW p \in Seq(Frame), NEW q \in Seq(Frame), NEW e \in Frame
  PROVE  /\ p \o q \in Seq(Frame)
         /\ p \o Append(q, e) = Append(p \o q, e)
<1>1. <<e>> \in Seq(Frame) /\ p \o q \in Seq(Frame)
  OBVIOUS
<1>2. Append(q, e) = q \o <<e>> /\ Append(p \o q, e) = (p \o q) \o <<e>>
  BY <1>1, AppendIsConcat
<1> QED
  BY <1>1, <1>2, ConcatAssociative

(* one of them is sent;                                                    *)
LEMMA FlowSend ==
  ASSUME NEW p \in Seq(Frame), NEW q \in Seq(Frame), q # <<>>
  PROVE  Append(p, Head(q)) \o Tail(q) = p \o q
<1>1. PICK e, t : e = Head(q) /\ t = Tail(q)
  OBVIOUS
<1>2. e \in Frame /\ t \in Seq(Frame) /\ <<e>> \in Seq(Frame)
  BY <1>1, HeadTailProperties
<1>3. q = <<e>> \o t
  <2>1. PICK n \in Nat : Len(t) = n /\ Len(q) = n + 1 /\ \A i \in 1..n : q[i + 1] = t[i]
    BY <1>1, HeadTailProperties
  <2>2. PICK r : r = <<e>> \o t
    OBVIOUS
  <2>3. /\ r \in Seq(Frame) /\ Len(r) = n + 1 /\ r[1] = e
        /\ \A i \in 1..n : r[i + 1] = t[i]
    BY <1>2, <2>1, <2>2
  <2>4. ASSUME NEW i \in 1..(n + 1) PROVE r[i] = q[i]
    <3>1. CASE i = 1
      BY <1>1, <2>3, <3>1
    <3>2. CASE i # 1
      <4>1. PICK j \in 1..n : i = j + 1
        BY <2>1, <2>4, <3>2
      <4> QED
        BY <2>1, <2>3, <4>1
    <3> QED
      BY <3>1, <3>2
  <2> QED
    BY <2>1, <2>2, <2>3, <2>4, SeqEqual
<1>4. Append(p, e) = p \o <<e>>
  BY <1>2, AppendIsConcat
<1> QED
  BY <1>1, <1>2, <1>3, <1>4, ConcatAssociative

(* the first of those that are sent is read.                               *)
LEMMA FlowTake ==
  ASSUME NEW p \in Seq(Frame), NEW q \in Seq(Frame), p # <<>>
  PROVE  /\ p \o q # <<>> /\ p \o q \in Seq(Frame)
         /\ Head(p \o q) = Head(p) /\ Tail(p \o q) = Tail(p) \o q
  OBVIOUS

-----------------------------------------------------------------------------
(* The invariant of a turn stream behind an HTTP response.                 *)

(* The values of the variables of the response and of the client.          *)
HttpTypes ==
  /\ loop \in {"asking", "draining", "over"}
  /\ written \in Nat
  /\ response \in {"open", "ending", "ended", "destroyed", "closed"}
  /\ out \in Seq(0..Error) /\ wire \in Seq(Frame)
  /\ reader \in {"opening", "reading", "over"}
  /\ gone \in BOOLEAN /\ responsive \in BOOLEAN /\ stopping \in BOOLEAN

(* How full the response is: the handler writes when it is not, and one    *)
(* error may come on top, of its own, and another of the close.            *)
Pressure ==
  /\ Len(out) <= HighWater + 1
  /\ response = "open" => Len(out) <= HighWater /\ loop # "over"
  /\ response = "ending" /\ loop = "asking" => Len(out) <= HighWater
  /\ response = "ending" /\ ~stopping => Len(out) <= HighWater /\ loop = "over"
  /\ loop = "asking" /\ response = "open" => Len(out) < HighWater
  /\ Broken => out = <<>>
  /\ Len(wire) <= Window + 1
  /\ response # "closed" => Len(wire) <= Window

(* The client's stream holds the frames it has taken.                      *)
ClientInv ==
  /\ reader = "opening" => client = EmptyStream /\ ~gone
  /\ reader = "reading" => ~client.ended
  /\ Holds(client, Fill(client), gone)
  /\ Fill(client) <= written

(* What is under way follows what it has taken.                            *)
FlowInv ==
  reader # "over" => Carries(wire \o out, Fill(client), written, ~Broken)

Behind == HttpTypes /\ Pressure /\ ClientInv /\ FlowInv

(* The turn stream, its response and its client together: the handler has  *)
(* written no more than its stream has given it.                           *)
HttpInv == TurnInv /\ Behind /\ written <= Len(stream.got)

(* What taking the first does, in terms of the length. *)
LEMMA HeadAndTail ==
  ASSUME NEW X, NEW q \in Seq(X), q # <<>>
  PROVE  \E l \in Nat : /\ Len(q) = l + 1 /\ Len(Tail(q)) = l
                        /\ (l = 0 <=> Tail(q) = <<>>)
                        /\ Tail(q) \in Seq(X) /\ Head(q) \in X
<1>1. PICK n \in Nat : Len(q) = n /\ n # 0
  OBVIOUS
<1>2. PICK l \in Nat : n = l + 1
  BY <1>1
<1>3. PICK r : r = Tail(q)
  OBVIOUS
<1>4. r \in Seq(X) /\ Len(r) = l /\ Head(q) \in X
  BY <1>1, <1>2, <1>3, HeadTailProperties
<1>5. l = 0 <=> r = <<>>
  BY <1>4
<1> QED
  BY <1>1, <1>2, <1>3, <1>4, <1>5

(* An unsent frame is one of those that may be sent. *)
LEMMA OutFrames ==
  ASSUME HttpTypes
  PROVE  /\ out \in Seq(Frame) /\ wire \in Seq(Frame)
         /\ wire \o out \in Seq(Frame)
         /\ (~Broken) \in BOOLEAN
<1>1. 0..Error \subseteq Frame
  BY TurnStreamAssumption DEF Frame, Error, Cut
<1>2. out \in Seq(Frame) /\ wire \in Seq(Frame)
  BY <1>1, SeqMonotonic DEF HttpTypes
<1>3. wire \o out \in Seq(Frame)
  BY <1>2
<1> QED
  BY <1>2, <1>3 DEF Broken

(* The client's part when only the response changes. *)
LEMMA ClientStays ==
  ASSUME Behind, UNCHANGED <<reader, client, gone>>, written' \in Nat, written <= written'
  PROVE  ClientInv'
<1>1. Fill(client) \in Nat /\ Fill(client) <= written /\ written \in Nat
  BY FillType DEF Behind, ClientInv, HttpTypes, Holds
<1>2. Fill(client) <= written'
  BY <1>1
<1> QED
  BY <1>2 DEF Behind, ClientInv

(* Nothing of the response or of the client changes. *)
LEMMA HttpStays == ASSUME Behind, UNCHANGED http PROVE Behind'
BY DEF Behind, http, HttpTypes, Pressure, ClientInv, FlowInv, Broken

(* The handler writes the next frame of the stream. *)
LEMMA WriteStep ==
  ASSUME HttpInv, LoopWrites
  PROVE  Behind' /\ written' = written + 1 /\ written' <= Len(stream.got) /\ stream' = stream
<1>1. /\ loop = "asking" /\ written < Len(stream.got) /\ Writable
      /\ out' = Append(out, stream.got[written + 1]) /\ written' = written + 1
      /\ loop' = IF Len(out') >= HighWater THEN "draining" ELSE "asking"
      /\ UNCHANGED <<response, wire, reader, client, gone, responsive, stopping>>
      /\ stream' = stream
  BY DEF LoopWrites, vars
<1>2. PICK a \in Nat : a = Len(stream.got)
  <2>1. stream \in StreamType
    BY DEF HttpInv, TurnInv, Holds
  <2> QED
    BY <2>1, StreamFields
<1>3. written \in Nat /\ written < a /\ written + 1 <= a /\ written <= written + 1
  BY <1>1, <1>2 DEF HttpInv, Behind, HttpTypes
<1>4. stream.got[written + 1] = written /\ written \in 0..Length
  <2>1. PICK g : g = stream.got
    OBVIOUS
  <2>2. g \in Seq(0..Length) /\ Len(g) = a /\ Consecutive(g, 0)
    BY <1>2, <2>1, StreamFields DEF HttpInv, TurnInv, Holds
  <2>3. PICK i \in 1..a : i = written + 1
    BY <1>2, <1>3
  <2>4. i \in DOMAIN g /\ g[i] \in 0..Length
    <3>1. PICK X : X = 0..Length
      OBVIOUS
    <3>2. g \in Seq(X) /\ i \in 1..Len(g)
      BY <2>2, <2>3, <3>1
    <3>3. g[i] \in X /\ i \in DOMAIN g
      BY <3>2
    <3> QED
      BY <3>1, <3>3
  <2>5. g[i] = 0 + i - 1
    BY <2>2, <2>4 DEF Consecutive
  <2> QED
    BY <1>3, <2>1, <2>3, <2>4, <2>5
<1>5. out' = Append(out, written)
  BY <1>1, <1>4
<1>6. PICK l \in Nat : /\ Len(out) = l /\ Len(out') = l + 1
                       /\ out' \in Seq(0..Error)
  <2>1. written \in 0..Error /\ out \in Seq(0..Error)
    BY <1>4, TurnStreamAssumption DEF Error, HttpInv, Behind, HttpTypes
  <2> QED
    BY <1>5, <2>1, Appended
<1>7. HttpTypes'
  BY <1>1, <1>3, <1>6 DEF HttpInv, Behind, HttpTypes
<1>8. Pressure'
  BY <1>1, <1>6, HttpStreamAssumption DEF HttpInv, Behind, HttpTypes, Pressure, Writable, Broken
<1>9. ClientInv'
  BY <1>1, <1>3, ClientStays DEF HttpInv
<1>10. FlowInv'
  <2> SUFFICES ASSUME reader # "over"
               PROVE  Carries(wire \o Append(out, written), Fill(client), written + 1, TRUE)
    BY <1>1, <1>5 DEF FlowInv, Writable, Broken
  <2>1. Carries(wire \o out, Fill(client), written, TRUE)
    BY <1>1 DEF HttpInv, Behind, FlowInv, Writable, Broken
  <2>2. Fill(client) \in Nat
    BY FillType DEF HttpInv, Behind, ClientInv, Holds
  <2>3. HttpTypes /\ written \in Frame
    BY <1>4, TurnStreamAssumption DEF HttpInv, Behind, Frame, Cut
  <2>4. wire \o out \in Seq(Frame) /\ wire \o Append(out, written) = Append(wire \o out, written)
    BY <2>3, OutFrames, FlowAppend
  <2> QED
    BY <1>4, <2>1, <2>2, <2>4, CarriesNext
<1> QED
  BY <1>1, <1>2, <1>3, <1>7, <1>8, <1>9, <1>10 DEF Behind

(* An error is written after the frames of the stream. *)
LEMMA ErrorFlow ==
  ASSUME Behind, ErrorSent, UNCHANGED <<written, wire, reader, client>>
  PROVE  /\ out' \in Seq(0..Error)
         /\ FlowInv'
<1>1. HttpTypes /\ FlowInv /\ Fill(client) \in Nat /\ written \in Nat
  BY FillType DEF Behind, ClientInv, Holds, HttpTypes
<1>2. CASE Writable
  <2>1. out' = Append(out, Error)
    BY <1>2 DEF ErrorSent
  <2>2. Error \in 0..Error /\ Error \in Frame /\ Error > Length
    BY TurnStreamAssumption DEF Error, Frame, Cut
  <2>3. out' \in Seq(0..Error)
    BY <1>1, <2>1, <2>2 DEF HttpTypes
  <2>4. FlowInv'
    <3> SUFFICES ASSUME reader # "over"
                 PROVE  Carries(wire \o Append(out, Error), Fill(client), written, (~Broken)')
      BY <2>1 DEF FlowInv
    <3>1. Carries(wire \o out, Fill(client), written, ~Broken)
      BY <1>1 DEF FlowInv
    <3>2. (~Broken)' \in BOOLEAN
      BY DEF Broken
    <3>3. /\ wire \o out \in Seq(Frame) /\ (~Broken) \in BOOLEAN
          /\ wire \o Append(out, Error) = Append(wire \o out, Error)
      BY <1>1, <2>2, OutFrames, FlowAppend
    <3> QED
      BY <1>1, <2>2, <3>1, <3>2, <3>3, CarriesOther
  <2> QED
    BY <2>3, <2>4
<1>3. CASE ~Writable
  BY <1>1, <1>3 DEF ErrorSent, HttpTypes, FlowInv, Broken
<1> QED
  BY <1>2, <1>3

(* The handler ends the response, with an error or without. *)
LEMMA EndStep == ASSUME Behind, LoopThrows \/ LoopEnds PROVE Behind' /\ written' = written
<1>1. /\ loop = "asking" /\ loop' = "over"
      /\ UNCHANGED <<written, wire, reader, client, gone, responsive, stopping>>
      /\ written \in Nat
  BY DEF LoopThrows, LoopEnds, Behind, HttpTypes
<1>2. ClientInv'
  BY <1>1, ClientStays
<1>3. CASE LoopEnds /\ stream.outcome = "error"
  <2>1. ErrorSent
    BY <1>3 DEF LoopEnds
  <2>2. out' \in Seq(0..Error) /\ FlowInv'
    BY <1>1, <2>1, ErrorFlow
  <2>3. HttpTypes'
    BY <1>1, <2>1, <2>2 DEF Behind, HttpTypes, ErrorSent
  <2>4. Pressure'
    <3>1. CASE Writable
      <4>1. PICK l \in Nat : Len(out) = l /\ Len(out') = l + 1
        <5>1. Error \in 0..Error /\ out \in Seq(0..Error) /\ out' = Append(out, Error)
          BY <2>1, <3>1, TurnStreamAssumption DEF Error, ErrorSent, Behind, HttpTypes
        <5> QED
          BY <5>1, Appended
      <4>2. response' = IF Len(out') >= HighWater THEN "ending" ELSE "ended"
        BY <2>1, <3>1 DEF ErrorSent
      <4> QED
        BY <1>1, <3>1, <4>1, <4>2, HttpStreamAssumption
        DEF Behind, HttpTypes, Pressure, Writable, Broken
    <3>2. CASE ~Writable
      BY <1>1, <2>1, <3>2 DEF ErrorSent, Behind, HttpTypes, Pressure, Writable, Broken
    <3> QED
      BY <3>1, <3>2
  <2> QED
    BY <1>1, <1>2, <2>2, <2>3, <2>4 DEF Behind
<1>4. CASE LoopThrows \/ (LoopEnds /\ stream.outcome # "error")
  <2>1. /\ out' = out
        /\ response' = IF Writable THEN "ended" ELSE response
    BY <1>4 DEF LoopThrows, LoopEnds
  <2>2. HttpTypes'
    BY <1>1, <2>1 DEF Behind, HttpTypes
  <2>3. Pressure'
    BY <1>1, <2>1 DEF Behind, HttpTypes, Pressure, Writable, Broken
  <2>4. FlowInv'
    BY <1>1, <2>1 DEF Behind, FlowInv, Writable, Broken
  <2> QED
    BY <1>1, <1>2, <2>2, <2>3, <2>4 DEF Behind
<1> QED
  BY <1>3, <1>4

(* The connection takes a frame. *)
LEMMA FlushStep == ASSUME Behind, Flush PROVE Behind' /\ written' = written
<1>1. /\ out # <<>> /\ ~Broken /\ Len(wire) < Window
      /\ wire' = Append(wire, Head(out)) /\ out' = Tail(out)
      /\ IF out' = <<>>
         THEN /\ loop' = IF loop = "draining" THEN "asking" ELSE loop
              /\ response' = IF response = "ending" THEN "ended" ELSE response
         ELSE UNCHANGED <<loop, response>>
      /\ UNCHANGED <<written, reader, client, gone, responsive, stopping>>
  BY DEF Flush
<1>2. HttpTypes /\ written \in Nat
  BY DEF Behind, HttpTypes
<1>3. PICK l \in Nat : /\ Len(out) = l + 1 /\ Len(out') = l /\ (l = 0 <=> out' = <<>>)
                       /\ out' \in Seq(0..Error) /\ Head(out) \in 0..Error
  <2>1. PICK X : X = 0..Error
    OBVIOUS
  <2>2. out \in Seq(X)
    BY <1>2, <2>1 DEF HttpTypes
  <2>3. PICK l \in Nat : /\ Len(out) = l + 1 /\ Len(Tail(out)) = l
                         /\ (l = 0 <=> Tail(out) = <<>>)
                         /\ Tail(out) \in Seq(X) /\ Head(out) \in X
    BY <1>1, <2>2, HeadAndTail
  <2> QED
    BY <1>1, <2>1, <2>3
<1>4. PICK m \in Nat : /\ Len(wire) = m /\ Len(wire') = m + 1 /\ wire' \in Seq(Frame)
  <2>1. Head(out) \in Frame /\ wire \in Seq(Frame)
    BY <1>2, <1>3, TurnStreamAssumption DEF HttpTypes, Frame, Error, Cut
  <2> QED
    BY <1>1, <2>1, Appended
<1>5. HttpTypes'
  BY <1>1, <1>2, <1>3, <1>4 DEF HttpTypes
<1>6. Pressure'
  <2>1. Len(wire') <= Window + 1 /\ Len(wire') <= Window /\ ~Broken'
    BY <1>1, <1>2, <1>4, HttpStreamAssumption DEF Broken, HttpTypes
  <2>2. /\ Len(out') <= HighWater + 1
        /\ response' = "open" => Len(out') <= HighWater /\ loop' # "over"
        /\ response' = "ending" /\ loop' = "asking" => Len(out') <= HighWater
        /\ response' = "ending" /\ ~stopping' => Len(out') <= HighWater /\ loop' = "over"
        /\ loop' = "asking" /\ response' = "open" => Len(out') < HighWater
    BY <1>1, <1>2, <1>3, HttpStreamAssumption DEF Behind, Pressure, HttpTypes
  <2> QED
    BY <2>1, <2>2 DEF Pressure
<1>7. ClientInv'
  BY <1>1, <1>2, ClientStays
<1>8. FlowInv'
  <2>1. wire' \o out' = wire \o out
    BY <1>1, <1>2, OutFrames, FlowSend
  <2>2. ~Broken'
    BY <1>1 DEF Broken
  <2> QED
    BY <1>1, <2>1, <2>2 DEF Behind, FlowInv
<1> QED
  BY <1>1, <1>5, <1>6, <1>7, <1>8 DEF Behind

(* The response is destroyed, with what has not been sent. *)
LEMMA DestroyStep ==
  ASSUME Behind, Destroyed, UNCHANGED stopping
  PROVE  Behind' /\ written' = written
<1>1. /\ ~Broken /\ response' = "destroyed" /\ out' = <<>>
      /\ UNCHANGED <<loop, written, wire, reader, client, gone, responsive, stopping>>
  BY DEF Destroyed
<1>2. HttpTypes /\ written \in Nat /\ Fill(client) \in Nat
  BY FillType DEF Behind, HttpTypes, ClientInv, Holds
<1>3. out' \in Seq(0..Error) /\ Len(out') = 0
  BY <1>1
<1>4. HttpTypes'
  BY <1>1, <1>2, <1>3 DEF HttpTypes
<1>5. Pressure'
  BY <1>1, <1>3, HttpStreamAssumption DEF Behind, Pressure, Broken
<1>6. ClientInv'
  BY <1>1, <1>2, ClientStays
<1>7. FlowInv'
  <2> SUFFICES ASSUME reader # "over"
               PROVE  Carries(wire \o <<>>, Fill(client), written, FALSE)
    BY <1>1 DEF FlowInv, Broken
  <2>1. Carries(wire \o out, Fill(client), written, ~Broken)
    BY DEF Behind, FlowInv
  <2>2. wire \in Seq(Frame) /\ out \in Seq(Frame) /\ (~Broken) \in BOOLEAN
    BY <1>2, OutFrames
  <2>3. wire \o <<>> = wire
    BY <2>2, ConcatEmptySeq
  <2> QED
    BY <1>2, <2>1, <2>2, <2>3, CarriesSent
<1> QED
  BY <1>1, <1>4, <1>5, <1>6, <1>7 DEF Behind

(* The daemon stops. *)
LEMMA StopStep == ASSUME Behind, Stop PROVE Behind' /\ written' = written
<1>1. /\ ~stopping /\ stopping' = TRUE /\ ErrorSent
      /\ UNCHANGED <<loop, written, wire, reader, client, gone, responsive>>
  BY DEF Stop
<1>2. HttpTypes /\ written \in Nat
  BY DEF Behind, HttpTypes
<1>3. out' \in Seq(0..Error) /\ FlowInv'
  BY <1>1, ErrorFlow
<1>4. HttpTypes'
  BY <1>1, <1>2, <1>3 DEF HttpTypes, ErrorSent
<1>5. Pressure'
  <2>1. CASE Writable
    <3>1. PICK l \in Nat : Len(out) = l /\ Len(out') = l + 1
      <4>1. Error \in 0..Error /\ out \in Seq(0..Error) /\ out' = Append(out, Error)
        BY <1>1, <1>2, <2>1, TurnStreamAssumption DEF Error, ErrorSent, HttpTypes
      <4> QED
        BY <4>1, Appended
    <3>2. response' = IF Len(out') >= HighWater THEN "ending" ELSE "ended"
      BY <1>1, <2>1 DEF ErrorSent
    <3> QED
      BY <1>1, <1>2, <2>1, <3>1, <3>2, HttpStreamAssumption
      DEF Behind, HttpTypes, Pressure, Writable, Broken
  <2>2. CASE ~Writable
    BY <1>1, <1>2, <2>2 DEF ErrorSent, Behind, HttpTypes, Pressure, Writable, Broken
  <2> QED
    BY <2>1, <2>2
<1>6. ClientInv'
  BY <1>1, <1>2, ClientStays
<1> QED
  BY <1>1, <1>3, <1>4, <1>5, <1>6 DEF Behind

(* The response closes, after its last frame or destroyed. *)
LEMMA ResponseStep == ASSUME Behind, ResponseCloses PROVE Behind' /\ written' = written
<1> DEFINE last == IF response = "ended" THEN End ELSE Cut
<1>1. /\ response = "destroyed" \/ (response = "ended" /\ out = <<>>)
      /\ response' = "closed"
      /\ wire' = IF reader = "over" THEN wire ELSE Append(wire, last)
      /\ loop' = IF loop = "draining" THEN "over" ELSE loop
      /\ UNCHANGED <<written, out, reader, client, gone, responsive, stopping>>
  BY DEF ResponseCloses
<1>2. HttpTypes /\ written \in Nat /\ Fill(client) \in Nat
  BY FillType DEF Behind, HttpTypes, ClientInv, Holds
<1>3. out = <<>>
  BY <1>1 DEF Behind, Pressure, Broken
<1>4. last \in Frame /\ last > Length
  BY TurnStreamAssumption DEF Frame, End, Cut
<1>5. wire \in Seq(Frame) /\ wire \o out \in Seq(Frame) /\ wire \o out = wire
  BY <1>2, <1>3, OutFrames, ConcatEmptySeq
<1> HIDE DEF last
<1>6. PICK m \in Nat : /\ Len(wire) = m /\ Len(Append(wire, last)) = m + 1
                       /\ Append(wire, last) \in Seq(Frame)
  BY <1>4, <1>5, Appended
<1>7. HttpTypes'
  BY <1>1, <1>2, <1>6 DEF HttpTypes
<1>8. Pressure'
  <2>1. m <= Window
    BY <1>1, <1>6 DEF Behind, Pressure
  <2>2. Len(wire') <= Window + 1
    BY <1>1, <1>6, <2>1, HttpStreamAssumption
  <2>3. Len(out) <= HighWater + 1
    BY DEF Behind, Pressure
  <2> QED
    BY <1>1, <1>3, <2>2, <2>3 DEF Pressure
<1>9. ClientInv'
  BY <1>1, <1>2, ClientStays
<1>10. FlowInv'
  <2> SUFFICES ASSUME reader # "over"
               PROVE  Carries(wire' \o out', Fill(client), written, FALSE)
    BY <1>1 DEF FlowInv, Broken
  <2>1. Carries(wire, Fill(client), written, ~Broken) /\ (~Broken) \in BOOLEAN
    BY <1>2, <1>5, OutFrames DEF Behind, FlowInv
  <2>2. wire' \o out' = Append(wire, last)
    BY <1>1, <1>3, <1>6, ConcatEmptySeq
  <2> QED
    BY <1>2, <1>4, <1>5, <2>1, <2>2, CarriesOther
<1> QED
  BY <1>1, <1>7, <1>8, <1>9, <1>10 DEF Behind

-----------------------------------------------------------------------------
(* The client.                                                             *)

(* The client's stream becomes another, and the rest is under way to it.   *)
LEMMA ClientStep ==
  ASSUME Behind, NEW s, NEW rest, ClientBecomes(s, rest), gone' \in BOOLEAN,
         Holds(s, Fill(s), gone'), Fill(s) <= written,
         rest \in Seq(Frame), Len(rest) <= Len(wire),
         ~s.ended => Carries(rest \o out, Fill(s), written, ~Broken)
  PROVE  Behind'
<1>1. /\ client' = s
      /\ reader' = IF s.ended THEN "over" ELSE "reading"
      /\ wire' = IF s.ended THEN <<>> ELSE rest
      /\ UNCHANGED <<loop, written, response, out, responsive, stopping>>
  BY DEF ClientBecomes
<1>2. HttpTypes
  BY DEF Behind
<1>3. wire' \in Seq(Frame) /\ Len(wire') <= Len(wire)
  <2>1. PICK m \in Nat : m = Len(wire)
    BY <1>2 DEF HttpTypes
  <2>2. <<>> \in Seq(Frame) /\ Len(<<>>) = 0
    OBVIOUS
  <2>3. CASE s.ended
    BY <1>1, <2>1, <2>2, <2>3
  <2>4. CASE ~s.ended
    BY <1>1, <2>4
  <2> QED
    BY <2>3, <2>4
<1>4. HttpTypes'
  BY <1>1, <1>2, <1>3 DEF HttpTypes
<1>5. Pressure'
  <2>1. PICK m \in Nat, l \in Nat : m = Len(wire) /\ l = Len(wire')
    BY <1>2, <1>3 DEF HttpTypes
  <2>2. m <= Window + 1 /\ (response # "closed" => m <= Window) /\ l <= m
    BY <1>3, <2>1 DEF Behind, Pressure
  <2>3. l <= Window + 1 /\ (response # "closed" => l <= Window)
    BY <2>2, HttpStreamAssumption
  <2> QED
    BY <1>1, <2>1, <2>3 DEF Behind, Pressure, Broken
<1>6. ClientInv'
  BY <1>1 DEF ClientInv
<1>7. FlowInv'
  BY <1>1 DEF FlowInv, Broken
<1> QED
  BY <1>4, <1>5, <1>6, <1>7 DEF Behind

(* The end of the client's stream ends its reading. *)
LEMMA ClientEnds ==
  ASSUME Behind, NEW s, NEW n \in Nat, ClientBecomes(s, <<>>),
         gone' \in BOOLEAN, Holds(s, n, gone'), n <= written, s.ended
  PROVE  Behind'
<1>1. Holds(s, Fill(s), gone') /\ Fill(s) \in Nat
  BY HoldsFill
<1>2. written \in Nat /\ wire \in Seq(Frame)
  BY DEF Behind, HttpTypes
<1>3. Fill(s) <= written
  BY <1>1, <1>2 DEF Holds
<1>4. <<>> \in Seq(Frame) /\ Len(<<>>) <= Len(wire)
  <2>1. Len(<<>>) = 0 /\ <<>> \in Seq(Frame) /\ Len(wire) \in Nat
    BY <1>2
  <2> QED
    BY <2>1
<1> QED
  BY <1>1, <1>3, <1>4, ClientStep

(* An open that fails ends the stream with an error. *)
LEMMA RejectedHolds ==
  ASSUME NEW s, NEW n \in Nat, NEW closed \in BOOLEAN, Holds(s, n, closed), ~s.ended
  PROVE  Holds(Rejected(s), n, closed) /\ Rejected(s).ended /\ Errs(s, Rejected(s))
<1>1. PICK f, t : f = Failed(s) /\ t = Rejected(s)
  OBVIOUS
<1>2. /\ f \in StreamType /\ f.queue = <<>> /\ f.got = s.got
      /\ f.failed = TRUE /\ f.ended = TRUE /\ f.waiting = FALSE /\ Holds(f, n, closed)
  BY <1>1, FailedFields, FailedHolds DEF Holds
<1>3. t = [f EXCEPT !.outcome = "error"]
  BY <1>1 DEF Rejected
<1>4. /\ t \in StreamType /\ t.queue = f.queue /\ t.got = f.got /\ t.failed = TRUE
      /\ t.ended = TRUE /\ t.waiting = FALSE /\ t.outcome = "error"
  BY <1>2, <1>3 DEF StreamType
<1>5. Fill(t) = Fill(f)
  BY <1>4, Zenon DEF Fill
<1>6. Holds(t, n, closed)
  BY <1>2, <1>4, <1>5 DEF Holds
<1>7. Errs(s, t)
  BY <1>2, <1>4 DEF Errs, Holds
<1> QED
  BY <1>1, <1>4, <1>6, <1>7

(* A frame is taken: the next of the stream, or one that fails it.         *)
LEMMA TakenHolds ==
  ASSUME Behind, reader = "reading", wire # <<>>, NEW s, s = Taken(client, Head(wire))
  PROVE  /\ Holds(s, Fill(s), gone) /\ Fill(s) <= written
         /\ ~s.ended => Carries(Tail(wire) \o out, Fill(s), written, ~Broken)
         /\ Same(client, s) \/ Gets(client, s) \/ Errs(client, s)
<1>1. PICK d, w, e : d = Fill(client) /\ w = written /\ e = Head(wire)
  OBVIOUS
<1>2. /\ d \in Nat /\ w \in Nat /\ d <= w /\ Holds(client, d, gone) /\ ~client.ended
      /\ gone \in BOOLEAN /\ client \in StreamType /\ HttpTypes
      /\ Carries(wire \o out, d, w, ~Broken)
  <2>1. Behind /\ client \in StreamType
    BY DEF Behind, ClientInv, Holds
  <2> QED
    BY <1>1, <2>1, FillType DEF Behind, ClientInv, HttpTypes, FlowInv
<1>3. /\ Length \in Nat /\ Length # 0 /\ d + 1 \in Nat
  BY <1>2, TurnStreamAssumption
<1>4. e \in Frame /\ Tail(wire) \o out = Tail(wire \o out) /\ Head(wire \o out) = e
      /\ wire \o out # <<>> /\ wire \o out \in Seq(Frame) /\ (~Broken) \in BOOLEAN
  <2>1. wire \in Seq(Frame) /\ out \in Seq(Frame) /\ (~Broken) \in BOOLEAN
    BY <1>2, OutFrames
  <2>2. e \in Frame
    BY <1>1, <2>1
  <2> QED
    BY <1>1, <2>1, <2>2, FlowTake
<1>5. Begun(client) <=> d # 0
  <2>1. PICK a \in Nat, b \in Nat : /\ a = Len(client.got) /\ b = Len(client.queue)
                                    /\ Fill(client) = a + b
    BY <1>2, FillIs
  <2>2. (a = 0 <=> client.got = <<>>) /\ (b = 0 <=> client.queue = <<>>)
    BY <1>2, <2>1, StreamFields
  <2>3. Begun(client) <=> ~(a = 0 /\ b = 0)
    BY <2>2, Zenon DEF Begun
  <2>4. d = a + b
    BY <1>1, <2>1
  <2> QED
    BY <2>3, <2>4
<1>6. CASE e <= Length
  <2>1. e = d /\ d < w /\ Carries(Tail(wire) \o out, d + 1, w, ~Broken)
    <3>1. PICK q, whole : q = wire \o out /\ whole = ~Broken
      OBVIOUS
    <3>2. /\ q \in Seq(Frame) /\ whole \in BOOLEAN /\ Carries(q, d, w, whole) /\ q # <<>>
          /\ Head(q) = e /\ Head(q) <= Length /\ Tail(q) = Tail(wire) \o out
      BY <1>2, <1>4, <1>6, <3>1
    <3>3. Head(q) = d /\ d < w /\ Carries(Tail(q), d + 1, w, whole)
      BY <1>2, <3>2, CarriesTail
    <3> QED
      BY <3>1, <3>2, <3>3
  <2>2. Holds(s, d + 1, gone) /\ (Same(client, s) \/ Gets(client, s))
    <3>1. CASE d = 0
      <4>1. s = Pushed(client, d)
        BY <1>1, <1>5, <2>1, <3>1 DEF Taken, Accepted
      <4>2. d \in 0..Length
        BY <1>3, <3>1
      <4> QED
        BY <1>2, <4>1, <4>2, PushedHolds
    <3>2. CASE d # 0
      <4>1. d \in 1..Length
        BY <1>2, <1>3, <1>6, <2>1, <3>2
      <4>2. s = Delivered(client, d)
        BY <1>1, <1>5, <2>1, <3>2, <4>1 DEF Taken, Accepted, Event
      <4> QED
        BY <1>2, <4>1, <4>2, DeliveredHolds
    <3> QED
      BY <3>1, <3>2
  <2>3. Holds(s, Fill(s), gone) /\ Fill(s) \in Nat
    BY <1>2, <1>3, <2>2, HoldsFill
  <2>4. Fill(s) <= d + 1 /\ (~s.ended => Fill(s) = d + 1)
    BY <2>2 DEF Holds
  <2>5. Fill(s) <= w
    BY <1>2, <2>1, <2>3, <2>4
  <2> QED
    BY <1>1, <2>1, <2>2, <2>3, <2>4, <2>5
<1>7. CASE ~(e <= Length)
  <2>1. e # Accepted /\ e \notin Event
    BY <1>3, <1>4, <1>7 DEF Accepted, Event, Frame
  <2>2. s = Failed(client)
    BY <1>1, <2>1 DEF Taken
  <2>3. Holds(s, d, gone) /\ s.ended /\ (Same(client, s) \/ Errs(client, s))
    BY <1>2, <2>2, FailedHolds, FailedEnds
  <2>4. Holds(s, Fill(s), gone) /\ Fill(s) \in Nat
    BY <1>2, <2>3, HoldsFill
  <2>5. Fill(s) <= w
    BY <1>2, <2>3, <2>4 DEF Holds
  <2> QED
    BY <1>1, <2>3, <2>4, <2>5
<1> QED
  BY <1>6, <1>7

(* What a step of the client does to what its consumer has got.            *)
Moves(s, t, before, after) ==
  \/ after = before /\ (Same(s, t) \/ Gets(s, t) \/ Errs(s, t))
  \/ after = before /\ Ends(s, t) /\ (before \/ Len(s.got) = Length + 1)
  \/ ~before /\ after = TRUE /\ (Same(s, t) \/ Ends(s, t))

(* Every step of the client preserves what is said of it.                  *)
LEMMA ClientTurn ==
  ASSUME Behind, Client
  PROVE  /\ Behind' /\ written' = written
         /\ Moves(client, client', gone, gone')
<1>1. PICK d, w : d = Fill(client) /\ w = written
  OBVIOUS
<1>2. /\ d \in Nat /\ w \in Nat /\ d <= w /\ Holds(client, d, gone)
      /\ gone \in BOOLEAN /\ client \in StreamType /\ HttpTypes
  <2>1. client \in StreamType
    BY DEF Behind, ClientInv, Holds
  <2> QED
    BY <1>1, <2>1, FillType DEF Behind, ClientInv, HttpTypes
<1>3. CASE Opens
  <2>1. ClientBecomes(client, wire) /\ gone' = gone /\ reader = "opening"
    BY <1>3 DEF Opens
  <2>2. wire \in Seq(Frame) /\ Len(wire) \in Nat
    BY <1>2 DEF HttpTypes
  <2>3. Carries(wire \o out, Fill(client), written, ~Broken)
    BY <2>1 DEF Behind, FlowInv
  <2>4. Behind'
    <3>1. Len(wire) <= Len(wire)
      BY <2>2
    <3> QED
      BY <1>1, <1>2, <2>1, <2>2, <2>3, <3>1, ClientStep
  <2>5. client' = client /\ written' = written
    BY <2>1 DEF ClientBecomes
  <2> QED
    BY <2>1, <2>4, <2>5 DEF Moves, Same
<1>4. CASE OpenFails
  <2>1. PICK s : s = Rejected(client)
    OBVIOUS
  <2>2. ClientBecomes(s, <<>>) /\ gone' = gone /\ reader = "opening"
    BY <1>4, <2>1 DEF OpenFails
  <2>3. ~client.ended
    BY <2>2 DEF Behind, ClientInv, EmptyStream
  <2>4. Holds(s, d, gone) /\ s.ended /\ Errs(client, s)
    BY <1>2, <2>1, <2>3, RejectedHolds
  <2>5. Behind'
    BY <1>1, <1>2, <2>2, <2>4, ClientEnds
  <2>6. client' = s /\ written' = written
    BY <2>2 DEF ClientBecomes
  <2> QED
    BY <2>2, <2>4, <2>5, <2>6 DEF Moves
<1>5. CASE Read
  <2>1. PICK s : s = Taken(client, Head(wire))
    OBVIOUS
  <2>2. ClientBecomes(s, Tail(wire)) /\ gone' = gone /\ reader = "reading" /\ wire # <<>>
    BY <1>5, <2>1 DEF Read
  <2>3. /\ Holds(s, Fill(s), gone) /\ Fill(s) <= written
        /\ ~s.ended => Carries(Tail(wire) \o out, Fill(s), written, ~Broken)
        /\ Same(client, s) \/ Gets(client, s) \/ Errs(client, s)
    BY <2>1, <2>2, TakenHolds
  <2>4. Tail(wire) \in Seq(Frame) /\ Len(Tail(wire)) <= Len(wire)
    <3>1. wire \in Seq(Frame)
      BY <1>2 DEF HttpTypes
    <3>2. PICK l \in Nat : Len(wire) = l + 1 /\ Len(Tail(wire)) = l /\ Tail(wire) \in Seq(Frame)
      BY <2>2, <3>1, HeadAndTail
    <3> QED
      BY <3>2
  <2>5. Behind'
    BY <1>2, <2>2, <2>3, <2>4, ClientStep
  <2>6. client' = s /\ written' = written
    BY <2>2 DEF ClientBecomes
  <2> QED
    BY <2>2, <2>3, <2>5, <2>6 DEF Moves
<1>6. CASE ConsumerAsks
  <2>1. PICK s : s = Asked(client)
    OBVIOUS
  <2>2. /\ client' = s /\ ~client.waiting /\ client.outcome = "none" /\ reader # "opening"
        /\ UNCHANGED <<loop, written, response, out, wire, reader, gone, responsive, stopping>>
    BY <1>6, <2>1 DEF ConsumerAsks
  <2>3. /\ Holds(s, d, gone) /\ Fill(s) = d /\ s.ended = client.ended
        /\ \/ Same(client, s) \/ Gets(client, s) \/ Errs(client, s)
           \/ Ends(client, s) /\ (gone \/ Len(client.got) = Length + 1)
    BY <1>1, <1>2, <2>1, <2>2, AskedHolds
  <2>4. ClientInv' /\ FlowInv'
    BY <1>1, <1>2, <2>2, <2>3 DEF Behind, ClientInv, FlowInv, Broken
  <2>5. HttpTypes' /\ Pressure'
    BY <2>2 DEF Behind, HttpTypes, Pressure, Broken
  <2> QED
    BY <2>2, <2>3, <2>4, <2>5 DEF Behind, Moves
<1>7. CASE ConsumerCloses
  <2>1. PICK s : s = Closed(client)
    OBVIOUS
  <2>2. ClientBecomes(s, <<>>) /\ ~gone /\ gone' = TRUE
    BY <1>7, <2>1 DEF ConsumerCloses
  <2>3. Holds(s, d, TRUE) /\ s.ended /\ (Same(client, s) \/ Ends(client, s))
    BY <1>2, <2>1, ClosedHolds
  <2>4. Behind'
    BY <1>1, <1>2, <2>2, <2>3, ClientEnds
  <2>5. client' = s /\ written' = written
    BY <2>2 DEF ClientBecomes
  <2> QED
    BY <2>2, <2>3, <2>4, <2>5 DEF Moves
<1>8. CASE ClientCloses
  <2>1. PICK s : s = IF reader = "opening" THEN Rejected(client) ELSE Failed(client)
    OBVIOUS
  <2>2. ClientBecomes(s, <<>>) /\ gone' = gone
    BY <1>8, <2>1 DEF ClientCloses
  <2>3. Holds(s, d, gone) /\ s.ended /\ (Same(client, s) \/ Errs(client, s))
    <3>1. CASE reader = "opening"
      <4>1. ~client.ended
        BY <3>1 DEF Behind, ClientInv, EmptyStream
      <4> QED
        BY <1>2, <2>1, <3>1, <4>1, RejectedHolds
    <3>2. CASE reader # "opening"
      BY <1>2, <2>1, <3>2, FailedHolds, FailedEnds
    <3> QED
      BY <3>1, <3>2
  <2>4. Behind'
    BY <1>1, <1>2, <2>2, <2>3, ClientEnds
  <2>5. client' = s /\ written' = written
    BY <2>2 DEF ClientBecomes
  <2> QED
    BY <2>2, <2>3, <2>4, <2>5 DEF Moves
<1> QED
  BY <1>3, <1>4, <1>5, <1>6, <1>7, <1>8 DEF Client

(* At the start nothing has been written.                                  *)
LEMMA InitHttp == HttpInit => HttpInv
<1> SUFFICES ASSUME HttpInit PROVE HttpInv
  OBVIOUS
<1>1. TurnInv
  BY InitTurn DEF HttpInit
<1>2. /\ out = <<>> /\ wire = <<>> /\ written = 0 /\ client = EmptyStream /\ gone = FALSE
      /\ stopping = FALSE /\ responsive \in BOOLEAN
      /\ \/ loop = "asking" /\ response = "open" /\ reader = "opening"
         \/ loop = "over" /\ response = "closed" /\ reader = "over"
      /\ stream = EmptyStream
  BY DEF HttpInit, Init
<1>3. <<>> \in Seq(0..Error) /\ <<>> \in Seq(Frame) /\ Len(<<>>) = 0 /\ <<>> \o <<>> = <<>>
  <2>1. <<>> \in Seq(Frame)
    OBVIOUS
  <2> QED
    BY <2>1, ConcatEmptySeq
<1>4. HttpTypes
  BY <1>2, <1>3 DEF HttpTypes
<1>5. Pressure
  BY <1>2, <1>3, HttpStreamAssumption DEF Pressure, Broken
<1>6. ClientInv
  <2>1. Holds(EmptyStream, Fill(EmptyStream), FALSE) /\ Fill(EmptyStream) <= 0
    <3>1. PICK n : n = Fill(EmptyStream)
      OBVIOUS
    <3>2. n = 0 /\ Holds(EmptyStream, n, FALSE)
      BY <3>1, EmptyHolds
    <3>3. n <= 0
      BY <3>2
    <3> QED
      BY <3>1, <3>2, <3>3, Zenon
  <2> QED
    BY <1>2, <2>1 DEF ClientInv
<1>7. FlowInv
  <2>1. CarriesFirst(<<>>, 0, 0, TRUE, 0)
    BY <1>3 DEF CarriesFirst
  <2>2. Carries(<<>>, 0, 0, TRUE)
    BY <2>1 DEF Carries
  <2> QED
    BY <1>2, <1>3, <2>2, EmptyHolds DEF FlowInv, Broken
<1>8. written <= Len(stream.got)
  <2>1. EmptyStream.got = <<>>
    BY DEF EmptyStream
  <2> QED
    BY <1>2, <1>3, <2>1
<1> QED
  BY <1>1, <1>4, <1>5, <1>6, <1>7, <1>8 DEF HttpInv, Behind

(* What a consumer has got is never taken back. *)
LEMMA Grown ==
  ASSUME TurnInv, [Next]_vars
  PROVE  Len(stream.got) \in Nat /\ Len(stream'.got) \in Nat /\ Len(stream.got) <= Len(stream'.got)
<1>1. PICK a \in Nat : a = Len(stream.got)
  BY StreamFields DEF TurnInv, Holds
<1>2. PICK b \in Nat : b = Len(stream'.got)
  BY StepTurn, StreamFields DEF TurnInv, Holds
<1>3. stream'.got = stream.got \/ stream'.got = Append(stream.got, a)
  BY <1>1, StepTurn DEF Same, Gets, Errs, Ends
<1>4. CASE stream'.got = Append(stream.got, a)
  <2>1. stream.got \in Seq(0..Length)
    BY StreamFields DEF TurnInv, Holds
  <2>2. Len(Append(stream.got, a)) = Len(stream.got) + 1
    BY <2>1
  <2> QED
    BY <1>1, <1>2, <1>4, <2>2
<1> QED
  BY <1>1, <1>2, <1>3, <1>4

(* Every step preserves what is said of the response and of the client. *)
LEMMA StepBehind ==
  ASSUME HttpInv, HttpNext
  PROVE  Behind' /\ (written' = written \/ (written' = written + 1 /\ written' <= Len(stream.got)))
<1>1. Behind
  BY DEF HttpInv
<1>2. CASE UNCHANGED http
  BY <1>1, <1>2, HttpStays DEF http
<1>3. CASE LoopWrites
  BY <1>3, WriteStep
<1>4. CASE LoopThrows \/ LoopEnds
  BY <1>1, <1>4, EndStep
<1>5. CASE Flush
  BY <1>1, <1>5, FlushStep
<1>6. CASE DrainTimeout \/ GraceEnds \/ ConnectionLost
  BY <1>1, <1>6, DestroyStep DEF DrainTimeout, GraceEnds, ConnectionLost
<1>7. CASE ResponseCloses
  BY <1>1, <1>7, ResponseStep
<1>8. CASE Stop
  BY <1>1, <1>8, StopStep
<1>9. CASE Client
  BY <1>1, <1>9, ClientTurn
<1>10. ASSUME Inner \/ LoopAsks PROVE UNCHANGED http
  BY <1>10 DEF Inner, LoopAsks
<1> QED
  BY <1>2, <1>3, <1>4, <1>5, <1>6, <1>7, <1>8, <1>9, <1>10 DEF HttpNext, Daemon

(* The invariant is inductive. *)
LEMMA StepHttp == HttpInv /\ [HttpNext]_allVars => HttpInv'
<1> SUFFICES ASSUME HttpInv, [HttpNext]_allVars PROVE HttpInv'
  OBVIOUS
<1>1. TurnInv /\ Behind /\ [Next]_vars
  BY HttpSteps DEF HttpInv
<1>2. TurnInv'
  BY <1>1, StepTurn
<1>3. PICK a \in Nat, b \in Nat : a = Len(stream.got) /\ b = Len(stream'.got) /\ a <= b
  BY <1>1, Grown
<1>4. /\ Behind'
      /\ written' = written \/ (written' = written + 1 /\ written' <= Len(stream.got))
  <2>1. CASE HttpNext
    BY <2>1, StepBehind
  <2>2. CASE UNCHANGED allVars
    <3>1. UNCHANGED http
      BY <2>2 DEF allVars
    <3> QED
      BY <1>1, <3>1, HttpStays DEF http
  <2> QED
    BY <2>1, <2>2
<1>5. written' <= Len(stream'.got)
  <2>1. written' \in Nat /\ written \in Nat /\ written <= a
    BY <1>1, <1>3, <1>4 DEF HttpInv, Behind, HttpTypes
  <2>2. written' <= a
    BY <1>3, <1>4, <2>1
  <2> QED
    BY <1>3, <2>1, <2>2
<1> QED
  BY <1>2, <1>4, <1>5 DEF HttpInv

(* and says what the type invariant and NoGaps do. *)
LEMMA HttpIsSafe == HttpInv => HttpSafe
<1> SUFFICES ASSUME HttpInv PROVE HttpSafe
  OBVIOUS
<1>1. TypeOK /\ NoGaps
  BY TurnIsSafe DEF HttpInv
<1>2. /\ HttpTypes /\ Pressure /\ client \in StreamType /\ Len(client.queue) <= Limit
  BY DEF HttpInv, Behind, ClientInv, Holds
<1>3. written \in 0..Len(stream.got)
  <2>1. Len(stream.got) \in Nat /\ written \in Nat /\ written <= Len(stream.got)
    BY StreamFields DEF HttpInv, TurnInv, Holds, Behind, HttpTypes
  <2> QED
    BY <2>1
<1>4. Len(out) <= HighWater + 2
  <2>1. PICK l \in Nat : l = Len(out)
    BY <1>2 DEF HttpTypes
  <2>2. l <= HighWater + 1
    BY <1>2, <2>1 DEF Pressure
  <2> QED
    BY <2>1, <2>2, HttpStreamAssumption
<1>5. wire \in Seq(0..Cut)
  BY <1>2 DEF HttpTypes, Frame
<1>6. HttpTypeOK
  BY <1>1, <1>2, <1>3, <1>4, <1>5 DEF HttpTypeOK, HttpTypes, Pressure, StreamType
<1> QED
  BY <1>1, <1>6 DEF HttpSafe

(* The buffers at both ends, the response and the connection keep to their *)
(* limits, whoever is slow, leaves, fails or stops; and the turn stream has*)
(* no gaps behind an HTTP response either.                                 *)
THEOREM HttpStreamSafe == HttpSpec => []HttpSafe
<1> QED
  BY InitHttp, StepHttp, HttpIsSafe, PTL DEF HttpSpec

(* A frame is given after the turn was admitted, and no event before it    *)
(* was emitted.                                                            *)
LEMMA DueOnly ==
  ASSUME NEW s, NEW ph, NEW tn, NEW sn \in Nat, NEW closed, Holds(s, Due(ph, sn), closed),
         ph = "streaming" => tn = "admitted",
         NEW a \in Nat, a + 1 <= Len(s.got)
  PROVE  tn = "admitted" /\ a <= sn
<1>1. PICK g \in Nat, q \in Nat : g = Len(s.got) /\ q = Len(s.queue) /\ Fill(s) = g + q
  BY FillIs DEF Holds
<1>2. PICK n : n = Due(ph, sn)
  OBVIOUS
<1>3. g + q <= n /\ a + 1 <= g
  BY <1>1, <1>2 DEF Holds
<1>4. n = IF ph = "streaming" THEN sn + 1 ELSE 0
  BY <1>2 DEF Due
<1>5. a \in Nat /\ g \in Nat /\ q \in Nat /\ sn \in Nat
  BY <1>1
<1>6. CASE ph = "streaming"
  <2>1. g + q <= sn + 1
    BY <1>3, <1>4, <1>6
  <2>2. a <= sn
    BY <1>3, <1>5, <2>1
  <2> QED
    BY <1>6, <2>2
<1>7. CASE ph # "streaming"
  <2>1. g + q <= 0
    BY <1>3, <1>4, <1>7
  <2>2. FALSE
    BY <1>3, <1>5, <2>1
  <2> QED
    BY <2>2
<1> QED
  BY <1>6, <1>7

(* What is given makes the list of what was given longer.                  *)
LEMMA Longer ==
  ASSUME NEW s \in StreamType, NEW t, Gets(s, t)
  PROVE  \E a \in Nat : a = Len(s.got) /\ a + 1 <= Len(t.got)
<1>1. s.got \in Seq(0..Length)
  BY StreamFields
<1>2. PICK a \in Nat : a = Len(s.got)
  BY <1>1
<1>3. Len(t.got) = a + 1
  BY <1>1, <1>2 DEF Gets
<1> QED
  BY <1>2, <1>3

(* For the consumer of a socket's stream, *)
LEMMA StreamGiven ==
  ASSUME TurnInv, TurnInv', Gets(stream, stream')
  PROVE  turn' = "admitted" /\ Len(stream.got) <= sent'
<1>1. PICK a \in Nat : a = Len(stream.got) /\ a + 1 <= Len(stream'.got)
  BY Longer DEF TurnInv, Holds
<1>2. /\ Holds(stream', Due(phase', sent'), left') /\ sent' \in Nat
      /\ (phase' = "streaming" => turn' = "admitted")
  BY DEF TurnInv, SetUpType, Placed
<1> QED
  BY <1>1, <1>2, DueOnly

(* and for that of an HTTP client's. *)
LEMMA ClientGiven ==
  ASSUME HttpInv, HttpInv', Gets(client, client')
  PROVE  turn' = "admitted" /\ Len(client.got) <= sent'
<1>1. PICK a \in Nat : a = Len(client.got) /\ a + 1 <= Len(client'.got)
  BY Longer DEF HttpInv, Behind, ClientInv, Holds
<1>2. /\ Holds(stream', Due(phase', sent'), left') /\ sent' \in Nat
      /\ (phase' = "streaming" => turn' = "admitted")
  BY DEF HttpInv, TurnInv, SetUpType, Placed
<1>3. PICK c : c = client'
  OBVIOUS
<1>4. c \in StreamType /\ Fill(c) <= written' /\ written' <= Len(stream'.got) /\ written' \in Nat
  BY <1>3 DEF HttpInv, Behind, ClientInv, Holds, HttpTypes
<1>5. PICK g \in Nat, q \in Nat : g = Len(c.got) /\ q = Len(c.queue) /\ Fill(c) = g + q
  BY <1>4, FillIs
<1>6. PICK n \in Nat : n = Len(stream'.got)
  BY <1>2, StreamFields DEF Holds
<1>7. a + 1 <= n
  <2>1. a + 1 <= g /\ g + q <= written' /\ written' <= n /\ written' \in Nat
    BY <1>1, <1>3, <1>4, <1>5, <1>6
  <2> QED
    BY <2>1
<1> QED
  BY <1>1, <1>2, <1>6, <1>7, DueOnly

(* To the consumer of a socket's stream, a step is one of TurnFrames, *)
LEMMA SocketFrames ==
  ASSUME TurnInv, TurnInv', source = "socket", source' = source, Inner
  PROVE  [Frames!Next]_(Frames!vars)
<1>1. Served = stream /\ Served' = stream'
  BY DEF Served
<1>2. left \in BOOLEAN /\ left' \in BOOLEAN
  BY DEF TurnInv, SetUpType
<1>3. CASE SetUp \/ ForeignEvent \/ ChannelLost
  <2>1. /\ Same(stream, stream') \/ Errs(stream, stream') \/ Gets(stream, stream')
        /\ sent' = sent /\ left' = left /\ (turn' = "admitted" <=> turn = "admitted")
    <3>1. CASE SetUp
      BY <3>1, ResolveTurn, SubscribeTurn, RequestTurn
      DEF SetUp, Resolved, ResolveFails, SubscribeReturns, SubscribeFails, RequestReturns, RequestFails
    <3>2. CASE ForeignEvent
      BY <3>2, ForeignEventTurn DEF ForeignEvent
    <3>3. CASE ChannelLost
      BY <3>3, ChannelLostTurn DEF ChannelLost
    <3> QED
      BY <1>3, <3>1, <3>2, <3>3
  <2>2. CASE Same(stream, stream')
    BY <1>1, <2>1, <2>2 DEF Same, Frames!vars
  <2>3. CASE Errs(stream, stream')
    BY <1>1, <2>1, <2>3 DEF Errs, Frames!Next, Frames!Fail
  <2>4. CASE Gets(stream, stream')
    BY <1>1, <2>1, <2>4, StreamGiven DEF Gets, Frames!Next, Frames!Give
  <2> QED
    BY <2>1, <2>2, <2>3, <2>4
<1>4. CASE Subscribed
  BY <1>1, <1>4 DEF Subscribed, Frames!vars
<1>5. CASE Admitted
  BY <1>1, <1>4, <1>5 DEF Admitted, Frames!Next, Frames!Admit
<1>6. CASE OwnEvent
  <2>1. /\ Same(stream, stream') \/ Errs(stream, stream') \/ Gets(stream, stream')
        /\ sent' = sent + 1 /\ sent < Length /\ left' = left /\ turn = "admitted" /\ turn' = turn
    BY <1>6, OwnEventTurn DEF OwnEvent
  <2>2. CASE Same(stream, stream')
    BY <1>1, <2>1, <2>2 DEF Same, Frames!Next, Frames!Emit
  <2>3. CASE Errs(stream, stream')
    BY <1>1, <2>1, <2>3 DEF Errs, Frames!Next, Frames!Emit, Frames!Fail
  <2>4. CASE Gets(stream, stream')
    BY <1>1, <2>1, <2>4, StreamGiven DEF Gets, Frames!Next, Frames!Emit, Frames!Give
  <2> QED
    BY <2>1, <2>2, <2>3, <2>4
<1>7. CASE Ask
  <2>1. /\ \/ Same(stream, stream') \/ Gets(stream, stream') \/ Errs(stream, stream')
           \/ Ends(stream, stream') /\ (left \/ Len(stream.got) = Length + 1)
        /\ sent' = sent /\ left' = left /\ turn' = turn
    BY <1>7, AskTurn DEF Ask
  <2>2. CASE Same(stream, stream')
    BY <1>1, <2>1, <2>2 DEF Same, Frames!vars
  <2>3. CASE Errs(stream, stream')
    BY <1>1, <2>1, <2>3 DEF Errs, Frames!Next, Frames!Fail
  <2>4. CASE Gets(stream, stream')
    BY <1>1, <2>1, <2>4, StreamGiven DEF Gets, Frames!Next, Frames!Give
  <2>5. CASE Ends(stream, stream') /\ (left \/ Len(stream.got) = Length + 1)
    BY <1>1, <2>1, <2>5 DEF Ends, Frames!Next, Frames!Finish
  <2> QED
    BY <2>1, <2>2, <2>3, <2>4, <2>5
<1>8. CASE Close
  <2>1. /\ Same(stream, stream') \/ Ends(stream, stream')
        /\ ~left /\ left' = TRUE /\ sent' = sent /\ turn' = turn
    BY <1>8, CloseTurn DEF Close
  <2>2. CASE Same(stream, stream')
    BY <1>1, <2>1, <2>2 DEF Same, Frames!Next, Frames!Leave
  <2>3. CASE Ends(stream, stream')
    BY <1>1, <2>1, <2>3 DEF Ends, Frames!Next, Frames!Finish
  <2> QED
    BY <2>1, <2>2, <2>3
<1> QED
  BY <1>3, <1>4, <1>5, <1>6, <1>7, <1>8 DEF Inner

(* and to that of an HTTP client's, *)
LEMMA ServiceFrames ==
  ASSUME HttpInv, HttpInv', source = "service", source' = source, HttpNext
  PROVE  [Frames!Next]_(Frames!vars)
<1>1. Served = client /\ Served' = client'
  BY DEF Served
<1>2. CASE Client
  <2>1. /\ Moves(client, client', gone, gone') /\ gone \in BOOLEAN
        /\ sent' = sent /\ turn' = turn
    <3>1. Behind /\ gone \in BOOLEAN
      BY DEF HttpInv, Behind, HttpTypes
    <3>2. sent' = sent /\ turn' = turn
      BY <1>2 DEF Client, Opens, OpenFails, Read, ConsumerAsks, ConsumerCloses, ClientCloses,
                  ClientBecomes, vars
    <3> QED
      BY <1>2, <3>1, <3>2, ClientTurn
  <2>2. CASE gone' = gone /\ Same(client, client')
    BY <1>1, <2>1, <2>2 DEF Same, Frames!vars
  <2>3. CASE gone' = gone /\ Errs(client, client')
    BY <1>1, <2>1, <2>3 DEF Errs, Frames!Next, Frames!Fail
  <2>4. CASE gone' = gone /\ Gets(client, client')
    BY <1>1, <2>1, <2>4, ClientGiven DEF Gets, Frames!Next, Frames!Give
  <2>5. CASE gone' = gone /\ Ends(client, client') /\ (gone \/ Len(client.got) = Length + 1)
    BY <1>1, <2>1, <2>5 DEF Ends, Frames!Next, Frames!Finish
  <2>6. CASE ~gone /\ gone' = TRUE /\ Same(client, client')
    BY <1>1, <2>1, <2>6 DEF Same, Frames!Next, Frames!Leave
  <2>7. CASE ~gone /\ gone' = TRUE /\ Ends(client, client')
    BY <1>1, <2>1, <2>7 DEF Ends, Frames!Next, Frames!Finish
  <2> QED
    BY <2>1, <2>2, <2>3, <2>4, <2>5, <2>6, <2>7 DEF Moves
<1>3. CASE Inner
  <2>1. client' = client /\ gone' = gone
    BY <1>3 DEF Inner, http
  <2>2. CASE Admitted
    BY <1>1, <2>1, <2>2 DEF Admitted, Frames!Next, Frames!Admit
  <2>3. CASE OwnEvent
    BY <1>1, <2>1, <2>3 DEF OwnEvent, Frames!Next, Frames!Emit
  <2>4. CASE SetUp \/ Subscribed \/ ForeignEvent \/ ChannelLost
    <3>1. sent' = sent /\ (turn' = "admitted" <=> turn = "admitted")
      BY <2>4 DEF SetUp, Resolved, ResolveFails, SubscribeReturns, SubscribeFails,
                  RequestReturns, RequestFails, Subscribed, ForeignEvent, ChannelLost
    <3> QED
      BY <1>1, <2>1, <3>1 DEF Frames!vars
  <2> QED
    BY <1>3, <2>2, <2>3, <2>4 DEF Inner
<1>4. CASE Daemon \/ Stop \/ ConnectionLost
  <2>1. client' = client /\ gone' = gone /\ sent' = sent /\ turn' = turn
    BY <1>4 DEF Daemon, LoopAsks, LoopWrites, LoopThrows, LoopEnds, Flush, DrainTimeout,
                ResponseCloses, GraceEnds, Destroyed, StreamClosed, Stop, ConnectionLost,
                Ask, Close, vars, http
  <2> QED
    BY <1>1, <2>1 DEF Frames!vars
<1> QED
  BY <1>2, <1>3, <1>4 DEF HttpNext

(* A stream keeps the source it was created with.                          *)
LEMMA SourceStays == ASSUME [Next]_vars PROVE source' = source
BY DEF Next, SetUp, vars, Resolved, ResolveFails, SubscribeReturns, SubscribeFails,
       RequestReturns, RequestFails, Subscribed, Admitted, OwnEvent, ForeignEvent, ChannelLost,
       Ask, Close

(* and so to whoever asked for the turn.                                   *)
LEMMA FramesStep == HttpInv /\ HttpInv' /\ [HttpNext]_allVars => [Frames!Next]_(Frames!vars)
<1> SUFFICES ASSUME HttpInv, HttpInv', [HttpNext]_allVars PROVE [Frames!Next]_(Frames!vars)
  OBVIOUS
<1>1. source' = source /\ source \in {"service", "socket"} /\ TurnInv /\ TurnInv'
  BY HttpSteps, SourceStays DEF HttpInv, TurnInv, SetUpType
<1>2. CASE UNCHANGED allVars
  BY <1>2 DEF allVars, vars, http, Served, Frames!vars
<1>3. CASE HttpNext /\ source = "service"
  BY <1>1, <1>3, ServiceFrames
<1>4. CASE HttpNext /\ source = "socket"
  <2>1. Inner
    BY <1>4 DEF HttpNext
  <2> QED
    BY <1>1, <1>4, <2>1, SocketFrames
<1> QED
  BY <1>1, <1>2, <1>3, <1>4

(* To the one who asked for the turn, over a socket or HTTP: the           *)
(* acceptance and then the events of the turn in their order without a gap,*)
(* and an end only after the terminal event or when it has closed the      *)
(* stream itself; or an error instead of the rest.                         *)
THEOREM HttpImplementsFrames == HttpSpec => FramesSpec
<1>1. HttpInit => Frames!Init
  BY DEF HttpInit, Init, Frames!Init, Served, EmptyStream
<1> QED
  BY <1>1, InitHttp, StepHttp, FramesStep, PTL DEF HttpSpec, FramesSpec, Frames!Spec
=============================================================================
