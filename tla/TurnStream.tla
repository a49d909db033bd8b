----------------------------- MODULE TurnStream -----------------------------
(***************************************************************************)
(* A turn stream (src/src/protocol/turn-stream.ts): it subscribes to the   *)
(* daemon's events, asks for a turn, and gives its consumer the acceptance *)
(* and then the events of that turn, through a buffer of bounded size      *)
(* (src/src/protocol/stream.ts).                                           *)
(*                                                                         *)
(* Set-up, source and consumer go on independently of each other.  The     *)
(* source is the service itself (the HTTP transport) or a connection of    *)
(* its own (DaemonClient.streamTurn), whose subscription takes an answer   *)
(* and whose connection may be lost.                                       *)
(*                                                                         *)
(* Frames are numbers, 0 for the acceptance, and all of the same size.     *)
(***************************************************************************)
EXTENDS Naturals, Sequences

CONSTANTS
  Length,  \* events of the turn, of which the last is terminal
  Limit    \* frames a buffer holds

ASSUME TurnStreamAssumption == Length \in Nat \ {0} /\ Limit \in Nat \ {0}

VARIABLES
  source,   \* "service" or "socket"
  phase,    \* the await the set-up is at, "streaming" once it has accepted a
            \* turn, "over" when it ended without
  channel,  \* the subscription and, for a socket, its connection
  pending,  \* events that came before the acceptance
  stream,   \* the BufferedStream, with what its consumer has got from it
  left,     \* the consumer has closed the stream
  turn,     \* what the daemon made of the request
  sent      \* events of the turn emitted so far

vars == <<source, phase, channel, pending, stream, left, turn, sent>>

Accepted == 0
Foreign == Length + 1  \* an event of another turn

-----------------------------------------------------------------------------
(* BufferedStream.                                                         *)

EmptyStream == [queue |-> <<>>, waiting |-> FALSE, ended |-> FALSE, failed |-> FALSE,
                got |-> <<>>, outcome |-> "none"]

Settled(s, outcome) ==
  [s EXCEPT !.ended = TRUE, !.waiting = FALSE, !.outcome = IF s.waiting THEN outcome ELSE @]

Finished(s) == IF s.ended THEN s ELSE Settled(s, "done")

Failed(s) ==
  IF s.ended THEN s ELSE [Settled(s, "error") EXCEPT !.failed = TRUE, !.queue = <<>>]

Pushed(s, frame) ==
  IF s.ended THEN s
  ELSE IF Len(s.queue) = Limit THEN Failed(s)
  ELSE IF s.waiting THEN [s EXCEPT !.waiting = FALSE, !.got = Append(@, frame)]
  ELSE [s EXCEPT !.queue = Append(@, frame)]

Closed(s) == Finished([s EXCEPT !.queue = <<>>])

(* next                                                                    *)
Asked(s) ==
  IF s.failed THEN [s EXCEPT !.outcome = "error"]
  ELSE IF s.queue # <<>> THEN [s EXCEPT !.got = Append(@, Head(s.queue)), !.queue = Tail(@)]
  ELSE IF s.ended THEN [s EXCEPT !.outcome = "done"]
  ELSE [s EXCEPT !.waiting = TRUE]

-----------------------------------------------------------------------------
(* What an event does once a turn has been accepted.                       *)
Delivered(s, event) ==
  IF s.ended \/ event = Foreign THEN s
  ELSE IF event = Length THEN Finished(Pushed(s, event))
  ELSE Pushed(s, event)

(* The events that came early, one after the other; a fold, written as a   *)
(* recursive function, of which the proofs can say what it computes.       *)
AllDelivered(s, events) ==
  LET after[i \in 0..Len(events)] ==
        IF i = 0 THEN s ELSE Delivered(after[i - 1], events[i])
  IN after[Len(events)]

Held(ch) == ch \in {"opening", "live"}

(* Ending the stream gives the channel up: the disposer is known once      *)
(* subscribe has returned, a socket's listens to the signal from the start.*)
Disposes(ph) == source = "socket" \/ ph \in {"requesting", "streaming"}

(* The stream becomes s, in phase ph with channel ch and pending events    *)
(* evs, unless it has ended.                                               *)
Becomes(s, ph, ch, evs) ==
  /\ stream' = s
  /\ phase' = ph
  /\ channel' = IF s.ended /\ Held(ch) /\ Disposes(ph) THEN "released" ELSE ch
  /\ pending' = IF s.ended THEN <<>> ELSE evs

(* The event arrives if the channel is live: deliver.                      *)
Arrives(event) ==
  IF channel # "live" \/ stream.ended THEN UNCHANGED <<stream, phase, channel, pending>>
  ELSE IF phase = "streaming" THEN Becomes(Delivered(stream, event), phase, channel, pending)
  ELSE IF Len(pending) = Limit THEN Becomes(Failed(stream), phase, channel, pending)
  ELSE Becomes(stream, phase, channel, Append(pending, event))

-----------------------------------------------------------------------------
(* The set-up.                                                             *)

Subscribing == IF source = "socket" THEN "opening" ELSE "live"

(* thread/send has the thread's id resolved first.                         *)
Resolved ==
  /\ phase = "resolving"
  /\ IF stream.ended THEN Becomes(stream, "over", "none", <<>>)
     ELSE Becomes(stream, "subscribing", Subscribing, <<>>)
  /\ UNCHANGED <<source, left, turn, sent>>

ResolveFails ==
  /\ phase = "resolving"
  /\ Becomes(Failed(stream), "over", "none", <<>>)
  /\ UNCHANGED <<source, left, turn, sent>>

(* The daemon at the other end of the connection subscribes it.            *)
Subscribed ==
  /\ channel = "opening"
  /\ channel' = "live"
  /\ UNCHANGED <<source, phase, pending, stream, left, turn, sent>>

(* Variant: a stream closed meanwhile is not looked at.                    *)
SubscribeReturnsBlindly ==
  /\ phase = "subscribing" /\ channel # "opening"
  /\ Becomes(stream, IF stream.ended THEN "over" ELSE "requesting", channel, pending)
  /\ UNCHANGED <<source, left, turn, sent>>

SubscribeReturns ==
  /\ phase = "subscribing" /\ channel # "opening"
  /\ IF stream.ended
     THEN /\ phase' = "over"
          /\ channel' = IF Held(channel) THEN "released" ELSE channel
          /\ UNCHANGED <<pending, stream>>
     ELSE Becomes(stream, "requesting", channel, pending)
  /\ UNCHANGED <<source, left, turn, sent>>

(* The connection did not open, or the daemon refused: its disposer runs.  *)
SubscribeFails ==
  /\ phase = "subscribing" /\ source = "socket"
  /\ Becomes(Failed(stream), "over", IF Held(channel) THEN "released" ELSE channel, <<>>)
  /\ UNCHANGED <<source, left, turn, sent>>

(* The daemon admits the turn, whether anyone still listens or not.        *)
Admitted ==
  /\ phase = "requesting" /\ turn = "none"
  /\ turn' = "admitted"
  /\ UNCHANGED <<source, phase, channel, pending, stream, left, sent>>

(* Variant: the events that came before the acceptance are forgotten.      *)
RequestReturnsAlone ==
  /\ phase = "requesting" /\ turn = "admitted"
  /\ source = "socket" => channel = "live"
  /\ IF stream.ended THEN Becomes(stream, "over", channel, <<>>)
     ELSE Becomes(Pushed(stream, Accepted), "streaming", channel, <<>>)
  /\ UNCHANGED <<source, left, turn, sent>>

RequestReturns ==
  /\ phase = "requesting" /\ turn = "admitted"
  /\ source = "socket" => channel = "live"
  /\ IF stream.ended THEN Becomes(stream, "over", channel, <<>>)
     ELSE Becomes(AllDelivered(Pushed(stream, Accepted), pending), "streaming", channel, <<>>)
  /\ UNCHANGED <<source, left, turn, sent>>

(* The turn is refused, or the connection that should bring the answer is  *)
(* gone.                                                                   *)
RequestFails ==
  /\ phase = "requesting"
  /\ \/ turn = "none" /\ turn' = "refused"
     \/ source = "socket" /\ ~Held(channel) /\ UNCHANGED turn
  /\ Becomes(Failed(stream), "over", IF Held(channel) THEN "released" ELSE channel, <<>>)
  /\ UNCHANGED <<source, left, sent>>

-----------------------------------------------------------------------------
(* The source.                                                             *)

OwnEvent ==
  /\ turn = "admitted" /\ sent < Length
  /\ sent' = sent + 1
  /\ Arrives(sent')
  /\ UNCHANGED <<source, left, turn>>

ForeignEvent ==
  /\ channel = "live"
  /\ Arrives(Foreign)
  /\ UNCHANGED <<source, left, turn, sent>>

(* Variant: the stream is not told.                                        *)
ChannelLostSilently ==
  /\ source = "socket" /\ Held(channel)
  /\ channel' = "lost"
  /\ UNCHANGED <<source, phase, pending, stream, left, turn, sent>>

ChannelLost ==
  /\ source = "socket" /\ Held(channel)
  /\ Becomes(Failed(stream), phase, "lost", pending)
  /\ UNCHANGED <<source, left, turn, sent>>

-----------------------------------------------------------------------------
(* The consumer.                                                           *)

Ask ==
  /\ ~stream.waiting /\ stream.outcome = "none"
  /\ stream' = Asked(stream)
  /\ UNCHANGED <<source, phase, channel, pending, left, turn, sent>>

Close ==
  /\ ~left
  /\ left' = TRUE
  /\ Becomes(Closed(stream), phase, channel, pending)
  /\ UNCHANGED <<source, turn, sent>>

-----------------------------------------------------------------------------

(* thread/send, or thread/start, which subscribes at once.                 *)
Init ==
  /\ source \in {"service", "socket"}
  /\ phase \in {"resolving", "subscribing"}
  /\ channel = IF phase = "resolving" THEN "none" ELSE Subscribing
  /\ pending = <<>>
  /\ stream = EmptyStream
  /\ left = FALSE
  /\ turn = "none"
  /\ sent = 0

SetUp ==
  \/ Resolved \/ ResolveFails
  \/ SubscribeReturns \/ SubscribeFails
  \/ RequestReturns \/ RequestFails

Next ==
  \/ SetUp
  \/ Subscribed \/ Admitted \/ OwnEvent \/ ForeignEvent \/ ChannelLost
  \/ Ask \/ Close

Spec == Init /\ [][Next]_vars

-----------------------------------------------------------------------------
(* Every field holds what its declaration says; buffers keep to their      *)
(* limit, and the events before the acceptance are only kept while the     *)
(* stream is open.                                                         *)
TypeOK ==
  /\ source \in {"service", "socket"}
  /\ phase \in {"resolving", "subscribing", "requesting", "streaming", "over"}
  /\ channel \in {"none", "opening", "live", "released", "lost"}
  /\ pending \in Seq(1..Foreign) /\ Len(pending) <= Limit
  /\ pending # <<>> => phase \in {"subscribing", "requesting"} /\ ~stream.ended
  /\ stream \in [queue : Seq(0..Length), waiting : BOOLEAN, ended : BOOLEAN, failed : BOOLEAN,
                 got : Seq(0..Length), outcome : {"none", "done", "error"}]
  /\ Len(stream.queue) <= Limit
  /\ stream.waiting => stream.queue = <<>> /\ ~stream.ended
  /\ left \in BOOLEAN
  /\ turn \in {"none", "admitted", "refused"}
  /\ sent \in 0..Length

(* A stream that has neither failed nor been closed by its consumer holds  *)
(* the acceptance and every event of its turn so far, in order, without    *)
(* gap, duplicate or an event of another turn, however early the events    *)
(* came; what it has handed out is the beginning of that in any case.      *)
NoGaps ==
  /\ \A i \in DOMAIN stream.got : stream.got[i] = i - 1
  /\ Len(stream.got) <= sent + 1
  /\ phase = "streaming" /\ ~stream.failed /\ ~left =>
       stream.got \o stream.queue = [i \in 1..(sent + 1) |-> i - 1]

(* A stream that has ended holds no subscription and no connection,        *)
(* whatever its set-up was waiting for when it ended; in the service, once *)
(* the call that was subscribing has returned.                             *)
GivenUp ==
  stream.ended /\ Held(channel) => source = "service" /\ phase = "subscribing"

=============================================================================
