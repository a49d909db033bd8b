----------------------------- MODULE HttpStream -----------------------------
(***************************************************************************)
(* A turn stream all the way to the one who asked for it.  When its source *)
(* is the service, its consumer is the HTTP handler                        *)
(* (src/src/transport/http.ts), which writes each frame to the response    *)
(* and waits while the response is full (src/src/transport/sse.ts); at the *)
(* other end a client reads frames into a stream of its own                *)
(* (src/src/client/http-client.ts).  When its source is a socket, the      *)
(* stream is the client's already.                                         *)
(*                                                                         *)
(* The set-up, the source and the buffers are those of TurnStream.         *)
(***************************************************************************)
EXTENDS TurnStream

CONSTANTS
  HighWater,  \* unsent frames at which a response wants its writer to wait
  Window      \* frames the connection takes before they are read

ASSUME HttpStreamAssumption == HighWater \in Nat \ {0} /\ Window \in Nat \ {0}

VARIABLES
  loop,        \* the handler's loop: "asking" for a frame or about to write
               \* it, "draining", "over"
  written,     \* frames of the stream it has written
  response,    \* "open", "ending" (ends when drained), "ended", "destroyed",
               \* "closed"
  out,         \* frames written and not sent
  wire,        \* frames sent and not read
  reader,      \* the client: "opening" the request, "reading", "over"
  client,      \* the client's stream
  gone,        \* its consumer has closed it
  responsive,  \* the client's process goes on
  stopping     \* the daemon is closing its transports

http == <<loop, written, response, out, wire, reader, client, gone, responsive, stopping>>
allVars == <<vars, http>>

Event == 1..Length

(* Frames that are not the turn's.                                         *)
Error == Length + 2
End == Length + 3
Cut == Length + 4

Writable == response \in {"open", "ending"}
Broken == response \in {"destroyed", "closed"}

-----------------------------------------------------------------------------
(* The handler.                                                            *)

(* The listener for the response's close, and the loop's last resort.      *)
StreamClosed == IF left THEN UNCHANGED vars ELSE Close

LoopAsks ==
  /\ loop = "asking" /\ written = Len(stream.got)
  /\ Ask
  /\ UNCHANGED http

(* Variant: a full response does not make the loop wait.                   *)
LoopWritesOn ==
  /\ loop = "asking" /\ written < Len(stream.got) /\ Writable
  /\ out' = Append(out, stream.got[written + 1])
  /\ written' = written + 1
  /\ UNCHANGED <<vars, loop, response, wire, reader, client, gone, responsive, stopping>>

LoopWrites ==
  /\ loop = "asking" /\ written < Len(stream.got) /\ Writable
  /\ out' = Append(out, stream.got[written + 1])
  /\ written' = written + 1
  /\ loop' = IF Len(out') >= HighWater THEN "draining" ELSE "asking"
  /\ UNCHANGED <<vars, response, wire, reader, client, gone, responsive, stopping>>

(* Nothing can be written to a response that has ended.                    *)
LoopThrows ==
  /\ loop = "asking" /\ written < Len(stream.got) /\ ~Writable
  /\ loop' = "over"
  /\ StreamClosed
  /\ UNCHANGED <<written, response, out, wire, reader, client, gone, responsive, stopping>>

(* finishSseError: an error is the last frame, as an answer or as an event.*)
ErrorSent ==
  IF Writable
  THEN /\ out' = Append(out, Error)
       /\ response' = IF Len(out') >= HighWater THEN "ending" ELSE "ended"
  ELSE UNCHANGED <<out, response>>

LoopEnds ==
  /\ loop = "asking" /\ written = Len(stream.got) /\ stream.outcome # "none"
  /\ loop' = "over"
  /\ IF stream.outcome = "error" THEN ErrorSent
     ELSE response' = (IF Writable THEN "ended" ELSE response) /\ UNCHANGED out
  /\ UNCHANGED <<vars, written, wire, reader, client, gone, responsive, stopping>>

-----------------------------------------------------------------------------
(* The response and its connection.                                        *)

(* The connection takes a frame; after the last one the response drains.   *)
Flush ==
  /\ out # <<>> /\ ~Broken /\ reader # "over" /\ Len(wire) < Window
  /\ wire' = Append(wire, Head(out))
  /\ out' = Tail(out)
  /\ IF out' = <<>>
     THEN /\ loop' = IF loop = "draining" THEN "asking" ELSE loop
          /\ response' = IF response = "ending" THEN "ended" ELSE response
     ELSE UNCHANGED <<loop, response>>
  /\ UNCHANGED <<vars, written, reader, client, gone, responsive, stopping>>

Destroyed ==
  /\ ~Broken
  /\ response' = "destroyed"
  /\ out' = <<>>
  /\ UNCHANGED <<vars, loop, written, wire, reader, client, gone, responsive>>

DrainTimeout ==
  /\ loop = "draining" \/ response = "ending"
  /\ Destroyed /\ UNCHANGED stopping

(* The peer has gone, or the network fails.                                *)
ConnectionLost == Destroyed /\ UNCHANGED stopping

(* The close of network transports: the error goes to whoever still reads, *)
(* and a second later every connection is destroyed.                       *)
Stop ==
  /\ ~stopping
  /\ stopping' = TRUE
  /\ ErrorSent
  /\ UNCHANGED <<vars, loop, written, wire, reader, client, gone, responsive>>

GraceEnds == stopping /\ Destroyed /\ UNCHANGED stopping

(* Variant: the handler does not listen for the response's close.          *)
ResponseClosesAlone ==
  /\ response = "destroyed" \/ (response = "ended" /\ out = <<>>)
  /\ response' = "closed"
  /\ wire' = IF reader = "over" THEN wire
             ELSE Append(wire, IF response = "ended" THEN End ELSE Cut)
  /\ loop' = IF loop = "draining" THEN "over" ELSE loop
  /\ IF loop = "draining" THEN StreamClosed ELSE UNCHANGED vars
  /\ UNCHANGED <<written, out, reader, client, gone, responsive, stopping>>

ResponseCloses ==
  /\ response = "destroyed" \/ (response = "ended" /\ out = <<>>)
  /\ response' = "closed"
  /\ wire' = IF reader = "over" THEN wire
             ELSE Append(wire, IF response = "ended" THEN End ELSE Cut)
  /\ loop' = IF loop = "draining" THEN "over" ELSE loop
  /\ IF loop = "over" THEN UNCHANGED vars ELSE StreamClosed
  /\ UNCHANGED <<written, out, reader, client, gone, responsive, stopping>>

-----------------------------------------------------------------------------
(* The client.                                                             *)

Begun(s) == s.got # <<>> \/ s.queue # <<>>

(* Variant: a stream that ends early ends well.                            *)
TakenLeniently(s, frame) ==
  IF frame = Accepted /\ ~Begun(s) THEN Pushed(s, Accepted)
  ELSE IF frame \in Event /\ Begun(s) THEN Delivered(s, frame)
  ELSE IF frame \in {End, Cut} THEN Finished(s)
  ELSE Failed(s)

(* Only the acceptance and then events are frames; anything else, the end  *)
(* before the terminal event included, fails the stream.                   *)
Taken(s, frame) ==
  IF frame = Accepted /\ ~Begun(s) THEN Pushed(s, Accepted)
  ELSE IF frame \in Event /\ Begun(s) THEN Delivered(s, frame)
  ELSE Failed(s)

(* The client's stream becomes s, and its response is destroyed if it ended.*)
ClientBecomes(s, rest) ==
  /\ client' = s
  /\ reader' = IF s.ended THEN "over" ELSE "reading"
  /\ wire' = IF s.ended THEN <<>> ELSE rest
  /\ UNCHANGED <<vars, loop, written, response, out, responsive, stopping>>

Opens ==
  /\ responsive /\ reader = "opening"
  /\ ClientBecomes(client, wire)
  /\ UNCHANGED gone

Rejected(s) == [Failed(s) EXCEPT !.outcome = "error"]

OpenFails ==
  /\ responsive /\ reader = "opening" /\ wire # <<>> /\ Head(wire) = Cut
  /\ ClientBecomes(Rejected(client), <<>>)
  /\ UNCHANGED gone

Read ==
  /\ responsive /\ reader = "reading" /\ wire # <<>>
  /\ ClientBecomes(Taken(client, Head(wire)), Tail(wire))
  /\ UNCHANGED gone

ConsumerAsks ==
  /\ responsive /\ reader # "opening"
  /\ ~client.waiting /\ client.outcome = "none"
  /\ client' = Asked(client)
  /\ UNCHANGED <<vars, loop, written, response, out, wire, reader, gone, responsive, stopping>>

ConsumerCloses ==
  /\ responsive /\ reader # "opening" /\ ~gone
  /\ gone' = TRUE
  /\ ClientBecomes(Closed(client), <<>>)

(* HttpClient.close destroys the requests that are open.                   *)
ClientCloses ==
  /\ responsive /\ reader # "over"
  /\ ClientBecomes(IF reader = "opening" THEN Rejected(client) ELSE Failed(client), <<>>)
  /\ UNCHANGED gone

-----------------------------------------------------------------------------

HttpInit ==
  /\ Init
  /\ loop = IF source = "service" THEN "asking" ELSE "over"
  /\ written = 0
  /\ response = IF source = "service" THEN "open" ELSE "closed"
  /\ out = <<>> /\ wire = <<>>
  /\ reader = IF source = "service" THEN "opening" ELSE "over"
  /\ client = EmptyStream
  /\ gone = FALSE
  /\ responsive \in IF source = "service" THEN BOOLEAN ELSE {TRUE}
  /\ stopping = FALSE

Daemon ==
  \/ LoopAsks \/ LoopWrites \/ LoopThrows \/ LoopEnds
  \/ Flush \/ DrainTimeout \/ ResponseCloses \/ GraceEnds

Client == Opens \/ OpenFails \/ Read \/ ConsumerAsks \/ ConsumerCloses \/ ClientCloses

Inner ==
  /\ \/ SetUp
     \/ Subscribed \/ Admitted \/ OwnEvent \/ ForeignEvent \/ ChannelLost
     \/ source = "socket" /\ (Ask \/ Close)
  /\ UNCHANGED http

HttpNext ==
  \/ Inner
  \/ source = "service" /\ (Daemon \/ Stop \/ ConnectionLost \/ Client)

HttpSpec == HttpInit /\ [][HttpNext]_allVars

(* The daemon's steps are taken, timers included; a client whose process   *)
(* goes on reads what arrives; a connection whose client is done is found  *)
(* to be closed.  Nothing makes a turn emit its events.                    *)
HttpFairness ==
  /\ WF_allVars(SetUp /\ UNCHANGED http)
  /\ WF_allVars((Subscribed \/ ChannelLost) /\ UNCHANGED http)
  /\ source = "service" =>
       /\ WF_allVars(LoopAsks \/ LoopWrites \/ LoopThrows \/ LoopEnds)
       /\ WF_allVars(Flush)
       /\ WF_allVars(DrainTimeout)
       /\ WF_allVars(GraceEnds)
       /\ WF_allVars(ResponseCloses)
       /\ WF_allVars(reader = "over" /\ ConnectionLost)
       /\ WF_allVars(Opens \/ Read)

HttpFairSpec == HttpSpec /\ HttpFairness

-----------------------------------------------------------------------------
(* Every field holds what its declaration says; a writer that is not made  *)
(* to wait leaves fewer frames than the response takes.                    *)
HttpTypeOK ==
  /\ TypeOK
  /\ loop \in {"asking", "draining", "over"}
  /\ written \in 0..Len(stream.got)
  /\ response \in {"open", "ending", "ended", "destroyed", "closed"}
  /\ out \in Seq(0..Error) /\ Len(out) <= HighWater + 2
  /\ loop = "asking" /\ response = "open" => Len(out) < HighWater
  /\ wire \in Seq(0..Cut) /\ Len(wire) <= Window + 1
  /\ reader \in {"opening", "reading", "over"}
  /\ client \in [queue : Seq(0..Length), waiting : BOOLEAN, ended : BOOLEAN, failed : BOOLEAN,
                 got : Seq(0..Length), outcome : {"none", "done", "error"}]
  /\ Len(client.queue) <= Limit
  /\ gone \in BOOLEAN /\ responsive \in BOOLEAN /\ stopping \in BOOLEAN

HttpSafe == HttpTypeOK /\ NoGaps

Served == IF source = "service" THEN client ELSE stream

(* To the one who asked for the turn, all of this is TurnFrames: an        *)
(* overflow, a full response, a lost connection, a daemon that stops and a *)
(* set-up that fails never show as a gap, a wrong order or an end before   *)
(* the terminal event.                                                     *)
Frames ==
  INSTANCE TurnFrames WITH
    admitted <- turn = "admitted", got <- Served.got, outcome <- Served.outcome,
    left <- IF source = "service" THEN gone ELSE left

FramesSpec == Frames!Spec

(* When the client has done with its response, or the daemon stops, the    *)
(* turn stream ends and gives its subscription up, even if the turn never  *)
(* emits another event.                                                    *)
ObserverReleased ==
  (source = "service" /\ (reader = "over" \/ stopping)) ~> stream.ended /\ ~Held(channel)

(* A consumer that waits gets a frame, the end or an error once the turn   *)
(* is over or the stream that observes it is.                              *)
WaitersServed ==
  Served.waiting /\ (sent = Length \/ turn = "refused" \/ stream.ended) ~>
    ~Served.waiting
=============================================================================
