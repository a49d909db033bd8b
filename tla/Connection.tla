----------------------------- MODULE Connection -----------------------------
(***************************************************************************)
(* The JSON-RPC connections of a daemon: a DaemonClient with its           *)
(* SocketClients (src/src/client), the JsonRpcConnection at the other end  *)
(* of each (src/src/transport/json-rpc-router.ts), the subscriptions they  *)
(* hold in the event bus, and the close of the transports when the daemon  *)
(* stops (src/src/daemon.ts).                                              *)
(*                                                                         *)
(* The daemon has started.  Lines keep their order in each direction.  A   *)
(* socket is a Unix socket; a WebSocket differs in its calls only.  What   *)
(* the service does for a request is abstracted to its answer.             *)
(***************************************************************************)
EXTENDS Naturals, FiniteSets, Sequences

CONSTANTS
  Client,        \* SocketClients, each with at most one connection in its life
  Stuck,         \* clients of others, which may stop reading and never close
  Call,          \* requests
  OwnerOf,       \* the client that makes a request
  Subscribes,    \* requests that subscribe; each is its subscription's id
  Unsubscribes,  \* requests that unsubscribe
  Shutdowns,     \* server/shutdown
  Event,         \* the notification of an event
  MaxEvents      \* bound: events published

Answers == [call : Call, result : {"ok", "refused"}]

ASSUME ConnectionAssumption ==
  /\ OwnerOf \in [Call -> Client]
  /\ Stuck \subseteq Client
  /\ Subscribes \cup Unsubscribes \cup Shutdowns \subseteq Call
  /\ Event \notin Answers
  /\ MaxEvents \in Nat

VARIABLES
  owner,     \* the DaemonClient of the other clients: "open", "closing" or "closed"
  client,    \* the SocketClients: closed, and link, the state of the transport
  call,      \* the requests, as their caller sees them
  request,   \* lines on their way to the daemon
  response,  \* lines on their way to the client
  peer,      \* the daemon's end: its stream, the lines it has not flushed and
             \* the subscriptions it owns
  served,    \* the requests, as the daemon sees them
  bus,       \* the subscriptions in the event bus
  daemon,    \* "up", "closing" its transports or "closed"
  events     \* events published, for MaxEvents

vars == <<owner, client, call, request, response, peer, served, bus, daemon, events>>
clientVars == <<owner, client, call>>
daemonVars == <<peer, served, bus, daemon, events>>

Unsettled == {"connecting", "pending"}

Owned == Client \ Stuck

CallsOf(c) == {q \in Call : OwnerOf[q] = c}

-----------------------------------------------------------------------------
(* The daemon's ends.                                                      *)

(* JsonRpcConnection.close, and the stream is destroyed.                   *)
Gone(p) == [p EXCEPT !.stream = "gone", !.out = <<>>, !.subscriptions = {}]

(* The transport ends a socket; one that is not accepted yet is reset.     *)
Ended(p) ==
  IF p.stream = "open" THEN [p EXCEPT !.stream = "ended"]
  ELSE IF p.stream = "arrived" THEN Gone(p)
  ELSE p

(* A write to a stream that has been ended is an error, which destroys it. *)
Written(p, line) ==
  IF p.stream = "open" THEN [p EXCEPT !.out = Append(@, line)]
  ELSE IF p.stream = "ended" THEN Gone(p)
  ELSE p

(* The listener of each of its subscriptions writes the event.             *)
Notified(p) ==
  IF p.stream = "open"
  THEN [p EXCEPT !.out = @ \o [i \in 1..Cardinality(p.subscriptions) |-> Event]]
  ELSE IF p.subscriptions = {} THEN p
  ELSE Written(p, Event)

(* The lines whose onWritten calls onShutdown.                             *)
ShutdownAnswer(line) == line # Event /\ line.call \in Shutdowns /\ line.result = "ok"

(* The ends become ps; a connection that is gone drops its subscriptions.  *)
(* With stop, onShutdown is called: the first time it ends every socket.   *)
Becomes(ps, stop) ==
  /\ peer' = IF stop /\ daemon = "up" THEN [c \in Client |-> Ended(ps[c])] ELSE ps
  /\ daemon' = IF stop /\ daemon = "up" THEN "closing" ELSE daemon
  /\ bus' = bus \ UNION {peer[c].subscriptions \ peer'[c].subscriptions : c \in Client}

(* An end is destroyed, with the callbacks of what it had not flushed.     *)
Destroyed(cs) ==
  Becomes([c \in Client |-> IF c \in cs THEN Gone(peer[c]) ELSE peer[c]],
          \E c \in cs : \E i \in DOMAIN peer[c].out : ShutdownAnswer(peer[c].out[i]))

Alive(c) == peer[c].stream \in {"open", "ended"}

-----------------------------------------------------------------------------
(* The client: SocketClient.                                               *)

(* The clients cs are closed: what is pending, or waits for a connection   *)
(* that is still being opened, is rejected.                                *)
Closed(cs) ==
  /\ client' = [c \in Client |->
       IF c \notin cs THEN client[c]
       ELSE [closed |-> TRUE,
             link |-> IF client[c].link \in {"connecting", "up"} THEN "down" ELSE client[c].link]]
  /\ call' = [q \in Call |->
       IF /\ OwnerOf[q] \in cs
          /\ \/ call[q] = "pending"
             \/ call[q] = "connecting" /\ client[OwnerOf[q]].link = "connecting"
       THEN "lost" ELSE call[q]]
  /\ response' = [c \in Client |-> IF c \in cs THEN <<>> ELSE response[c]]

Rejected(qs) == call' = [q \in Call |-> IF q \in qs THEN "lost" ELSE call[q]]

Waiting(c) == {q \in CallsOf(c) : call[q] = "connecting"}

(* request, as far as the await of connect.                                *)
Request(q) ==
  LET c == OwnerOf[q] IN
  /\ call[q] = "new"
  /\ IF (c \in Owned /\ owner # "open") \/ client[c].closed THEN Rejected({q}) /\ UNCHANGED client
     ELSE /\ call' = [call EXCEPT ![q] = "connecting"]
          /\ client' = IF client[c].link = "none" THEN [client EXCEPT ![c].link = "connecting"]
                       ELSE client
  /\ UNCHANGED <<owner, request, response, daemonVars>>

(* The daemon listens until it closes.                                     *)
ConnectionOpens(c) ==
  /\ client[c].link = "connecting" /\ daemon = "up"
  /\ client' = [client EXCEPT ![c].link = "opened"]
  /\ peer' = [peer EXCEPT ![c].stream = "arrived"]
  /\ UNCHANGED <<owner, call, request, response, served, bus, daemon, events>>

ConnectionFails(c) ==
  /\ client[c].link = "connecting"
  /\ client' = [client EXCEPT ![c].link = "none"]
  /\ Rejected(Waiting(c))
  /\ UNCHANGED <<owner, request, response, daemonVars>>

(* Variant: a client that was closed meanwhile is not looked at.           *)
TransportOpenedBlindly(c) ==
  /\ client[c].link = "opened"
  /\ client' = [client EXCEPT ![c].link = "up"]
  /\ UNCHANGED <<owner, call, request, response, daemonVars>>

(* openTransport goes on.                                                  *)
TransportOpened(c) ==
  /\ client[c].link = "opened"
  /\ IF client[c].closed
     THEN client' = [client EXCEPT ![c].link = "down"] /\ Rejected(Waiting(c))
     ELSE client' = [client EXCEPT ![c].link = "up"] /\ UNCHANGED call
  /\ UNCHANGED <<owner, request, response, daemonVars>>

(* request goes on.  A line to a daemon's end that is gone is lost.        *)
Send(q) ==
  LET c == OwnerOf[q] IN
  /\ call[q] = "connecting" /\ client[c].link \in {"up", "down"}
  /\ IF client[c].closed THEN Rejected({q}) /\ UNCHANGED request
     ELSE /\ call' = [call EXCEPT ![q] = "pending"]
          /\ request' = IF peer[c].stream = "gone" THEN request
                        ELSE [request EXCEPT ![c] = Append(@, q)]
  /\ UNCHANGED <<owner, client, response, daemonVars>>

(* handleLine                                                              *)
Receive(c) ==
  /\ client[c].link = "up" /\ response[c] # <<>>
  /\ response' = [response EXCEPT ![c] = Tail(@)]
  /\ LET line == Head(response[c]) IN
     call' = IF line # Event /\ call[line.call] = "pending"
             THEN [call EXCEPT ![line.call] = line.result] ELSE call
  /\ UNCHANGED <<owner, client, request, daemonVars>>

(* Variant: what is pending is left to its callers.                        *)
DisconnectedPending(c) ==
  /\ client[c].link = "up"
  /\ \/ peer[c].stream = "gone"
     \/ peer[c].stream = "ended" /\ peer[c].out = <<>> /\ response[c] = <<>>
  /\ client' = [client EXCEPT ![c] = [closed |-> TRUE, link |-> "down"]]
  /\ response' = [response EXCEPT ![c] = <<>>]
  /\ UNCHANGED <<owner, call, request, daemonVars>>

(* The socket closes, after an error or when the daemon has ended it.      *)
Disconnected(c) ==
  /\ client[c].link = "up"
  /\ \/ peer[c].stream = "gone"
     \/ peer[c].stream = "ended" /\ peer[c].out = <<>> /\ response[c] = <<>>
  /\ Closed({c})
  /\ UNCHANGED <<owner, request, daemonVars>>

(* SocketClient.close: by its caller, or when a stream releases it.        *)
Close(c) ==
  /\ ~client[c].closed
  /\ Closed({c})
  /\ UNCHANGED <<owner, request, daemonVars>>

(* DaemonClient.close, which closes its sockets after an await.            *)
CloseOwner ==
  /\ owner = "open"
  /\ owner' = "closing"
  /\ UNCHANGED <<client, call, request, response, daemonVars>>

CloseSockets ==
  /\ owner = "closing"
  /\ owner' = "closed"
  /\ Closed(Owned)
  /\ UNCHANGED <<request, daemonVars>>

-----------------------------------------------------------------------------
(* The daemon: JsonRpcConnection.                                          *)

Accept(c) ==
  /\ peer[c].stream = "arrived"
  /\ peer' = [peer EXCEPT ![c].stream = "open"]
  /\ UNCHANGED <<clientVars, request, response, served, bus, daemon, events>>

(* A line is dispatched; to subscribe and to unsubscribe is done at once.  *)
HandleLine(c) ==
  /\ Alive(c) /\ request[c] # <<>>
  /\ request' = [request EXCEPT ![c] = Tail(@)]
  /\ LET q == Head(request[c]) IN
     /\ served' = [served EXCEPT ![q] = "working"]
     /\ \/ /\ q \in Subscribes
           /\ peer' = [peer EXCEPT ![c].subscriptions = @ \cup {q}]
           /\ bus' = bus \cup {q}
        \/ /\ q \in Unsubscribes
           /\ \E s \in Subscribes :
                /\ peer' = [peer EXCEPT ![c].subscriptions = @ \ {s}]
                /\ bus' = bus \ ({s} \cap peer[c].subscriptions)
        \/ /\ q \notin Subscribes \cup Unsubscribes
           /\ UNCHANGED <<peer, bus>>
  /\ UNCHANGED <<clientVars, response, daemon, events>>

(* The answer is written, even of a request whose client has left; where   *)
(* there is nobody to write to, onWritten is called at once.               *)
Answer(q, result) ==
  LET c == OwnerOf[q]
      line == [call |-> q, result |-> result]
  IN
  /\ served[q] = "working"
  /\ q \in Subscribes => result = "ok"
  /\ served' = [served EXCEPT ![q] = "answered"]
  /\ Becomes([peer EXCEPT ![c] = Written(@, line)], ShutdownAnswer(line) /\ ~Alive(c))
  /\ UNCHANGED <<clientVars, request, response, events>>

(* The stream hands a line to the system and calls onWritten.              *)
Flush(c) ==
  /\ Alive(c) /\ peer[c].out # <<>>
  /\ response' = IF client[c].link = "down" THEN response
                 ELSE [response EXCEPT ![c] = Append(@, Head(peer[c].out))]
  /\ Becomes([peer EXCEPT ![c].out = Tail(@)], ShutdownAnswer(Head(peer[c].out)))
  /\ UNCHANGED <<clientVars, request, served, events>>

(* The bus calls the listener of every subscription.                       *)
Publish ==
  /\ events < MaxEvents
  /\ events' = events + 1
  /\ Becomes([c \in Client |-> Notified(peer[c])], FALSE)
  /\ UNCHANGED <<clientVars, request, response, served>>

(* The stream of a client that has gone ends or closes.                    *)
SeesClose(c) ==
  /\ Alive(c) /\ client[c].link = "down"
  /\ Destroyed({c})
  /\ request' = [request EXCEPT ![c] = <<>>]
  /\ UNCHANGED <<clientVars, response, served, events>>

(* A connection breaks.                                                    *)
StreamFails(c) ==
  /\ Alive(c)
  /\ Destroyed({c})
  /\ request' = [request EXCEPT ![c] = <<>>]
  /\ UNCHANGED <<clientVars, response, served, events>>

-----------------------------------------------------------------------------
(* The daemon stops.                                                       *)

(* SIGINT or SIGTERM.                                                      *)
Signal ==
  /\ daemon = "up"
  /\ Becomes(peer, TRUE)
  /\ UNCHANGED <<clientVars, request, response, served, events>>

(* Variant: only the sockets with nothing left to flush.                   *)
GraceOverIdle ==
  /\ daemon = "closing" /\ \E c \in Client : Alive(c) /\ peer[c].out = <<>>
  /\ Destroyed({c \in Client : Alive(c) /\ peer[c].out = <<>>})
  /\ request' = [c \in Client |-> <<>>]
  /\ UNCHANGED <<clientVars, response, served, events>>

(* The second of grace is over for those that have not closed.             *)
GraceOver ==
  /\ daemon = "closing" /\ \E c \in Client : Alive(c)
  /\ Destroyed({c \in Client : Alive(c)})
  /\ request' = [c \in Client |-> <<>>]
  /\ UNCHANGED <<clientVars, response, served, events>>

(* The transports' close resolves once every socket has closed.            *)
TransportsClosed ==
  /\ daemon = "closing" /\ \A c \in Client : ~Alive(c)
  /\ daemon' = "closed"
  /\ UNCHANGED <<clientVars, request, response, peer, served, bus, events>>

-----------------------------------------------------------------------------

Init ==
  /\ owner = "open"
  /\ client = [c \in Client |-> [closed |-> FALSE, link |-> "none"]]
  /\ call = [q \in Call |-> "new"]
  /\ request = [c \in Client |-> <<>>]
  /\ response = [c \in Client |-> <<>>]
  /\ peer = [c \in Client |-> [stream |-> "none", out |-> <<>>, subscriptions |-> {}]]
  /\ served = [q \in Call |-> "no"]
  /\ bus = {}
  /\ daemon = "up"
  /\ events = 0

(* What a client's event loop does of itself.                              *)
ClientStep(c) ==
  \/ ConnectionOpens(c) \/ ConnectionFails(c) \/ TransportOpened(c)
  \/ Receive(c) \/ Disconnected(c)
  \/ \E q \in CallsOf(c) : Send(q)

DaemonStep(c) == Accept(c) \/ HandleLine(c) \/ SeesClose(c)

Next ==
  \/ \E c \in Client : ClientStep(c) \/ Close(c)
  \/ \E c \in Client : DaemonStep(c) \/ Flush(c) \/ StreamFails(c)
  \/ \E q \in Call : Request(q) \/ \E result \in {"ok", "refused"} : Answer(q, result)
  \/ CloseOwner \/ CloseSockets
  \/ Publish \/ Signal \/ GraceOver \/ TransportsClosed

Spec == Init /\ [][Next]_vars

(* Clients read and send unless they are stuck; the service answers; the   *)
(* grace period passes.                                                    *)
Fairness ==
  /\ \A c \in Owned : WF_vars(ClientStep(c)) /\ WF_vars(Flush(c))
  /\ \A c \in Client : WF_vars(DaemonStep(c))
  /\ \A q \in Call : WF_vars(\E result \in {"ok", "refused"} : Answer(q, result))
  /\ WF_vars(CloseSockets)
  /\ WF_vars(GraceOver) /\ WF_vars(TransportsClosed)

FairSpec == Spec /\ Fairness

-----------------------------------------------------------------------------
(* Every field holds what its declaration says; an end that is not open    *)
(* has nothing to flush and no subscription, and the daemon answers only   *)
(* what it was sent.                                                       *)
TypeOK ==
  /\ owner \in {"open", "closing", "closed"}
  /\ client \in [Client -> [closed : BOOLEAN,
                            link : {"none", "connecting", "opened", "up", "down"}]]
  /\ call \in [Call -> {"new", "connecting", "pending", "ok", "refused", "lost"}]
  /\ request \in [Client -> Seq(Call)]
  /\ response \in [Client -> Seq(Answers \cup {Event})]
  /\ peer \in [Client -> [stream : {"none", "arrived", "open", "ended", "gone"},
                          out : Seq(Answers \cup {Event}), subscriptions : SUBSET Subscribes]]
  /\ \A c \in Client : ~Alive(c) => peer[c].out = <<>>
  /\ served \in [Call -> {"no", "working", "answered"}]
  /\ \A q \in Call : call[q] \in {"new", "connecting"} => served[q] = "no"
  /\ bus \subseteq Subscribes
  /\ daemon \in {"up", "closing", "closed"}
  /\ events \in 0..MaxEvents

(* What is closed holds nothing, at either end and in whatever order the   *)
(* ends close: a client that is closed, even while its connection was      *)
(* being opened, has no socket and no pending request, and the event bus   *)
(* has no subscription but those of the connections that are open.         *)
ClosedHoldsNothing ==
  /\ \A c \in Client : client[c].closed =>
       /\ client[c].link \notin {"connecting", "up"}
       /\ \A q \in CallsOf(c) : call[q] # "pending"
  /\ owner = "closed" => \A c \in Owned : client[c].closed
  /\ bus = UNION {peer[c].subscriptions : c \in {d \in Client : Alive(d)}}

(* The lines, of a direction, that are in set.                             *)
Among(lines, set) == {i \in DOMAIN lines : lines[i] \in set}

AnswersTo(q) == {line \in Answers : line.call = q}

AtMostOne(set) == \A x, y \in set : x = y

(* A request is sent and handled once, and answered once after that.       *)
HandledOnce(q) ==
  LET c == OwnerOf[q]
      asked == Among(request[c], {q})
      written == Among(peer[c].out, AnswersTo(q))
      flushed == Among(response[c], AnswersTo(q))
  IN
  /\ AtMostOne(asked) /\ AtMostOne(written) /\ AtMostOne(flushed)
  /\ asked # {} => served[q] = "no"
  /\ written \cup flushed # {} => served[q] = "answered"
  /\ written = {} \/ flushed = {}

(* It, or its answer, is somewhere between its caller and the service.     *)
UnderWay(q) ==
  LET c == OwnerOf[q] IN
  \/ Among(request[c], {q}) # {}
  \/ served[q] = "working"
  \/ Among(peer[c].out, AnswersTo(q)) # {}
  \/ Among(response[c], AnswersTo(q)) # {}

(* No line is lost unnoticed, and none comes twice: a pending request is   *)
(* under way on a connection that is up, or the end of the connection has  *)
(* still to be noticed.  It is handled once, even where its connection     *)
(* breaks or the daemon stops in between.                                  *)
Accounted ==
  \A q \in Call :
    /\ HandledOnce(q)
    /\ call[q] = "pending" =>
         LET c == OwnerOf[q] IN
         client[c].link = "up" /\ (peer[c].stream \in {"ended", "gone"} \/ UnderWay(q))

Safe == TypeOK /\ ClosedHoldsNothing /\ Accounted

(* Every request settles: it is answered, or rejected when the connection  *)
(* fails to open or closes.                                                *)
RequestsSettle ==
  \A q \in Call : OwnerOf[q] \in Owned => (call[q] \in Unsettled ~> call[q] \notin Unsettled)

(* The daemon stops within the grace period, whatever its clients do.      *)
DaemonStops == daemon = "closing" ~> daemon = "closed"

=============================================================================
