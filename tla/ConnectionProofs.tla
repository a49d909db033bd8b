-------------------------- MODULE ConnectionProofs --------------------------
(***************************************************************************)
(* What is closed holds nothing, and every request is accounted for: for   *)
(* any number of clients, requests, subscriptions and events, however      *)
(* connections open, fail, break and are closed at either end, and         *)
(* whenever the daemon stops.                                              *)
(***************************************************************************)
EXTENDS Connection, FiniteSetTheorems, TLAPS

-----------------------------------------------------------------------------
(* The inductive invariant.                                                *)

Line == Answers \cup {Event}

Link == {"none", "connecting", "opened", "up", "down"}

End == [stream : {"none", "arrived", "open", "ended", "gone"},
        out : Seq(Line), subscriptions : SUBSET Subscribes]

(* The end the daemon has of client c: its subscriptions are finitely many       *)
(* requests of c, and an end that is not open has neither a subscription   *)
(* nor a line to flush.                                                    *)
EndAt(c, p) ==
  /\ p.subscriptions \subseteq CallsOf(c) /\ IsFiniteSet(p.subscriptions)
  /\ p.stream \notin {"open", "ended"} => p.out = <<>> /\ p.subscriptions = {}

Ends == \A c \in Client : EndAt(c, peer[c])

(* The daemon has no end before the connection is open.                    *)
Unopened ==
  \A c \in Client : client[c].link \in {"none", "connecting"} => peer[c].stream = "none"

(* The lines to the daemon are requests of the client that sends them, and *)
(* their caller has gone on from the await of connect.                     *)
Lines ==
  \A c \in Client : \A i \in DOMAIN request[c] :
    /\ request[c][i] \in CallsOf(c)
    /\ call[request[c][i]] \notin {"new", "connecting"}

(* The daemon works for no request that its caller has not sent.           *)
ServedWereSent == \A q \in Call : call[q] \in {"new", "connecting"} => served[q] = "no"

(* ClosedHoldsNothing, as far as it is about the clients.                  *)
ClosedClients ==
  /\ \A c \in Client : client[c].closed =>
       /\ client[c].link \notin {"connecting", "up"}
       /\ \A q \in CallsOf(c) : call[q] # "pending"
  /\ owner = "closed" => \A c \in Owned : client[c].closed

(* The bus b has the subscriptions of the ends ps.                         *)
BusAt(b, ps) == b = UNION {ps[c].subscriptions : c \in Client}

(* Safe alone is not inductive: that what is pending was rejected says     *)
(* nothing of lines still on their way, nor of a connection that opens     *)
(* after its client was closed.                                            *)
OwnInv ==
  /\ TypeOK
  /\ Ends
  /\ Unopened
  /\ Lines
  /\ ClosedClients
  /\ BusAt(bus, peer)

(* The parts of the invariant: that of the clients, ...                    *)
Clients ==
  /\ owner \in {"open", "closing", "closed"}
  /\ client \in [Client -> [closed : BOOLEAN, link : Link]]
  /\ response \in [Client -> Seq(Line)]
  /\ ClosedClients

(* ... that of the requests and the lines to the daemon, ...               *)
Calls ==
  /\ call \in [Call -> {"new", "connecting", "pending", "ok", "refused", "lost"}]
  /\ request \in [Client -> Seq(Call)]
  /\ served \in [Call -> {"no", "working", "answered"}]
  /\ ServedWereSent
  /\ Lines

(* ... and that of the daemon's ends and the event bus.                    *)
Daemon ==
  /\ peer \in [Client -> End]
  /\ Ends
  /\ bus \subseteq Subscribes
  /\ BusAt(bus, peer)
  /\ daemon \in {"up", "closing", "closed"}
  /\ events \in 0..MaxEvents

(* The invariant is their conjunction, with what relates the two ends.     *)
LEMMA Parts == OwnInv <=> Clients /\ Calls /\ Daemon /\ Unopened
  BY DEF OwnInv, TypeOK, Clients, Calls, Daemon, ServedWereSent, Ends, EndAt, Alive,
         Line, Link, End, Answers

(* The same of the next state.                                             *)
LEMMA Joined == ASSUME Clients', Calls', Daemon', Unopened' PROVE OwnInv'
  BY DEF OwnInv, TypeOK, Clients, Calls, Daemon, ServedWereSent, Ends, EndAt, Alive,
         Line, Link, End, Answers

-----------------------------------------------------------------------------
(* The daemon's ends.                                                      *)

(* An end that loses its stream is an end, and holds nothing.              *)
LEMMA GoneEnds ==
  ASSUME NEW c \in Client, NEW p \in End
  PROVE  /\ Gone(p) \in End /\ EndAt(c, Gone(p))
         /\ Gone(p).subscriptions = {} /\ Gone(p).stream = "gone"
<1>1. IsFiniteSet({}) /\ <<>> \in Seq(Line) /\ {} \in SUBSET Subscribes
  BY FS_EmptySet
<1>2. Gone(p).subscriptions = {} /\ Gone(p).stream = "gone" /\ Gone(p).out = <<>>
  BY DEF Gone, End
<1>3. Gone(p) \in End
  BY <1>1 DEF Gone, End
<1> QED
  BY <1>1, <1>2, <1>3 DEF EndAt

(* What the transport ends stays an end, with no more subscriptions.       *)
LEMMA EndedEnds ==
  ASSUME NEW c \in Client, NEW p \in End, EndAt(c, p)
  PROVE  /\ Ended(p) \in End /\ EndAt(c, Ended(p))
         /\ Ended(p).subscriptions \subseteq p.subscriptions
         /\ p.stream = "none" => Ended(p).stream = "none"
<1>1. CASE p.stream = "open"
  BY <1>1 DEF Ended, End, EndAt
<1>2. CASE p.stream = "arrived"
  <2>1. Ended(p) = Gone(p)
    BY <1>2 DEF Ended
  <2> QED
    BY <2>1, <1>2, GoneEnds
<1>3. CASE p.stream \notin {"open", "arrived"}
  BY <1>3 DEF Ended
<1> QED
  BY <1>1, <1>2, <1>3

(* What is written to stays an end, with no more subscriptions.            *)
LEMMA WrittenEnds ==
  ASSUME NEW c \in Client, NEW p \in End, EndAt(c, p), NEW line \in Line
  PROVE  /\ Written(p, line) \in End /\ EndAt(c, Written(p, line))
         /\ Written(p, line).subscriptions \subseteq p.subscriptions
         /\ p.stream = "none" => Written(p, line).stream = "none"
<1>1. CASE p.stream = "open"
  <2>1. Append(p.out, line) \in Seq(Line)
    BY DEF End
  <2> QED
    BY <1>1, <2>1 DEF Written, End, EndAt
<1>2. CASE p.stream = "ended"
  <2>1. Written(p, line) = Gone(p)
    BY <1>2 DEF Written
  <2> QED
    BY <2>1, <1>2, GoneEnds
<1>3. CASE p.stream \notin {"open", "ended"}
  BY <1>3 DEF Written
<1> QED
  BY <1>1, <1>2, <1>3

(* So does what the bus notifies: an end has finitely many subscriptions.  *)
LEMMA NotifiedEnds ==
  ASSUME NEW c \in Client, NEW p \in End, EndAt(c, p)
  PROVE  /\ Notified(p) \in End /\ EndAt(c, Notified(p))
         /\ Notified(p).subscriptions \subseteq p.subscriptions
         /\ p.stream = "none" => Notified(p).stream = "none"
<1>1. CASE p.stream = "open"
  <2>1. Cardinality(p.subscriptions) \in Nat
    BY FS_CardinalityType DEF EndAt
  <2> DEFINE es == [i \in 1..Cardinality(p.subscriptions) |-> Event]
  <2>2. es \in Seq(Line)
    BY <2>1 DEF Line
  <2>3. p.out \o es \in Seq(Line)
    BY <2>2 DEF End
  <2>4. Notified(p) = [p EXCEPT !.out = p.out \o es]
    BY <1>1 DEF Notified
  <2> HIDE DEF es
  <2> QED
    BY <1>1, <2>3, <2>4 DEF End, EndAt
<1>2. CASE p.stream # "open" /\ p.subscriptions = {}
  BY <1>2 DEF Notified
<1>3. CASE p.stream # "open" /\ p.subscriptions # {}
  <2>1. Notified(p) = Written(p, Event)
    BY <1>3 DEF Notified
  <2> QED
    BY <2>1, WrittenEnds DEF Line
<1> QED
  BY <1>1, <1>2, <1>3

(* A subscription belongs to one end only: what the ends drop is dropped   *)
(* from the bus, and what they keep stays there.                           *)
LEMMA BusFollows ==
  ASSUME NEW b, NEW ps, NEW qs, BusAt(b, ps),
         \A c \in Client : /\ ps[c].subscriptions \subseteq CallsOf(c)
                           /\ qs[c].subscriptions \subseteq ps[c].subscriptions
  PROVE  BusAt(b \ UNION {ps[c].subscriptions \ qs[c].subscriptions : c \in Client}, qs)
<1> DEFINE dropped == UNION {ps[c].subscriptions \ qs[c].subscriptions : c \in Client}
           kept == UNION {qs[c].subscriptions : c \in Client}
<1>1. ASSUME NEW s \in b, s \notin dropped PROVE s \in kept
  <2>1. PICK c \in Client : s \in ps[c].subscriptions
    BY <1>1 DEF BusAt
  <2>2. s \in qs[c].subscriptions
    BY <1>1, <2>1
  <2> QED
    BY <2>2
<1>2. ASSUME NEW s \in kept PROVE s \in b /\ s \notin dropped
  <2>1. PICK c \in Client : s \in qs[c].subscriptions
    OBVIOUS
  <2>2. s \in ps[c].subscriptions /\ OwnerOf[s] = c
    BY <2>1 DEF CallsOf
  <2>3. s \in b
    BY <2>2 DEF BusAt
  <2>4. ASSUME NEW d \in Client, s \in ps[d].subscriptions, s \notin qs[d].subscriptions
        PROVE  FALSE
    <3>1. OwnerOf[s] = d
      BY <2>4 DEF CallsOf
    <3> QED
      BY <2>1, <2>2, <2>4, <3>1
  <2> QED
    BY <2>3, <2>4
<1>3. b \ dropped = kept
  BY <1>1, <1>2
<1> QED
  BY <1>3 DEF BusAt

(* A step in which the ends become what a write, a flush or the loss of    *)
(* their streams makes of them, whether or not the daemon is told to stop. *)
LEMMA BecomesKeeps ==
  ASSUME Daemon, Unopened, NEW ps \in [Client -> End], NEW stop \in BOOLEAN,
         \A c \in Client : /\ EndAt(c, ps[c])
                           /\ ps[c].subscriptions \subseteq peer[c].subscriptions
                           /\ peer[c].stream = "none" => ps[c].stream = "none",
         Becomes(ps, stop), events' \in 0..MaxEvents
  PROVE  /\ Daemon'
         /\ \A c \in Client : peer[c].stream = "none" => peer'[c].stream = "none"
<1> DEFINE es == [c \in Client |-> Ended(ps[c])]
<1>1. ASSUME NEW c \in Client
      PROVE  /\ Ended(ps[c]) \in End /\ EndAt(c, Ended(ps[c]))
             /\ Ended(ps[c]).subscriptions \subseteq ps[c].subscriptions
             /\ ps[c].stream = "none" => Ended(ps[c]).stream = "none"
  BY EndedEnds
<1>2. /\ es \in [Client -> End]
      /\ \A c \in Client : /\ EndAt(c, es[c])
                           /\ es[c].subscriptions \subseteq peer[c].subscriptions
                           /\ peer[c].stream = "none" => es[c].stream = "none"
  BY <1>1
<1>3. peer' = es \/ peer' = ps
  BY DEF Becomes
<1> HIDE DEF es
<1>4. /\ peer' \in [Client -> End]
      /\ \A c \in Client : /\ EndAt(c, peer'[c])
                           /\ peer'[c].subscriptions \subseteq peer[c].subscriptions
                           /\ peer[c].stream = "none" => peer'[c].stream = "none"
  BY <1>2, <1>3
<1>5. \A c \in Client : peer[c].subscriptions \subseteq CallsOf(c)
  BY DEF Daemon, Ends, EndAt
<1>6. BusAt(bus, peer)
  BY DEF Daemon
<1>7. bus' = bus \ UNION {peer[c].subscriptions \ peer'[c].subscriptions : c \in Client}
  BY DEF Becomes
<1>8. BusAt(bus', peer')
  BY <1>4, <1>5, <1>6, <1>7, BusFollows
<1>9. Ends'
  BY <1>4 DEF Ends, EndAt, CallsOf
<1>10. daemon' \in {"up", "closing", "closed"} /\ bus' \subseteq Subscribes
  BY <1>7 DEF Daemon, Becomes
<1>11. BusAt(bus, peer)'
  BY <1>8 DEF BusAt
<1> QED
  BY <1>4, <1>9, <1>10, <1>11 DEF Daemon

(* The loss of any set of streams is such a step.                          *)
LEMMA DestroyedKeeps ==
  ASSUME Daemon, Unopened, NEW cs \in SUBSET Client, Destroyed(cs), UNCHANGED events,
         \A c \in cs : peer[c].stream # "none"
  PROVE  /\ Daemon'
         /\ \A c \in Client : peer[c].stream = "none" => peer'[c].stream = "none"
<1> DEFINE ps == [c \in Client |-> IF c \in cs THEN Gone(peer[c]) ELSE peer[c]]
           stop == \E c \in cs : \E i \in DOMAIN peer[c].out : ShutdownAnswer(peer[c].out[i])
<1>1. ASSUME NEW c \in Client
      PROVE  /\ Gone(peer[c]) \in End /\ EndAt(c, Gone(peer[c]))
             /\ Gone(peer[c]).subscriptions = {}
             /\ peer[c] \in End /\ EndAt(c, peer[c])
  BY GoneEnds DEF Daemon, Ends
<1>2. /\ ps \in [Client -> End]
      /\ \A c \in Client : /\ EndAt(c, ps[c])
                           /\ ps[c].subscriptions \subseteq peer[c].subscriptions
                           /\ peer[c].stream = "none" => ps[c].stream = "none"
  BY <1>1
<1>3. Becomes(ps, stop) /\ stop \in BOOLEAN /\ events' \in 0..MaxEvents
  BY DEF Destroyed, Daemon
<1> HIDE DEF ps, stop
<1> QED
  BY <1>2, <1>3, BecomesKeeps

(* A step that leaves the daemon's end alone leaves it in order.           *)
LEMMA DaemonUnmoved == ASSUME Daemon, UNCHANGED daemonVars PROVE Daemon'
<1>1. peer' = peer /\ bus' = bus /\ daemon' = daemon /\ events' = events
  BY DEF daemonVars
<1>2. Ends' /\ BusAt(bus, peer)'
  BY <1>1 DEF Daemon, Ends, EndAt, CallsOf, BusAt
<1> QED
  BY <1>1, <1>2 DEF Daemon

(* So it is with the clients.                                              *)
LEMMA ClientsUnmoved ==
  ASSUME Clients, UNCHANGED <<owner, client, call>>, response' \in [Client -> Seq(Line)]
  PROVE  Clients'
  BY DEF Clients, ClosedClients, CallsOf

-----------------------------------------------------------------------------
(* The requests.                                                           *)

(* A request that has been sent does not go back to waiting for the        *)
(* connection, so that what the daemon was sent stays in order when lines  *)
(* to it are lost.                                                         *)
LEMMA CallsMove ==
  ASSUME Calls,
         call' \in [Call -> {"new", "connecting", "pending", "ok", "refused", "lost"}],
         \A q \in Call : call[q] \notin {"new", "connecting"}
                           => call'[q] \notin {"new", "connecting"},
         served' = served, request' \in [Client -> Seq(Call)],
         \A c \in Client : request'[c] = request[c] \/ request'[c] = <<>>
  PROVE  Calls'
<1>1. ServedWereSent'
  BY DEF Calls, ServedWereSent
<1>2. ASSUME NEW c \in Client, NEW i \in DOMAIN request'[c]
      PROVE  request'[c][i] \in CallsOf(c) /\ call'[request'[c][i]] \notin {"new", "connecting"}
  <2>1. request'[c] = request[c] /\ i \in DOMAIN request[c]
    BY <1>2
  <2>2. request[c][i] \in CallsOf(c) /\ call[request[c][i]] \notin {"new", "connecting"}
    BY <2>1 DEF Calls, Lines
  <2> QED
    BY <2>1, <2>2 DEF CallsOf
<1>3. Lines'
  BY <1>2 DEF Lines, CallsOf
<1> QED
  BY <1>1, <1>3 DEF Calls

(* Rejecting requests is such a step.                                      *)
LEMMA RejectedMoves ==
  ASSUME Calls, NEW qs, Rejected(qs), UNCHANGED <<served, request>>
  PROVE  Calls'
<1>1. /\ call' \in [Call -> {"new", "connecting", "pending", "ok", "refused", "lost"}]
      /\ \A q \in Call : call[q] \notin {"new", "connecting"}
                           => call'[q] \notin {"new", "connecting"}
  BY DEF Rejected, Calls
<1> QED
  BY <1>1, CallsMove DEF Calls

(* The lines of a client that have been lost were in order.                *)
LEMMA LinesLost ==
  ASSUME Calls, UNCHANGED <<call, served>>, NEW cs,
         request' = [c \in Client |-> IF c \in cs THEN <<>> ELSE request[c]]
  PROVE  Calls'
<1>1. /\ request' \in [Client -> Seq(Call)]
      /\ \A c \in Client : request'[c] = request[c] \/ request'[c] = <<>>
  BY DEF Calls
<1> QED
  BY <1>1, CallsMove DEF Calls

-----------------------------------------------------------------------------
(* The steps of the clients.                                               *)

(* Closing any clients: each drops its transport and rejects its pending   *)
(* requests in the step in which it becomes closed.                        *)
LEMMA ClosedKeeps ==
  ASSUME OwnInv, NEW cs, Closed(cs), UNCHANGED <<request, daemonVars>>,
         owner' \in {"open", "closing", "closed"},
         owner' = "closed" => owner = "closed" \/ Owned \subseteq cs
  PROVE  OwnInv'
<1>1. Clients /\ Calls /\ Daemon /\ Unopened
  BY Parts
<1>2. Calls'
  <2>1. /\ call' \in [Call -> {"new", "connecting", "pending", "ok", "refused", "lost"}]
        /\ \A q \in Call : call[q] \notin {"new", "connecting"}
                             => call'[q] \notin {"new", "connecting"}
    BY <1>1 DEF Closed, Calls
  <2> QED
    BY <1>1, <2>1, CallsMove DEF Calls, daemonVars
<1>3. client' \in [Client -> [closed : BOOLEAN, link : Link]]
  BY <1>1 DEF Closed, Clients, Link
<1>4. response' \in [Client -> Seq(Line)]
  BY <1>1 DEF Closed, Clients
<1>5. ASSUME NEW c \in Client, client'[c].closed
      PROVE  /\ client'[c].link \notin {"connecting", "up"}
             /\ \A q \in CallsOf(c) : call'[q] # "pending"
  <2>1. CASE c \in cs
    <3>1. client'[c].link \notin {"connecting", "up"}
      BY <2>1 DEF Closed
    <3>2. ASSUME NEW q \in CallsOf(c) PROVE call'[q] # "pending"
      BY <2>1, <3>2 DEF Closed, CallsOf
    <3> QED
      BY <3>1, <3>2
  <2>2. CASE c \notin cs
    <3>1. client'[c] = client[c]
      BY <2>2 DEF Closed
    <3>2. \A q \in CallsOf(c) : call'[q] = call[q]
      BY <2>2 DEF Closed, CallsOf
    <3> QED
      BY <1>1, <1>5, <3>1, <3>2 DEF Clients, ClosedClients
  <2> QED
    BY <2>1, <2>2
<1>6. ASSUME owner' = "closed", NEW c \in Owned PROVE client'[c].closed
  <2>1. c \in Client /\ (c \in cs \/ client[c].closed)
    BY <1>1, <1>6 DEF Clients, ClosedClients, Owned
  <2> QED
    BY <2>1 DEF Closed
<1>7. Clients'
  BY <1>3, <1>4, <1>5, <1>6 DEF Clients, ClosedClients, CallsOf, Owned
<1>8. Unopened'
  <2>1. ASSUME NEW c \in Client, client'[c].link \in {"none", "connecting"}
        PROVE  peer'[c].stream = "none"
    <3>1. client[c].link \in {"none", "connecting"}
      BY <1>1, <2>1 DEF Closed, Clients, Link
    <3> QED
      BY <1>1, <3>1 DEF Unopened, daemonVars
  <2> QED
    BY <2>1 DEF Unopened
<1>9. Daemon'
  BY <1>1, DaemonUnmoved
<1> QED
  BY <1>2, <1>7, <1>8, <1>9, Joined

(* A step of one client that is not closed by it: its transport's state is *)
(* a new one, and a request of its becomes pending only while it is open.  *)
LEMMA LinkMoves ==
  ASSUME Clients, NEW c \in Client, NEW to \in Link,
         client' = [client EXCEPT ![c].link = to],
         client[c].closed => to \notin {"connecting", "up"},
         \A q \in Call : call'[q] = "pending" => call[q] = "pending",
         UNCHANGED <<owner, response>>
  PROVE  Clients'
<1>1. client' \in [Client -> [closed : BOOLEAN, link : Link]]
  BY DEF Clients
<1>2. ASSUME NEW d \in Client, client'[d].closed
      PROVE  /\ client'[d].link \notin {"connecting", "up"}
             /\ \A q \in CallsOf(d) : call'[q] # "pending"
  <2>1. client[d].closed
    BY <1>2 DEF Clients
  <2>2. client[d].link \notin {"connecting", "up"} /\ \A q \in CallsOf(d) : call[q] # "pending"
    BY <2>1 DEF Clients, ClosedClients
  <2>3. client'[d].link \notin {"connecting", "up"}
    BY <2>1, <2>2 DEF Clients
  <2> QED
    BY <2>2, <2>3 DEF CallsOf
<1>3. ASSUME owner' = "closed", NEW d \in Owned PROVE client'[d].closed
  BY <1>3 DEF Clients, ClosedClients, Owned
<1> QED
  BY <1>1, <1>2, <1>3 DEF Clients, ClosedClients, CallsOf, Owned

(* Nothing is pending but what was.                                        *)
LEMMA RejectedNotPending ==
  ASSUME NEW qs, Rejected(qs)
  PROVE  \A q \in Call : call'[q] = "pending" => call[q] = "pending"
  BY DEF Rejected

(* request before the await: of a client that is closed it is rejected.    *)
LEMMA RequestKeeps == ASSUME OwnInv, NEW q \in Call, Request(q) PROVE OwnInv'
<1> DEFINE c == OwnerOf[q]
<1>1. Clients /\ Calls /\ Daemon /\ Unopened /\ c \in Client
  BY Parts, ConnectionAssumption
<1>2. Daemon' /\ UNCHANGED <<owner, response, served, request, peer>>
  BY <1>1, DaemonUnmoved DEF Request, daemonVars
<1>3. CASE Rejected({q}) /\ UNCHANGED client
  <2>1. Calls'
    BY <1>1, <1>2, <1>3, RejectedMoves
  <2>2. client' = [client EXCEPT ![c].link = client[c].link]
    BY <1>1, <1>3 DEF Clients
  <2>3. Clients'
    BY <1>1, <1>2, <1>3, <2>2, RejectedNotPending, LinkMoves DEF Clients, ClosedClients
  <2>4. Unopened'
    BY <1>1, <1>2, <1>3 DEF Unopened
  <2> QED
    BY <1>2, <2>1, <2>3, <2>4, Joined
<1>4. CASE /\ ~client[c].closed
           /\ call' = [call EXCEPT ![q] = "connecting"]
           /\ client' = IF client[c].link = "none" THEN [client EXCEPT ![c].link = "connecting"]
                        ELSE client
  <2> DEFINE to == IF client[c].link = "none" THEN "connecting" ELSE client[c].link
  <2>1. call[q] = "new"
    BY DEF Request
  <2>2. Calls'
    <3>1. /\ call' \in [Call -> {"new", "connecting", "pending", "ok", "refused", "lost"}]
          /\ \A r \in Call : call[r] \notin {"new", "connecting"}
                               => call'[r] \notin {"new", "connecting"}
      BY <1>1, <1>4, <2>1 DEF Calls
    <3> QED
      BY <1>1, <1>2, <3>1, CallsMove DEF Calls
  <2>3. client' = [client EXCEPT ![c].link = to] /\ to \in Link
    BY <1>1, <1>4 DEF Clients, Link
  <2>4. \A r \in Call : call'[r] = "pending" => call[r] = "pending"
    BY <1>1, <1>4 DEF Calls
  <2>5. Clients'
    BY <1>1, <1>2, <1>4, <2>3, <2>4, LinkMoves
  <2>6. Unopened'
    <3>1. ASSUME NEW d \in Client, client'[d].link \in {"none", "connecting"}
          PROVE  peer[d].stream = "none"
      BY <1>1, <2>3, <3>1 DEF Unopened, Clients
    <3> QED
      BY <1>2, <3>1 DEF Unopened
  <2> QED
    BY <1>2, <2>2, <2>5, <2>6, Joined
<1> QED
  BY <1>3, <1>4 DEF Request

(* The daemon's end comes into being with the connection.                  *)
LEMMA ConnectionOpensKeeps ==
  ASSUME OwnInv, NEW c \in Client, ConnectionOpens(c) PROVE OwnInv'
<1>1. Clients /\ Calls /\ Daemon /\ Unopened
  BY Parts
<1>2. Calls'
  BY <1>1, CallsMove DEF ConnectionOpens, Calls
<1>3. "opened" \in Link /\ client' = [client EXCEPT ![c].link = "opened"]
  BY DEF ConnectionOpens, Link
<1>4. Clients'
  BY <1>1, <1>3, LinkMoves DEF ConnectionOpens
<1> DEFINE p == [peer[c] EXCEPT !.stream = "arrived"]
<1>5. peer[c] \in End /\ EndAt(c, peer[c]) /\ peer[c].stream = "none"
  BY <1>1 DEF Daemon, Ends, Unopened, ConnectionOpens
<1>6. p \in End /\ EndAt(c, p) /\ p.subscriptions = peer[c].subscriptions
  BY <1>5 DEF End, EndAt
<1>7. peer' = [peer EXCEPT ![c] = p]
  BY DEF ConnectionOpens
<1> HIDE DEF p
<1>8. /\ peer' \in [Client -> End]
      /\ \A d \in Client : /\ EndAt(d, peer'[d])
                           /\ peer'[d].subscriptions = peer[d].subscriptions
                           /\ d # c => peer'[d] = peer[d]
  BY <1>1, <1>6, <1>7 DEF Daemon, Ends
<1>9. Ends' /\ BusAt(bus, peer)'
  BY <1>1, <1>8 DEF Daemon, Ends, EndAt, CallsOf, BusAt, ConnectionOpens
<1>10. Daemon'
  BY <1>1, <1>8, <1>9 DEF Daemon, ConnectionOpens
<1>11. Unopened'
  <2>1. ASSUME NEW d \in Client, client'[d].link \in {"none", "connecting"}
        PROVE  peer'[d].stream = "none"
    <3>1. d # c /\ client'[d] = client[d]
      BY <1>1, <1>3, <2>1 DEF Clients
    <3> QED
      BY <1>1, <1>8, <2>1, <3>1 DEF Unopened
  <2> QED
    BY <2>1 DEF Unopened
<1> QED
  BY <1>2, <1>4, <1>10, <1>11, Joined

(* A connection that fails leaves none at the other end.                   *)
LEMMA ConnectionFailsKeeps ==
  ASSUME OwnInv, NEW c \in Client, ConnectionFails(c) PROVE OwnInv'
<1>1. Clients /\ Calls /\ Daemon /\ Unopened
  BY Parts
<1>2. Daemon' /\ UNCHANGED <<owner, response, served, request, peer>>
  BY <1>1, DaemonUnmoved DEF ConnectionFails, daemonVars
<1>3. Calls'
  BY <1>1, <1>2, RejectedMoves DEF ConnectionFails
<1>4. "none" \in Link /\ client' = [client EXCEPT ![c].link = "none"]
  BY DEF ConnectionFails, Link
<1>5. Clients'
  BY <1>1, <1>2, <1>4, RejectedNotPending, LinkMoves DEF ConnectionFails
<1>6. Unopened'
  <2>1. ASSUME NEW d \in Client, client'[d].link \in {"none", "connecting"}
        PROVE  peer[d].stream = "none"
    BY <1>1, <1>4, <2>1 DEF Unopened, Clients, ConnectionFails
  <2> QED
    BY <1>2, <2>1 DEF Unopened
<1> QED
  BY <1>2, <1>3, <1>5, <1>6, Joined

(* A client that was closed while its connection opened never has it up.   *)
LEMMA TransportOpenedKeeps ==
  ASSUME OwnInv, NEW c \in Client, TransportOpened(c) PROVE OwnInv'
<1> DEFINE to == IF client[c].closed THEN "down" ELSE "up"
<1>1. Clients /\ Calls /\ Daemon /\ Unopened
  BY Parts
<1>2. Daemon' /\ UNCHANGED <<owner, response, served, request, peer>>
  BY <1>1, DaemonUnmoved DEF TransportOpened, daemonVars
<1>3. Rejected(Waiting(c)) \/ UNCHANGED call
  BY DEF TransportOpened
<1>4. Calls' /\ \A q \in Call : call'[q] = "pending" => call[q] = "pending"
  <2>1. CASE Rejected(Waiting(c))
    BY <1>1, <1>2, <2>1, RejectedMoves, RejectedNotPending
  <2>2. CASE UNCHANGED call
    BY <1>1, <1>2, <2>2, CallsMove DEF Calls
  <2> QED
    BY <1>3, <2>1, <2>2
<1>5. to \in Link /\ client' = [client EXCEPT ![c].link = to]
  BY DEF TransportOpened, Link
<1>6. Clients'
  BY <1>1, <1>2, <1>4, <1>5, LinkMoves
<1>7. Unopened'
  <2>1. ASSUME NEW d \in Client, client'[d].link \in {"none", "connecting"}
        PROVE  peer[d].stream = "none"
    BY <1>1, <1>5, <2>1 DEF Unopened, Clients
  <2> QED
    BY <1>2, <2>1 DEF Unopened
<1> QED
  BY <1>2, <1>4, <1>6, <1>7, Joined

(* What is sent is pending, and the client is not closed.                  *)
LEMMA SendKeeps == ASSUME OwnInv, NEW q \in Call, Send(q) PROVE OwnInv'
<1> DEFINE c == OwnerOf[q]
<1>1. Clients /\ Calls /\ Daemon /\ Unopened /\ c \in Client
  BY Parts, ConnectionAssumption
<1>2. Daemon' /\ UNCHANGED <<owner, client, response, served, peer>>
  BY <1>1, DaemonUnmoved DEF Send, daemonVars
<1>3. Unopened'
  BY <1>1, <1>2 DEF Unopened
<1>4. CASE client[c].closed
  <2>1. Rejected({q}) /\ UNCHANGED request
    BY <1>4 DEF Send
  <2>2. Calls'
    BY <1>1, <1>2, <2>1, RejectedMoves
  <2>3. client' = [client EXCEPT ![c].link = client[c].link]
    BY <1>1, <1>2 DEF Clients
  <2>4. Clients'
    BY <1>1, <1>2, <2>1, <2>3, RejectedNotPending, LinkMoves DEF Clients, ClosedClients
  <2> QED
    BY <1>2, <1>3, <2>2, <2>4, Joined
<1>5. CASE ~client[c].closed
  <2>1. call' = [call EXCEPT ![q] = "pending"] /\ call[q] = "connecting"
    BY <1>5 DEF Send
  <2>2. request' = request \/ request' = [request EXCEPT ![c] = Append(@, q)]
    BY <1>5 DEF Send
  <2>3. call' \in [Call -> {"new", "connecting", "pending", "ok", "refused", "lost"}]
    BY <1>1, <2>1 DEF Calls
  <2>4. ServedWereSent'
    BY <1>1, <1>2, <2>1 DEF Calls, ServedWereSent
  <2>5. /\ request' \in [Client -> Seq(Call)]
        /\ \A d \in Client : \/ request'[d] = request[d]
                             \/ d = c /\ request'[d] = Append(request[d], q)
    <3>1. request \in [Client -> Seq(Call)]
      BY <1>1 DEF Calls
    <3>2. Append(request[c], q) \in Seq(Call)
      BY <1>1, <3>1
    <3> DEFINE longer == Append(request[c], q)
    <3>3. request' = request \/ request' = [request EXCEPT ![c] = longer]
      BY <2>2
    <3>4. longer \in Seq(Call) /\ longer = Append(request[c], q)
      BY <3>2
    <3> HIDE DEF longer
    <3> QED
      BY <1>1, <3>1, <3>3, <3>4
  <2>6. ASSUME NEW d \in Client, NEW i \in DOMAIN request'[d]
        PROVE  request'[d][i] \in CallsOf(d) /\ call'[request'[d][i]] \notin {"new", "connecting"}
    <3>1. CASE i \in DOMAIN request[d] /\ request'[d][i] = request[d][i]
      <4>1. request[d][i] \in CallsOf(d) /\ call[request[d][i]] \notin {"new", "connecting"}
        BY <1>1, <3>1 DEF Calls, Lines
      <4> QED
        BY <1>1, <2>1, <3>1, <4>1 DEF Calls, CallsOf
    <3>2. CASE d = c /\ request'[d][i] = q
      BY <1>1, <2>1, <3>2 DEF Calls, CallsOf
    <3>3. \/ i \in DOMAIN request[d] /\ request'[d][i] = request[d][i]
          \/ d = c /\ request'[d][i] = q
      <4>1. request[d] \in Seq(Call)
        BY <1>1 DEF Calls
      <4>2. CASE request'[d] = request[d]
        BY <4>2, <2>6
      <4>3. CASE d = c /\ request'[d] = Append(request[d], q)
        BY <4>1, <4>3, <2>6
      <4>4. \/ request'[d] = request[d]
            \/ d = c /\ request'[d] = Append(request[d], q)
        BY <2>5
      <4> QED
        BY <4>2, <4>3, <4>4
    <3> QED
      BY <3>1, <3>2, <3>3
  <2>7. Calls'
    BY <1>1, <1>2, <2>3, <2>4, <2>5, <2>6 DEF Calls, Lines, CallsOf
  <2>8. ASSUME NEW d \in Client, client[d].closed, NEW r \in CallsOf(d)
        PROVE  call'[r] # "pending"
    <3>1. d # c /\ r # q
      BY <1>5, <2>8 DEF CallsOf
    <3>2. call[r] # "pending"
      BY <1>1, <2>8 DEF Clients, ClosedClients
    <3> QED
      BY <1>1, <2>1, <3>1, <3>2 DEF Calls, CallsOf
  <2>9. Clients'
    BY <1>1, <1>2, <2>8 DEF Clients, ClosedClients, CallsOf
  <2> QED
    BY <1>2, <1>3, <2>7, <2>9, Joined
<1> QED
  BY <1>4, <1>5

(* An answer settles a pending request of the line's.                      *)
LEMMA ReceiveKeeps == ASSUME OwnInv, NEW c \in Client, Receive(c) PROVE OwnInv'
<1> DEFINE line == Head(response[c])
<1>1. Clients /\ Calls /\ Daemon /\ Unopened
  BY Parts
<1>2. Daemon' /\ UNCHANGED <<owner, client, served, request, peer>>
  BY <1>1, DaemonUnmoved DEF Receive, daemonVars
<1>3. Unopened'
  BY <1>1, <1>2 DEF Unopened
<1>4. response[c] \in Seq(Line) /\ response[c] # <<>>
  BY <1>1 DEF Clients, Receive
<1>5. line \in Line /\ Tail(response[c]) \in Seq(Line)
  BY <1>4
<1>6. response' \in [Client -> Seq(Line)]
  BY <1>1, <1>5 DEF Receive, Clients
<1>7. /\ call' \in [Call -> {"new", "connecting", "pending", "ok", "refused", "lost"}]
      /\ \A q \in Call : /\ call[q] \notin {"new", "connecting"}
                              => call'[q] \notin {"new", "connecting"}
                         /\ call'[q] = "pending" => call[q] = "pending"
  <2>1. CASE line # Event /\ call[line.call] = "pending"
    <3>1. line.call \in Call /\ line.result \in {"ok", "refused"}
      BY <1>5, <2>1 DEF Line, Answers
    <3>2. call' = [call EXCEPT ![line.call] = line.result]
      BY <2>1 DEF Receive
    <3> HIDE DEF line
    <3> QED
      BY <1>1, <3>1, <3>2 DEF Calls
  <2>2. CASE UNCHANGED call
    BY <1>1, <2>2 DEF Calls
  <2> QED
    BY <2>1, <2>2 DEF Receive
<1>8. Calls'
  BY <1>1, <1>2, <1>7, CallsMove DEF Calls
<1>9. Clients'
  BY <1>1, <1>2, <1>6, <1>7 DEF Clients, ClosedClients, CallsOf
<1> QED
  BY <1>2, <1>3, <1>8, <1>9, Joined

-----------------------------------------------------------------------------
(* The steps of the daemon.                                                *)

(* An accepted end has nothing to flush and no subscription.               *)
LEMMA AcceptKeeps == ASSUME OwnInv, NEW c \in Client, Accept(c) PROVE OwnInv'
<1> DEFINE p == [peer[c] EXCEPT !.stream = "open"]
<1>1. Clients /\ Calls /\ Daemon /\ Unopened
  BY Parts
<1>2. Calls'
  BY <1>1, CallsMove DEF Accept, clientVars, Calls
<1>3. Clients'
  BY <1>1, ClientsUnmoved DEF Accept, clientVars, Clients
<1>4. peer[c] \in End /\ EndAt(c, peer[c]) /\ peer[c].stream = "arrived"
  BY <1>1 DEF Daemon, Ends, Accept
<1>5. p \in End /\ EndAt(c, p) /\ p.subscriptions = peer[c].subscriptions
  BY <1>4 DEF End, EndAt
<1>6. peer' = [peer EXCEPT ![c] = p]
  BY DEF Accept
<1> HIDE DEF p
<1>7. /\ peer' \in [Client -> End]
      /\ \A d \in Client : /\ EndAt(d, peer'[d])
                           /\ peer'[d].subscriptions = peer[d].subscriptions
                           /\ peer[d].stream = "none" => peer'[d].stream = "none"
  BY <1>1, <1>4, <1>5, <1>6 DEF Daemon, Ends
<1>8. Ends' /\ BusAt(bus, peer)'
  BY <1>1, <1>7 DEF Daemon, Ends, EndAt, CallsOf, BusAt, Accept
<1>9. Daemon'
  BY <1>1, <1>7, <1>8 DEF Daemon, Accept
<1>10. Unopened'
  BY <1>1, <1>7 DEF Unopened, Accept, clientVars
<1> QED
  BY <1>2, <1>3, <1>9, <1>10, Joined

(* A line is the head of what has arrived: a request of this client, which *)
(* has been sent.  Its subscription, if any, is made on this end.          *)
LEMMA HandleLineKeeps == ASSUME OwnInv, NEW c \in Client, HandleLine(c) PROVE OwnInv'
<1> DEFINE q == Head(request[c])
<1>1. Clients /\ Calls /\ Daemon /\ Unopened
  BY Parts
<1>2. request[c] \in Seq(Call) /\ request[c] # <<>>
  BY <1>1 DEF Calls, HandleLine
<1>3. /\ 1 \in DOMAIN request[c] /\ q = request[c][1]
      /\ Tail(request[c]) \in Seq(Call)
      /\ \A i \in DOMAIN Tail(request[c]) :
           i + 1 \in DOMAIN request[c] /\ Tail(request[c])[i] = request[c][i + 1]
  BY <1>2
<1>4. q \in Call /\ q \in CallsOf(c) /\ call[q] \notin {"new", "connecting"}
  BY <1>1, <1>3 DEF Calls, Lines, CallsOf
<1>5. /\ request' = [request EXCEPT ![c] = Tail(request[c])]
      /\ served' = [served EXCEPT ![q] = "working"]
      /\ UNCHANGED <<owner, client, call, response, daemon, events>>
  BY DEF HandleLine, clientVars
<1>6. Clients'
  BY <1>1, <1>5, ClientsUnmoved DEF Clients
<1> DEFINE rest == Tail(request[c])
<1>7. Calls'
  <2> HIDE DEF q
  <2>1. request' \in [Client -> Seq(Call)] /\ served' \in [Call -> {"no", "working", "answered"}]
    <3> HIDE DEF rest
    <3>1. rest \in Seq(Call) /\ request' = [request EXCEPT ![c] = rest]
      BY <1>3, <1>5 DEF rest
    <3> QED
      BY <1>1, <1>4, <1>5, <3>1 DEF Calls
  <2>2. ServedWereSent'
    BY <1>1, <1>4, <1>5 DEF Calls, ServedWereSent
  <2>3. ASSUME NEW d \in Client, NEW i \in DOMAIN request'[d]
        PROVE  request'[d][i] \in CallsOf(d) /\ call[request'[d][i]] \notin {"new", "connecting"}
    <3>1. CASE d = c
      <4>1. request'[d] = Tail(request[c])
        BY <1>1, <1>5, <3>1 DEF Calls
      <4>2. i + 1 \in DOMAIN request[c] /\ request'[d][i] = request[c][i + 1]
        BY <1>3, <2>3, <4>1
      <4> QED
        BY <1>1, <3>1, <4>2 DEF Calls, Lines
    <3>2. CASE d # c
      <4>1. request'[d] = request[d]
        BY <1>1, <1>5, <3>2 DEF Calls
      <4> QED
        BY <1>1, <2>3, <4>1 DEF Calls, Lines
    <3> QED
      BY <3>1, <3>2
  <2>4. Lines'
    BY <1>5, <2>3 DEF Lines, CallsOf
  <2> QED
    BY <1>1, <1>5, <2>1, <2>2, <2>4 DEF Calls
<1>8. peer[c] \in End /\ EndAt(c, peer[c]) /\ peer[c].stream \in {"open", "ended"}
  BY <1>1 DEF Daemon, Ends, HandleLine, Alive
<1> HIDE DEF q, rest
<1>9. CASE /\ q \in Subscribes
           /\ peer' = [peer EXCEPT ![c].subscriptions = @ \cup {q}]
           /\ bus' = bus \cup {q}
  <2> DEFINE subs == peer[c].subscriptions \cup {q}
             p == [peer[c] EXCEPT !.subscriptions = subs]
  <2>1. IsFiniteSet(subs)
    BY <1>8, FS_AddElement DEF EndAt
  <2>2. subs \subseteq Subscribes /\ subs \subseteq CallsOf(c)
    BY <1>4, <1>8, <1>9 DEF End, EndAt
  <2>3. subs = peer[c].subscriptions \cup {q} /\ peer' = [peer EXCEPT ![c] = p]
    BY <1>9
  <2> HIDE DEF subs
  <2>4. p \in End /\ EndAt(c, p) /\ p.subscriptions = subs /\ p.stream = peer[c].stream
    BY <1>8, <2>1, <2>2 DEF End, EndAt
  <2> HIDE DEF p
  <2>5. /\ peer' \in [Client -> End]
        /\ \A d \in Client : /\ EndAt(d, peer'[d]) /\ peer'[d].stream = peer[d].stream
                             /\ d # c => peer'[d] = peer[d]
        /\ peer'[c].subscriptions = peer[c].subscriptions \cup {q}
    BY <1>1, <2>3, <2>4 DEF Daemon, Ends
  <2>6. Ends'
    BY <2>5 DEF Ends, EndAt, CallsOf
  <2>7. BusAt(bus, peer)'
    <3>1. ASSUME NEW s \in bus' PROVE \E d \in Client : s \in peer'[d].subscriptions
      <4>1. CASE s = q
        BY <2>5, <4>1
      <4>2. CASE s \in bus
        <5>1. PICK d \in Client : s \in peer[d].subscriptions
          BY <1>1, <4>2 DEF Daemon, BusAt
        <5>2. s \in peer'[d].subscriptions
          BY <2>5, <5>1
        <5> QED
          BY <5>2
      <4> QED
        BY <1>9, <3>1, <4>1, <4>2
    <3>2. ASSUME NEW d \in Client, NEW s \in peer'[d].subscriptions PROVE s \in bus'
      <4>1. s \in peer[d].subscriptions \/ s = q
        BY <2>5, <3>2
      <4>2. s \in peer[d].subscriptions => s \in bus
        BY <1>1 DEF Daemon, BusAt
      <4> QED
        BY <1>9, <4>1, <4>2
    <3> QED
      BY <3>1, <3>2 DEF BusAt
  <2>8. Daemon'
    BY <1>1, <1>5, <1>9, <2>5, <2>6, <2>7 DEF Daemon
  <2>9. Unopened'
    BY <1>1, <1>5, <2>5 DEF Unopened
  <2> QED
    BY <1>6, <1>7, <2>8, <2>9, Joined
<1>10. ASSUME NEW s \in Subscribes,
              peer' = [peer EXCEPT ![c].subscriptions = @ \ {s}],
              bus' = bus \ ({s} \cap peer[c].subscriptions)
       PROVE  OwnInv'
  <2> DEFINE subs == peer[c].subscriptions \ {s}
             p == [peer[c] EXCEPT !.subscriptions = subs]
  <2>1. IsFiniteSet(subs)
    BY <1>8, FS_Subset DEF EndAt
  <2>2. subs \subseteq Subscribes /\ subs \subseteq CallsOf(c)
    BY <1>8 DEF End, EndAt
  <2>3. subs = peer[c].subscriptions \ {s} /\ peer' = [peer EXCEPT ![c] = p]
    BY <1>10
  <2> HIDE DEF subs
  <2>4. p \in End /\ EndAt(c, p) /\ p.subscriptions = subs /\ p.stream = peer[c].stream
    BY <1>8, <2>1, <2>2 DEF End, EndAt
  <2> HIDE DEF p
  <2>5. /\ peer' \in [Client -> End]
        /\ \A d \in Client : /\ EndAt(d, peer'[d]) /\ peer'[d].stream = peer[d].stream
                             /\ d # c => peer'[d] = peer[d]
        /\ peer'[c].subscriptions = peer[c].subscriptions \ {s}
    BY <1>1, <2>3, <2>4 DEF Daemon, Ends
  <2>6. Ends'
    BY <2>5 DEF Ends, EndAt, CallsOf
  <2> DEFINE dropped == UNION {peer[d].subscriptions \ peer'[d].subscriptions : d \in Client}
  <2>7. dropped = {s} \cap peer[c].subscriptions
    <3>1. ASSUME NEW x \in dropped PROVE x = s /\ x \in peer[c].subscriptions
      <4>1. PICK d \in Client : x \in peer[d].subscriptions \ peer'[d].subscriptions
        OBVIOUS
      <4>2. d = c
        BY <2>5, <4>1
      <4> QED
        BY <2>5, <4>1, <4>2
    <3>2. ASSUME s \in peer[c].subscriptions PROVE s \in dropped
      <4>1. s \in peer[c].subscriptions \ peer'[c].subscriptions
        BY <2>5, <3>2
      <4> QED
        BY <4>1
    <3> QED
      BY <3>1, <3>2
  <2>8. BusAt(bus \ dropped, peer')
    <3>1. \A d \in Client : /\ peer[d].subscriptions \subseteq CallsOf(d)
                            /\ peer'[d].subscriptions \subseteq peer[d].subscriptions
      BY <1>1, <2>5 DEF Daemon, Ends, EndAt
    <3> QED
      BY <1>1, <3>1, BusFollows DEF Daemon
  <2>9. BusAt(bus, peer)'
    BY <1>10, <2>7, <2>8 DEF BusAt
  <2>10. Daemon'
    BY <1>1, <1>5, <1>10, <2>5, <2>6, <2>9 DEF Daemon
  <2>11. Unopened'
    BY <1>1, <1>5, <2>5 DEF Unopened
  <2> QED
    BY <1>6, <1>7, <2>10, <2>11, Joined
<1>11. CASE UNCHANGED <<peer, bus>>
  <2>1. Daemon' /\ Unopened'
    BY <1>1, <1>5, <1>11, DaemonUnmoved DEF Daemon, Unopened, daemonVars,
       Ends, EndAt, CallsOf, BusAt
  <2> QED
    BY <1>6, <1>7, <2>1, Joined
<1> QED
  BY <1>9, <1>10, <1>11 DEF HandleLine, q

(* What Becomes leaves of the rest of the state.                           *)
LEMMA BecomesJoined ==
  ASSUME OwnInv, Daemon', Calls', UNCHANGED clientVars, response' \in [Client -> Seq(Line)],
         \A c \in Client : peer[c].stream = "none" => peer'[c].stream = "none"
  PROVE  OwnInv'
<1>1. Clients /\ Unopened
  BY Parts
<1>2. Clients'
  BY <1>1, ClientsUnmoved DEF clientVars
<1>3. Unopened'
  BY <1>1 DEF Unopened, clientVars
<1> QED
  BY <1>2, <1>3, Joined

(* The answer to what the daemon worked for.                               *)
LEMMA AnswerKeeps ==
  ASSUME OwnInv, NEW q \in Call, NEW result \in {"ok", "refused"}, Answer(q, result)
  PROVE  OwnInv'
<1> DEFINE c == OwnerOf[q]
           line == [call |-> q, result |-> result]
           ps == [peer EXCEPT ![c] = Written(peer[c], line)]
           stop == ShutdownAnswer(line) /\ ~Alive(c)
<1>1. Clients /\ Calls /\ Daemon /\ Unopened /\ c \in Client
  BY Parts, ConnectionAssumption
<1>2. line \in Line
  BY DEF Line, Answers
<1>3. /\ served[q] = "working" /\ served' = [served EXCEPT ![q] = "answered"]
      /\ UNCHANGED <<clientVars, call, request, response, events>>
  BY DEF Answer, clientVars
<1>4. Becomes(ps, stop) /\ stop \in BOOLEAN
  BY DEF Answer, ShutdownAnswer
<1> HIDE DEF line, stop
<1>5. Calls'
  <2>1. ServedWereSent' /\ served' \in [Call -> {"no", "working", "answered"}]
    BY <1>1, <1>3 DEF Calls, ServedWereSent
  <2>2. Lines'
    BY <1>1, <1>3 DEF Calls, Lines, CallsOf
  <2> QED
    BY <1>1, <1>3, <2>1, <2>2 DEF Calls
<1>6. peer \in [Client -> End] /\ \A d \in Client : EndAt(d, peer[d])
  BY <1>1 DEF Daemon, Ends
<1> DEFINE p == Written(peer[c], line)
<1>7. /\ p \in End /\ EndAt(c, p) /\ p.subscriptions \subseteq peer[c].subscriptions
      /\ peer[c].stream = "none" => p.stream = "none"
  BY <1>1, <1>2, <1>6, WrittenEnds
<1> HIDE DEF p
<1>8. ps = [peer EXCEPT ![c] = p]
  BY DEF p
<1> HIDE DEF ps
<1>9. /\ ps \in [Client -> End]
      /\ \A d \in Client : /\ EndAt(d, ps[d])
                           /\ ps[d].subscriptions \subseteq peer[d].subscriptions
                           /\ peer[d].stream = "none" => ps[d].stream = "none"
  BY <1>1, <1>6, <1>7, <1>8
<1>10. events' \in 0..MaxEvents
  BY <1>1, <1>3 DEF Daemon
<1>11. /\ Daemon'
       /\ \A d \in Client : peer[d].stream = "none" => peer'[d].stream = "none"
  BY <1>1, <1>4, <1>9, <1>10, BecomesKeeps
<1>12. response' \in [Client -> Seq(Line)]
  BY <1>1, <1>3 DEF Clients
<1> QED
  BY <1>3, <1>5, <1>11, <1>12, BecomesJoined

(* A line is handed on; the answer to a shutdown stops the daemon.         *)
LEMMA FlushKeeps == ASSUME OwnInv, NEW c \in Client, Flush(c) PROVE OwnInv'
<1> DEFINE line == Head(peer[c].out)
           p == [peer[c] EXCEPT !.out = Tail(@)]
           ps == [peer EXCEPT ![c] = p]
           stop == ShutdownAnswer(line)
<1>1. Clients /\ Calls /\ Daemon /\ Unopened
  BY Parts
<1>2. peer \in [Client -> End] /\ \A d \in Client : EndAt(d, peer[d])
  BY <1>1 DEF Daemon, Ends
<1>3. peer[c].out \in Seq(Line) /\ peer[c].out # <<>> /\ peer[c].stream \in {"open", "ended"}
  BY <1>2 DEF End, Flush, Alive
<1>4. line \in Line /\ Tail(peer[c].out) \in Seq(Line)
  BY <1>3
<1>5. UNCHANGED <<clientVars, call, request, served, events>>
  BY DEF Flush, clientVars
<1>6. Becomes(ps, stop) /\ stop \in BOOLEAN
  BY DEF Flush, ShutdownAnswer
<1>7. response' \in [Client -> Seq(Line)]
  <2>1. response \in [Client -> Seq(Line)]
    BY <1>1 DEF Clients
  <2> DEFINE longer == Append(response[c], line)
  <2>2. longer \in Seq(Line)
    BY <1>4, <2>1
  <2>3. response' = response \/ response' = [response EXCEPT ![c] = longer]
    BY DEF Flush
  <2> HIDE DEF longer
  <2> QED
    BY <2>1, <2>2, <2>3
<1>8. Calls'
  BY <1>1, <1>5, CallsMove DEF Calls
<1>9. /\ p \in End /\ EndAt(c, p) /\ p.subscriptions = peer[c].subscriptions
      /\ p.stream = peer[c].stream
  BY <1>2, <1>3, <1>4 DEF End, EndAt
<1> HIDE DEF p, stop
<1>10. /\ ps \in [Client -> End]
       /\ \A d \in Client : /\ EndAt(d, ps[d])
                            /\ ps[d].subscriptions \subseteq peer[d].subscriptions
                            /\ peer[d].stream = "none" => ps[d].stream = "none"
  BY <1>2, <1>9
<1> HIDE DEF ps
<1>11. events' \in 0..MaxEvents
  BY <1>1, <1>5 DEF Daemon
<1>12. /\ Daemon'
       /\ \A d \in Client : peer[d].stream = "none" => peer'[d].stream = "none"
  BY <1>1, <1>6, <1>10, <1>11, BecomesKeeps
<1> QED
  BY <1>5, <1>7, <1>8, <1>12, BecomesJoined

(* An event reaches every end that subscribed.                             *)
LEMMA PublishKeeps == ASSUME OwnInv, Publish PROVE OwnInv'
<1> DEFINE ps == [c \in Client |-> Notified(peer[c])]
<1>1. Clients /\ Calls /\ Daemon /\ Unopened
  BY Parts
<1>2. /\ events' \in 0..MaxEvents
      /\ UNCHANGED <<clientVars, call, request, response, served>>
  BY <1>1, ConnectionAssumption DEF Publish, clientVars, Daemon
<1>3. Becomes(ps, FALSE)
  BY DEF Publish
<1>4. ASSUME NEW c \in Client
      PROVE  /\ Notified(peer[c]) \in End /\ EndAt(c, Notified(peer[c]))
             /\ Notified(peer[c]).subscriptions \subseteq peer[c].subscriptions
             /\ peer[c].stream = "none" => Notified(peer[c]).stream = "none"
  BY <1>1, NotifiedEnds DEF Daemon, Ends
<1>5. /\ ps \in [Client -> End]
      /\ \A c \in Client : /\ EndAt(c, ps[c])
                           /\ ps[c].subscriptions \subseteq peer[c].subscriptions
                           /\ peer[c].stream = "none" => ps[c].stream = "none"
  BY <1>4
<1> HIDE DEF ps
<1>6. /\ Daemon'
      /\ \A c \in Client : peer[c].stream = "none" => peer'[c].stream = "none"
  BY <1>1, <1>2, <1>3, <1>5, BecomesKeeps
<1>7. Calls' /\ response' \in [Client -> Seq(Line)]
  BY <1>1, <1>2, CallsMove DEF Calls, Clients
<1> QED
  BY <1>2, <1>6, <1>7, BecomesJoined

(* Any set of streams is lost, with the lines to them.                     *)
LEMMA LossKeeps ==
  ASSUME OwnInv, NEW cs \in SUBSET Client, \A c \in cs : Alive(c), Destroyed(cs), NEW ds,
         request' = [c \in Client |-> IF c \in ds THEN <<>> ELSE request[c]],
         UNCHANGED <<clientVars, response, served, events>>
  PROVE  OwnInv'
<1>1. Clients /\ Calls /\ Daemon /\ Unopened
  BY Parts
<1>2. \A c \in cs : peer[c].stream # "none"
  BY DEF Alive
<1>3. /\ Daemon'
      /\ \A c \in Client : peer[c].stream = "none" => peer'[c].stream = "none"
  BY <1>1, <1>2, DestroyedKeeps
<1>4. Calls' /\ response' \in [Client -> Seq(Line)]
  BY <1>1, LinesLost DEF Clients, clientVars
<1> QED
  BY <1>3, <1>4, BecomesJoined

(* The stream of one client.                                               *)
LEMMA OneLossKeeps ==
  ASSUME OwnInv, NEW c \in Client, Alive(c), Destroyed({c}),
         request' = [request EXCEPT ![c] = <<>>],
         UNCHANGED <<clientVars, response, served, events>>
  PROVE  OwnInv'
<1>1. request \in [Client -> Seq(Call)]
  BY DEF OwnInv, TypeOK
<1>2. request' = [d \in Client |-> IF d \in {c} THEN <<>> ELSE request[d]]
  BY <1>1
<1> QED
  BY <1>2, LossKeeps

(* All streams at once, when the grace period is over.                     *)
LEMMA GraceOverKeeps == ASSUME OwnInv, GraceOver PROVE OwnInv'
<1> DEFINE cs == {c \in Client : Alive(c)}
<1>1. Destroyed(cs) /\ cs \in SUBSET Client /\ \A c \in cs : Alive(c)
  BY DEF GraceOver
<1>2. request' = [c \in Client |-> IF c \in Client THEN <<>> ELSE request[c]]
  BY DEF GraceOver
<1> HIDE DEF cs
<1> QED
  BY <1>1, <1>2, LossKeeps DEF GraceOver

(* The daemon is told to stop.                                             *)
LEMMA SignalKeeps == ASSUME OwnInv, Signal PROVE OwnInv'
<1>1. Clients /\ Calls /\ Daemon /\ Unopened
  BY Parts
<1>2. Calls' /\ response' \in [Client -> Seq(Line)]
  BY <1>1, CallsMove DEF Signal, clientVars, Calls, Clients
<1>3. /\ peer \in [Client -> End] /\ \A c \in Client : EndAt(c, peer[c])
      /\ Becomes(peer, TRUE) /\ events' \in 0..MaxEvents
  BY <1>1 DEF Daemon, Ends, Signal
<1>4. /\ Daemon'
      /\ \A c \in Client : peer[c].stream = "none" => peer'[c].stream = "none"
  BY <1>1, <1>3, BecomesKeeps
<1> QED
  BY <1>2, <1>4, BecomesJoined DEF Signal

(* The daemon has closed its transports.                                   *)
LEMMA TransportsClosedKeeps == ASSUME OwnInv, TransportsClosed PROVE OwnInv'
<1>1. Clients /\ Calls /\ Daemon /\ Unopened
  BY Parts
<1>2. Calls' /\ response' \in [Client -> Seq(Line)]
  BY <1>1, CallsMove DEF TransportsClosed, clientVars, Calls, Clients
<1>3. Ends' /\ BusAt(bus, peer)'
  BY <1>1 DEF Daemon, Ends, EndAt, CallsOf, BusAt, TransportsClosed
<1>4. Daemon'
  BY <1>1, <1>3 DEF Daemon, TransportsClosed
<1> QED
  BY <1>2, <1>4, BecomesJoined DEF TransportsClosed

(* DaemonClient.close, before its await.                                   *)
LEMMA CloseOwnerKeeps == ASSUME OwnInv, CloseOwner PROVE OwnInv'
<1>1. Clients /\ Calls /\ Daemon /\ Unopened
  BY Parts
<1>2. Daemon' /\ UNCHANGED <<client, call, response, served, request, peer>>
  BY <1>1, DaemonUnmoved DEF CloseOwner, daemonVars
<1>3. Calls'
  BY <1>1, <1>2, CallsMove DEF Calls
<1>4. Clients' /\ Unopened'
  BY <1>1, <1>2 DEF CloseOwner, Clients, ClosedClients, CallsOf, Unopened
<1> QED
  BY <1>2, <1>3, <1>4, Joined

-----------------------------------------------------------------------------

(* The daemon starts without connections, and no client has one.           *)
LEMMA InitOwn == ASSUME Init PROVE OwnInv
<1> DEFINE none == [stream |-> "none", out |-> <<>>, subscriptions |-> {}]
<1>1. IsFiniteSet({}) /\ <<>> \in Seq(Line) /\ <<>> \in Seq(Call) /\ {} \in SUBSET Subscribes
  BY FS_EmptySet
<1>2. none \in End /\ \A c \in Client : EndAt(c, none)
  BY <1>1 DEF End, EndAt
<1>3. peer = [c \in Client |-> none] /\ none.subscriptions = {} /\ none.stream = "none"
  BY DEF Init
<1> HIDE DEF none
<1>4. Ends /\ peer \in [Client -> End] /\ BusAt(bus, peer)
  BY <1>2, <1>3 DEF Ends, BusAt, Init
<1>5. Daemon
  BY <1>4, ConnectionAssumption DEF Daemon, Init
<1>6. Clients
  BY <1>1 DEF Clients, ClosedClients, Init, Link
<1>7. Calls
  BY <1>1 DEF Calls, ServedWereSent, Lines, Init
<1>8. Unopened
  BY <1>3 DEF Unopened
<1> QED
  BY <1>5, <1>6, <1>7, <1>8, Parts

(* Every step keeps the invariant.                                         *)
LEMMA NextOwn == ASSUME OwnInv, Next PROVE OwnInv'
<1>1. ASSUME NEW c \in Client, ClientStep(c) \/ Close(c) PROVE OwnInv'
  <2>1. CASE Disconnected(c) \/ Close(c)
    <3>1. /\ Closed({c}) /\ UNCHANGED <<owner, request, daemonVars>>
          /\ owner \in {"open", "closing", "closed"}
      BY <2>1 DEF Disconnected, Close, OwnInv, TypeOK
    <3> QED
      BY <3>1, ClosedKeeps
  <2>2. ASSUME NEW q \in CallsOf(c), Send(q) PROVE OwnInv'
    BY <2>2, SendKeeps DEF CallsOf
  <2> QED
    BY <1>1, <2>1, <2>2, ConnectionOpensKeeps, ConnectionFailsKeeps, TransportOpenedKeeps,
       ReceiveKeeps DEF ClientStep
<1>2. ASSUME NEW c \in Client, DaemonStep(c) \/ Flush(c) \/ StreamFails(c) PROVE OwnInv'
  <2>1. CASE SeesClose(c) \/ StreamFails(c)
    BY <2>1, OneLossKeeps DEF SeesClose, StreamFails
  <2> QED
    BY <1>2, <2>1, AcceptKeeps, HandleLineKeeps, FlushKeeps DEF DaemonStep
<1>3. ASSUME NEW q \in Call, Request(q) \/ \E result \in {"ok", "refused"} : Answer(q, result)
      PROVE  OwnInv'
  BY <1>3, RequestKeeps, AnswerKeeps
<1>4. CASE CloseSockets
  BY <1>4, ClosedKeeps DEF CloseSockets
<1> QED
  BY <1>1, <1>2, <1>3, <1>4, CloseOwnerKeeps, PublishKeeps, SignalKeeps, GraceOverKeeps,
     TransportsClosedKeeps DEF Next

(* So does a step that changes nothing.                                    *)
LEMMA UnchangedOwn == ASSUME OwnInv, UNCHANGED vars PROVE OwnInv'
  BY DEF vars, OwnInv, TypeOK, Ends, EndAt, Unopened, Lines, ClosedClients, BusAt, Alive,
         CallsOf, Owned, Answers

-----------------------------------------------------------------------------
(* No line is lost unnoticed and none comes twice.                         *)

(* A connection that is opened or up has an end at the daemon, and only a  *)
(* client that is closed has lost its connection.                          *)
Linked ==
  \A c \in Client :
    /\ client[c].link = "down" => client[c].closed
    /\ client[c].link \in {"opened", "up"} => peer[c].stream # "none"

(* What the daemon has worked for came over a connection it had accepted.  *)
Reached == \A q \in Call : served[q] # "no" => peer[OwnerOf[q]].stream \notin {"none", "arrived"}

(* A daemon that stops has ended all its connections.                      *)
Stopping == daemon # "up" => \A c \in Client : peer[c].stream \notin {"arrived", "open"}

(* Accounted, of one request.                                              *)
AccountedFor(q) ==
  /\ HandledOnce(q)
  /\ call[q] = "pending" =>
       LET c == OwnerOf[q] IN
       client[c].link = "up" /\ (peer[c].stream \in {"ended", "gone"} \/ UnderWay(q))

AccountInv == Accounted /\ Linked /\ Reached /\ Stopping

(* Accounted is that of each request.                                      *)
LEMMA AccountedForAll == Accounted <=> \A q \in Call : AccountedFor(q)
  BY DEF Accounted, AccountedFor

(* What becomes of the lines of a set when others come, are taken off or   *)
(* are lost.                                                               *)
NoMore(s, t, set) ==
  /\ AtMostOne(Among(s, set)) => AtMostOne(Among(t, set))
  /\ Among(t, set) # {} => Among(s, set) # {}

AsBefore(s, t, set) == NoMore(s, t, set) /\ (Among(s, set) # {} => Among(t, set) # {})

(* Nothing becomes of lines that stay.                                     *)
LEMMA SameLines == ASSUME NEW s, NEW set PROVE AsBefore(s, s, set)
  BY DEF AsBefore, NoMore

(* Lines that are lost are not there.                                      *)
LEMMA NoLines == ASSUME NEW set PROVE Among(<<>>, set) = {} /\ \A s : NoMore(s, <<>>, set)
<1>1. Among(<<>>, set) = {}
  BY DEF Among
<1> QED
  BY <1>1 DEF NoMore, AtMostOne

(* A line is added.                                                        *)
LEMMA LineAdded ==
  ASSUME NEW T, NEW s \in Seq(T), NEW x \in T, NEW set
  PROVE  /\ x \notin set => AsBefore(s, Append(s, x), set)
         /\ x \in set => Among(Append(s, x), set) # {}
         /\ x \in set /\ Among(s, set) = {} => AtMostOne(Among(Append(s, x), set))
<1> DEFINE t == Append(s, x)
<1>1. /\ DOMAIN t = DOMAIN s \cup {Len(s) + 1} /\ t[Len(s) + 1] = x
      /\ \A i \in DOMAIN s : t[i] = s[i]
  OBVIOUS
<1> HIDE DEF t
<1>2. ASSUME x \notin set PROVE Among(t, set) = Among(s, set)
  BY <1>1, <1>2 DEF Among
<1>3. ASSUME x \in set PROVE Len(s) + 1 \in Among(t, set)
  BY <1>1, <1>3 DEF Among
<1>4. ASSUME x \in set, Among(s, set) = {}, NEW i \in Among(t, set) PROVE i = Len(s) + 1
  BY <1>1, <1>4 DEF Among
<1>5. x \notin set => AsBefore(s, t, set)
  BY <1>2 DEF AsBefore, NoMore
<1>6. x \in set /\ Among(s, set) = {} => AtMostOne(Among(t, set))
  BY <1>4 DEF AtMostOne
<1> QED
  BY <1>3, <1>5, <1>6 DEF t

(* The first line is taken off.                                            *)
LEMMA LineTaken ==
  ASSUME NEW T, NEW s \in Seq(T), s # <<>>, NEW set
  PROVE  /\ NoMore(s, Tail(s), set)
         /\ Head(s) \notin set => AsBefore(s, Tail(s), set)
         /\ Head(s) \in set => Among(s, set) # {}
         /\ Head(s) \in set /\ AtMostOne(Among(s, set)) => Among(Tail(s), set) = {}
<1> DEFINE t == Tail(s)
<1>1. /\ DOMAIN s = 1..Len(s) /\ Len(s) \in Nat \ {0} /\ Head(s) = s[1] /\ 1 \in DOMAIN s
      /\ DOMAIN t = 1..(Len(s) - 1)
      /\ \A i \in DOMAIN t : t[i] = s[i + 1]
  OBVIOUS
<1> HIDE DEF t
<1>2. ASSUME NEW i \in Among(t, set) PROVE i \in Nat /\ i >= 1 /\ i + 1 \in Among(s, set)
  BY <1>1, <1>2 DEF Among
<1>3. ASSUME NEW i \in Among(s, set), i # 1 PROVE i - 1 \in Among(t, set)
  <2>1. i \in 2..Len(s) /\ s[i] \in set
    BY <1>1, <1>3 DEF Among
  <2>2. i - 1 \in DOMAIN t /\ t[i - 1] = s[(i - 1) + 1] /\ (i - 1) + 1 = i
    BY <1>1, <2>1
  <2> QED
    BY <2>1, <2>2 DEF Among
<1>4. AtMostOne(Among(s, set)) => AtMostOne(Among(t, set))
  <2> SUFFICES ASSUME AtMostOne(Among(s, set)), NEW i \in Among(t, set), NEW j \in Among(t, set)
               PROVE  i = j
    BY DEF AtMostOne
  <2>1. i + 1 = j + 1
    BY <1>2 DEF AtMostOne
  <2> QED
    BY <1>2, <2>1
<1>5. NoMore(s, t, set)
  BY <1>2, <1>4 DEF NoMore
<1>6. Head(s) \in set <=> 1 \in Among(s, set)
  BY <1>1 DEF Among
<1>7. Head(s) \notin set => AsBefore(s, t, set)
  BY <1>3, <1>5, <1>6 DEF AsBefore
<1>8. ASSUME Head(s) \in set, AtMostOne(Among(s, set)), NEW i \in Among(t, set) PROVE FALSE
  <2>1. i + 1 = 1
    BY <1>2, <1>6, <1>8 DEF AtMostOne
  <2> QED
    BY <1>2, <1>8, <2>1
<1> QED
  BY <1>5, <1>6, <1>7, <1>8 DEF t

(* Other lines are added.                                                  *)
LEMMA OthersAdded ==
  ASSUME NEW T, NEW s \in Seq(T), NEW es \in Seq(T), NEW set,
         \A i \in DOMAIN es : es[i] \notin set
  PROVE  AsBefore(s, s \o es, set)
<1> DEFINE t == s \o es
<1>1. /\ DOMAIN t = 1..(Len(s) + Len(es)) /\ Len(s) \in Nat /\ Len(es) \in Nat
      /\ DOMAIN s = 1..Len(s) /\ DOMAIN es = 1..Len(es)
      /\ \A i \in 1..Len(s) : t[i] = s[i]
      /\ \A i \in 1..(Len(s) + Len(es)) : i > Len(s) => t[i] = es[i - Len(s)]
  OBVIOUS
<1> HIDE DEF t
<1>2. ASSUME NEW i \in DOMAIN t, i \notin DOMAIN s PROVE t[i] \notin set
  <2>1. i \in Nat /\ i > Len(s) /\ i - Len(s) \in DOMAIN es
    BY <1>1, <1>2
  <2> QED
    BY <1>1, <2>1
<1>3. \A i \in DOMAIN s : i \in DOMAIN t /\ t[i] = s[i]
  BY <1>1
<1>4. Among(t, set) = Among(s, set)
  BY <1>2, <1>3 DEF Among
<1> QED
  BY <1>4 DEF t, AsBefore, NoMore

-----------------------------------------------------------------------------
(* One request in a step that does not serve it: no line of its comes, and *)
(* while it stays pending its connection stays up, and either keeps what   *)
(* is under way or ends.                                                   *)
KeptFor(q) ==
  LET c == OwnerOf[q] IN
  /\ served'[q] = served[q]
  /\ NoMore(request[c], request'[c], {q})
  /\ NoMore(peer[c].out, peer'[c].out, AnswersTo(q))
  /\ NoMore(response[c], response'[c], AnswersTo(q))
  /\ call'[q] = "pending" /\ client[c].link = "up" =>
       /\ call[q] = "pending" /\ client'[c].link = "up"
       /\ peer[c].stream \in {"ended", "gone"} => peer'[c].stream \in {"ended", "gone"}
       /\ \/ peer'[c].stream \in {"ended", "gone"}
          \/ /\ AsBefore(request[c], request'[c], {q})
             /\ AsBefore(peer[c].out, peer'[c].out, AnswersTo(q))
             /\ AsBefore(response[c], response'[c], AnswersTo(q))
  /\ call'[q] = "pending" => call[q] = "pending"

(* Such a request stays accounted for.                                     *)
LEMMA Kept == ASSUME NEW q \in Call, AccountedFor(q), KeptFor(q) PROVE AccountedFor(q)'
<1> DEFINE c == OwnerOf[q]
<1>1. HandledOnce(q)'
  BY DEF AccountedFor, HandledOnce, KeptFor, NoMore, AnswersTo, Answers
<1>2. ASSUME call'[q] = "pending"
      PROVE  client'[c].link = "up" /\ (peer'[c].stream \in {"ended", "gone"} \/ UnderWay(q)')
  <2>1. call[q] = "pending" /\ client[c].link = "up"
    BY <1>2 DEF AccountedFor, KeptFor
  <2>2. peer[c].stream \in {"ended", "gone"} \/ UnderWay(q)
    BY <2>1 DEF AccountedFor
  <2>3. client'[c].link = "up"
    BY <1>2, <2>1 DEF KeptFor
  <2>4. CASE peer'[c].stream \notin {"ended", "gone"}
    <3>1. /\ AsBefore(request[c], request'[c], {q})
          /\ AsBefore(peer[c].out, peer'[c].out, AnswersTo(q))
          /\ AsBefore(response[c], response'[c], AnswersTo(q))
          /\ UnderWay(q) /\ served'[q] = served[q]
      BY <1>2, <2>1, <2>2, <2>4 DEF KeptFor
    <3>2. UnderWay(q)'
      BY <3>1 DEF UnderWay, AsBefore, AnswersTo, Answers
    <3> QED
      BY <2>3, <3>2
  <2> QED
    BY <2>3, <2>4
<1> QED
  BY <1>1, <1>2 DEF AccountedFor

(* The streams of the ends only go on, to an end that is still noticed.    *)
Onward(p, r) == r.stream = p.stream \/ r.stream \in {"ended", "gone"}

(* An end that the transport ends keeps what it has to flush, or loses it. *)
EndsAs(p, r) == r.stream \in {"ended", "gone"} /\ (r.out = p.out \/ r.out = <<>>)

(* What Becomes does to the streams.                                       *)
LEMMA StreamsBecome ==
  ASSUME Linked, Stopping, NEW ps \in [Client -> End], NEW stop \in BOOLEAN, Becomes(ps, stop),
         \A c \in Client : Onward(peer[c], ps[c]), UNCHANGED client
  PROVE  /\ Linked' /\ Stopping'
         /\ \A c \in Client :
              /\ Onward(peer[c], peer'[c])
              /\ peer'[c] = ps[c] \/ EndsAs(ps[c], peer'[c])
<1>1. ASSUME NEW p \in End
      PROVE  /\ Ended(p) = p \/ Ended(p).stream \in {"ended", "gone"}
             /\ Ended(p).out = p.out \/ Ended(p).out = <<>>
             /\ Ended(p).stream \notin {"arrived", "open"}
  BY DEF Ended, Gone, End
<1>2. \A c \in Client : ps[c] \in End
  OBVIOUS
<1>3. CASE stop /\ daemon = "up"
  <2>1. \A c \in Client : peer'[c] = Ended(ps[c])
    BY <1>3 DEF Becomes
  <2>2. \A c \in Client :
          /\ Onward(peer[c], peer'[c]) /\ peer'[c].stream \notin {"arrived", "open"}
          /\ peer'[c] = ps[c] \/ EndsAs(ps[c], peer'[c])
    BY <1>1, <1>2, <2>1 DEF Onward, EndsAs
  <2> QED
    BY <2>2 DEF Linked, Stopping, Onward
<1>4. CASE ~(stop /\ daemon = "up")
  <2>1. peer' = ps /\ daemon' = daemon
    BY <1>4 DEF Becomes
  <2> QED
    BY <2>1 DEF Linked, Stopping, Onward
<1> QED
  BY <1>3, <1>4

(* A connection that was accepted stays so.                                *)
LEMMA ReachedStays ==
  ASSUME Reached, \A c \in Client : Onward(peer[c], peer'[c]),
         \A q \in Call : served'[q] # "no" => served[q] # "no"
  PROVE  Reached'
  BY ConnectionAssumption DEF Reached, Onward

(* A step of the clients: no line comes or goes to the daemon's side.      *)
LEMMA ClientSide ==
  ASSUME AccountInv, UNCHANGED <<request, peer, served, daemon>>, Linked',
         \A c \in Client : response'[c] = response[c] \/ response'[c] = <<>>,
         \A q \in Call : LET c == OwnerOf[q] IN
           call'[q] = "pending" =>
             /\ call[q] = "pending" /\ response'[c] = response[c]
             /\ client[c].link = "up" => client'[c].link = "up"
  PROVE  AccountInv'
<1>1. ASSUME NEW q \in Call PROVE KeptFor(q)
  <2> DEFINE c == OwnerOf[q]
  <2>1. c \in Client
    BY ConnectionAssumption
  <2>2. NoMore(response[c], response'[c], AnswersTo(q))
    BY <2>1, NoLines, SameLines DEF AsBefore
  <2>3. AsBefore(request[c], request'[c], {q}) /\ AsBefore(peer[c].out, peer'[c].out, AnswersTo(q))
    BY SameLines
  <2>4. call'[q] = "pending" => AsBefore(response[c], response'[c], AnswersTo(q))
    BY SameLines
  <2> QED
    BY <2>2, <2>3, <2>4 DEF KeptFor, AsBefore
<1>2. \A q \in Call : AccountedFor(q)'
  BY <1>1, Kept, AccountedForAll DEF AccountInv
<1>3. Accounted'
  BY <1>2 DEF Accounted, AccountedFor
<1>4. Reached' /\ Stopping'
  BY DEF AccountInv, Reached, Stopping
<1> QED
  BY <1>3, <1>4 DEF AccountInv

(* request, before the await.                                              *)
LEMMA RequestAccounts ==
  ASSUME OwnInv, AccountInv, NEW q \in Call, Request(q) PROVE AccountInv'
<1> DEFINE c == OwnerOf[q]
<1>1. Clients /\ Calls /\ c \in Client
  BY Parts, ConnectionAssumption
<1>2. UNCHANGED <<request, response, peer, served, daemon>>
  BY DEF Request, daemonVars
<1>3. \A x \in Call : call'[x] = "pending" => call[x] = "pending"
  BY <1>1 DEF Request, Rejected, Calls
<1>4. \/ client' = client
      \/ client[c].link = "none" /\ client' = [client EXCEPT ![c].link = "connecting"]
  BY DEF Request
<1>5. Linked' /\ \A d \in Client : client[d].link = "up" => client'[d].link = "up"
  BY <1>1, <1>2, <1>4, ZenonT(40) DEF AccountInv, Linked, Clients
<1> QED
  BY <1>2, <1>3, <1>5, ClientSide, ConnectionAssumption

(* DaemonClient.close, before its await.                                   *)
LEMMA CloseOwnerAccounts == ASSUME AccountInv, CloseOwner PROVE AccountInv'
<1>1. UNCHANGED <<client, call, request, response, peer, served, daemon>>
  BY DEF CloseOwner, daemonVars
<1>2. Linked'
  BY <1>1 DEF AccountInv, Linked
<1> QED
  BY <1>1, <1>2, ClientSide

(* Nobody waits for an answer over a connection that is still opening.     *)
LEMMA ConnectionFailsAccounts ==
  ASSUME OwnInv, AccountInv, NEW c \in Client, ConnectionFails(c) PROVE AccountInv'
<1>1. Clients /\ client[c].link = "connecting" /\ client' = [client EXCEPT ![c].link = "none"]
  BY Parts DEF ConnectionFails
<1>2. UNCHANGED <<request, response, peer, served, daemon>>
  BY DEF ConnectionFails, daemonVars
<1>3. \A x \in Call : call'[x] = "pending" => call[x] = "pending"
  BY DEF ConnectionFails, Rejected
<1>4. Linked' /\ \A d \in Client : client[d].link = "up" => client'[d].link = "up"
  BY <1>1, <1>2 DEF AccountInv, Linked, Clients
<1> QED
  BY <1>2, <1>3, <1>4, ClientSide, ConnectionAssumption

(* The connection is up, or down if the client was closed meanwhile.       *)
LEMMA TransportOpenedAccounts ==
  ASSUME OwnInv, AccountInv, NEW c \in Client, TransportOpened(c) PROVE AccountInv'
<1>1. /\ Clients /\ client[c].link = "opened"
      /\ client' = [client EXCEPT ![c].link = IF client[c].closed THEN "down" ELSE "up"]
  BY Parts DEF TransportOpened
<1>2. UNCHANGED <<request, response, peer, served, daemon>>
  BY DEF TransportOpened, daemonVars
<1>3. \A x \in Call : call'[x] = "pending" => call[x] = "pending"
  BY DEF TransportOpened, Rejected
<1>4. Linked' /\ \A d \in Client : client[d].link = "up" => client'[d].link = "up"
  BY <1>1, <1>2 DEF AccountInv, Linked, Clients
<1> QED
  BY <1>2, <1>3, <1>4, ClientSide, ConnectionAssumption

(* What is pending of a client that closes is rejected in that step.       *)
LEMMA ClosedAccounts ==
  ASSUME OwnInv, AccountInv, NEW cs, Closed(cs), UNCHANGED <<request, daemonVars>>
  PROVE  AccountInv'
<1>1. Clients /\ Calls
  BY Parts
<1>2. UNCHANGED <<request, peer, served, daemon>>
  BY DEF daemonVars
<1>3. \A c \in Client : response'[c] = IF c \in cs THEN <<>> ELSE response[c]
  BY DEF Closed
<1>4. Linked' /\ \A c \in Client : c \notin cs => client'[c] = client[c]
  BY <1>1, <1>2 DEF AccountInv, Linked, Clients, Link, Closed
<1>5. ASSUME NEW q \in Call, call'[q] = "pending" PROVE call[q] = "pending" /\ OwnerOf[q] \notin cs
  BY <1>1, <1>5 DEF Closed, Calls
<1> QED
  BY <1>2, <1>3, <1>4, <1>5, ClientSide, ConnectionAssumption

(* One request in a step in which the ends become ps, or are ended as      *)
(* well.                                                                   *)
LEMMA KeptByEnds ==
  ASSUME NEW q \in Call, NEW c, c = OwnerOf[q], NEW p,
         UNCHANGED <<client, call>>, served'[q] = served[q],
         Onward(peer[c], peer'[c]), peer'[c] = p \/ EndsAs(p, peer'[c]),
         NoMore(request[c], request'[c], {q}), NoMore(peer[c].out, p.out, AnswersTo(q)),
         NoMore(response[c], response'[c], AnswersTo(q)),
         call[q] = "pending" /\ client[c].link = "up" =>
           \/ p.stream \in {"ended", "gone"}
           \/ /\ AsBefore(request[c], request'[c], {q})
              /\ AsBefore(peer[c].out, p.out, AnswersTo(q))
              /\ AsBefore(response[c], response'[c], AnswersTo(q))
  PROVE  KeptFor(q)
<1>1. peer'[c].out = p.out \/ peer'[c].out = <<>>
  BY DEF EndsAs
<1>2. NoMore(peer[c].out, peer'[c].out, AnswersTo(q))
  BY <1>1, NoLines
<1>3. peer[c].stream \in {"ended", "gone"} => peer'[c].stream \in {"ended", "gone"}
  BY DEF Onward
<1>4. \/ peer'[c].stream \in {"ended", "gone"}
      \/ peer'[c] = p /\ p.stream \notin {"ended", "gone"}
  BY DEF EndsAs
<1> QED
  BY <1>2, <1>3, <1>4 DEF KeptFor

(* A connection opens: nobody has sent anything over it.                   *)
LEMMA ConnectionOpensAccounts ==
  ASSUME OwnInv, AccountInv, NEW c \in Client, ConnectionOpens(c) PROVE AccountInv'
<1>1. /\ Clients /\ peer \in [Client -> End] /\ peer[c].stream = "none"
      /\ client[c].link = "connecting" /\ client' = [client EXCEPT ![c].link = "opened"]
      /\ daemon' = daemon /\ daemon = "up"
      /\ peer' = [peer EXCEPT ![c].stream = "arrived"]
  BY Parts DEF ConnectionOpens, Daemon, Unopened
<1>2. /\ peer'[c].stream = "arrived" /\ peer'[c].out = peer[c].out
      /\ client'[c].link = "opened"
      /\ \A d \in Client : d # c => peer'[d] = peer[d] /\ client'[d] = client[d]
  BY <1>1 DEF Clients, End
<1>3. UNCHANGED <<call, request, response, served>>
  BY DEF ConnectionOpens
<1>4. ASSUME NEW q \in Call PROVE KeptFor(q)
  <2> DEFINE d == OwnerOf[q]
  <2>1. d \in Client /\ peer'[d].out = peer[d].out
    BY <1>2, ConnectionAssumption
  <2>2. client[d].link = "up" => d # c
    BY <1>1
  <2>3. /\ AsBefore(request[d], request'[d], {q})
        /\ AsBefore(peer[d].out, peer'[d].out, AnswersTo(q))
        /\ AsBefore(response[d], response'[d], AnswersTo(q))
    BY <1>3, <2>1, SameLines
  <2> QED
    BY <1>2, <1>3, <2>1, <2>2, <2>3 DEF KeptFor, AsBefore
<1>5. Accounted'
  BY <1>4, Kept, AccountedForAll DEF AccountInv, Accounted, AccountedFor
<1>6. Linked'
  BY <1>1, <1>2 DEF AccountInv, Linked
<1>7. Reached'
  BY <1>1, <1>2, <1>3, ConnectionAssumption DEF AccountInv, Reached
<1>8. Stopping'
  BY <1>1 DEF Stopping
<1> QED
  BY <1>5, <1>6, <1>7, <1>8 DEF AccountInv

(* The daemon accepts it, unless it stops.                                 *)
LEMMA AcceptAccounts ==
  ASSUME OwnInv, AccountInv, NEW c \in Client, Accept(c) PROVE AccountInv'
<1>1. /\ peer \in [Client -> End] /\ peer[c].stream = "arrived"
      /\ peer' = [peer EXCEPT ![c].stream = "open"] /\ daemon' = daemon
  BY Parts DEF Accept, Daemon
<1>2. /\ peer'[c].stream = "open" /\ peer'[c].out = peer[c].out
      /\ \A d \in Client : d # c => peer'[d] = peer[d]
  BY <1>1 DEF End
<1>3. UNCHANGED <<client, call, request, response, served>>
  BY DEF Accept, clientVars
<1>4. ASSUME NEW q \in Call PROVE KeptFor(q)
  <2> DEFINE d == OwnerOf[q]
  <2>1. d \in Client /\ peer'[d].out = peer[d].out
    BY <1>2, ConnectionAssumption
  <2>2. peer[d].stream \in {"ended", "gone"} => peer'[d].stream \in {"ended", "gone"}
    BY <1>1, <1>2, <2>1
  <2>3. /\ AsBefore(request[d], request'[d], {q})
        /\ AsBefore(peer[d].out, peer'[d].out, AnswersTo(q))
        /\ AsBefore(response[d], response'[d], AnswersTo(q))
    BY <1>3, <2>1, SameLines
  <2> QED
    BY <1>3, <2>2, <2>3 DEF KeptFor, AsBefore
<1>5. Accounted'
  BY <1>4, Kept, AccountedForAll DEF AccountInv, Accounted, AccountedFor
<1>6. Linked'
  BY <1>1, <1>2, <1>3 DEF AccountInv, Linked
<1>7. Reached'
  BY <1>1, <1>2, <1>3, ConnectionAssumption DEF AccountInv, Reached
<1>8. Stopping'
  BY <1>1 DEF AccountInv, Stopping
<1> QED
  BY <1>5, <1>6, <1>7, <1>8 DEF AccountInv

(* A request is sent over a connection that is up, for the first time.     *)
LEMMA SendAccounts == ASSUME OwnInv, AccountInv, NEW q \in Call, Send(q) PROVE AccountInv'
<1> DEFINE c == OwnerOf[q]
<1>1. Clients /\ Calls /\ c \in Client
  BY Parts, ConnectionAssumption
<1>2. UNCHANGED <<client, response, peer, served, daemon>>
  BY DEF Send, daemonVars
<1>3. Linked' /\ Reached' /\ Stopping'
  BY <1>2 DEF AccountInv, Linked, Reached, Stopping
<1>4. CASE client[c].closed
  <2>1. UNCHANGED request /\ \A x \in Call : call'[x] = "pending" => call[x] = "pending"
    BY <1>4 DEF Send, Rejected
  <2> QED
    BY <1>2, <1>3, <2>1, ClientSide
<1>5. CASE ~client[c].closed
  <2>1. /\ call[q] = "connecting" /\ call' = [call EXCEPT ![q] = "pending"]
        /\ client[c].link = "up"
        /\ request' = IF peer[c].stream = "gone" THEN request
                      ELSE [request EXCEPT ![c] = Append(@, q)]
    BY <1>1, <1>5 DEF Send, AccountInv, Linked
  <2>2. /\ request[c] \in Seq(Call) /\ served[q] = "no"
        /\ \A i \in DOMAIN request[c] : request[c][i] # q
    BY <1>1, <2>1 DEF Calls, ServedWereSent, Lines
  <2>3. Among(request[c], {q}) = {}
    BY <2>2 DEF Among
  <2>4. /\ \/ request'[c] = request[c] /\ peer[c].stream = "gone"
           \/ request'[c] = Append(request[c], q)
        /\ \A d \in Client : d # c => request'[d] = request[d]
    BY <1>1, <2>1 DEF Calls
  <2>5. ASSUME NEW x \in Call, x # q PROVE KeptFor(x)
    <3> DEFINE d == OwnerOf[x]
    <3>1. d \in Client /\ q \notin {x}
      BY <2>5, ConnectionAssumption
    <3>2. AsBefore(request[d], request'[d], {x})
      <4>1. AsBefore(request[c], Append(request[c], q), {x})
        BY <2>2, <3>1, LineAdded
      <4>2. CASE request'[d] = request[d]
        BY <4>2, SameLines
      <4>3. CASE d = c /\ request'[c] = Append(request[c], q)
        BY <4>1, <4>3
      <4> QED
        BY <2>4, <3>1, <4>2, <4>3
    <3>3. call'[x] = call[x]
      BY <1>1, <2>1, <2>5 DEF Calls
    <3>4. AsBefore(peer[d].out, peer'[d].out, AnswersTo(x)) /\ AsBefore(response[d], response'[d], AnswersTo(x))
      BY <1>2, SameLines
    <3> QED
      BY <1>2, <3>2, <3>3, <3>4 DEF KeptFor, AsBefore
  <2>6. AccountedFor(q)'
    <3>1. HandledOnce(q)
      BY DEF AccountInv, Accounted
    <3>2. AtMostOne(Among(request'[c], {q}))
      BY <2>2, <2>3, <2>4, <3>1, LineAdded, ZenonT(40) DEF HandledOnce
    <3>3. HandledOnce(q)'
      BY <1>2, <2>2, <3>1, <3>2 DEF HandledOnce, AnswersTo, Answers
    <3>4. peer[c].stream = "gone" \/ Among(request'[c], {q}) # {}
      BY <2>2, <2>4, LineAdded, ZenonT(40)
    <3>5. peer'[c].stream \in {"ended", "gone"} \/ UnderWay(q)'
      BY <1>2, <3>4 DEF UnderWay
    <3> QED
      BY <1>2, <2>1, <3>3, <3>5 DEF AccountedFor
  <2>7. \A x \in Call : AccountedFor(x)'
    BY <2>5, <2>6, Kept, AccountedForAll DEF AccountInv
  <2>8. Accounted'
    BY <2>7 DEF Accounted, AccountedFor
  <2> QED
    BY <1>3, <2>8 DEF AccountInv
<1> QED
  BY <1>4, <1>5

(* The answer that is taken settles its request.                           *)
LEMMA ReceiveAccounts ==
  ASSUME OwnInv, AccountInv, NEW c \in Client, Receive(c) PROVE AccountInv'
<1> DEFINE line == Head(response[c])
<1>1. /\ call \in [Call -> {"new", "connecting", "pending", "ok", "refused", "lost"}]
      /\ response \in [Client -> Seq(Line)] /\ response[c] # <<>>
  BY Parts DEF Clients, Calls, Receive
<1>2. /\ UNCHANGED <<client, request, peer, served, daemon>>
      /\ response' = [response EXCEPT ![c] = Tail(response[c])]
      /\ call' = IF line # Event /\ call[line.call] = "pending"
                 THEN [call EXCEPT ![line.call] = line.result] ELSE call
  BY DEF Receive, daemonVars
<1>3. line \in Answers \/ line = Event
  BY <1>1 DEF Line
<1>4. /\ response'[c] = Tail(response[c]) /\ response[c] \in Seq(Line)
      /\ \A d \in Client : d # c => response'[d] = response[d]
  BY <1>1, <1>2
<1>5. ASSUME NEW q \in Call PROVE KeptFor(q)
  <2> DEFINE d == OwnerOf[q]
             answers == AnswersTo(q)
  <2>1. d \in Client
    BY ConnectionAssumption
  <2>2. AsBefore(request[d], request'[d], {q}) /\ AsBefore(peer[d].out, peer'[d].out, answers)
    BY <1>2, SameLines
  <2>3. NoMore(response[d], response'[d], answers)
    <3> HIDE DEF answers
    <3>1. NoMore(response[c], Tail(response[c]), answers)
      BY <1>1, <1>4, LineTaken
    <3>2. CASE d = c
      BY <1>4, <3>1, <3>2
    <3>3. CASE d # c
      <4>1. response'[d] = response[d]
        BY <1>4, <2>1, <3>3
      <4> QED
        BY <4>1, SameLines DEF AsBefore
    <3> QED
      BY <3>2, <3>3
  <2>4. ASSUME call'[q] = "pending"
        PROVE  call[q] = "pending" /\ line \notin answers
    <3> HIDE DEF line
    <3>1. CASE line # Event /\ call[line.call] = "pending"
      <4>1. line.call \in Call /\ line.result \in {"ok", "refused"}
        BY <1>3, <3>1 DEF Answers
      <4>2. q # line.call /\ call[q] = "pending"
        BY <1>1, <1>2, <2>4, <3>1, <4>1
      <4> QED
        BY <4>2 DEF AnswersTo
    <3>2. CASE ~(line # Event /\ call[line.call] = "pending")
      <4>1. call[q] = "pending"
        BY <1>2, <2>4, <3>2
      <4> QED
        BY <3>2, <4>1, ConnectionAssumption DEF AnswersTo
    <3> QED
      BY <3>1, <3>2
  <2>5. ASSUME call'[q] = "pending" PROVE AsBefore(response[d], response'[d], answers)
    <3>1. line \notin answers
      BY <2>4, <2>5
    <3> HIDE DEF answers
    <3>2. AsBefore(response[c], Tail(response[c]), answers)
      BY <1>1, <1>4, <3>1, LineTaken
    <3>3. CASE d = c
      BY <1>4, <3>2, <3>3
    <3>4. CASE d # c
      <4>1. response'[d] = response[d]
        BY <1>4, <2>1, <3>4
      <4> QED
        BY <4>1, SameLines
    <3> QED
      BY <3>3, <3>4
  <2> QED
    BY <1>2, <2>2, <2>3, <2>4, <2>5 DEF KeptFor, AsBefore
<1>6. Accounted'
  BY <1>5, Kept, AccountedForAll DEF AccountInv, Accounted, AccountedFor
<1>7. Linked' /\ Reached' /\ Stopping'
  BY <1>2 DEF AccountInv, Linked, Reached, Stopping
<1> QED
  BY <1>6, <1>7 DEF AccountInv

(* A line is handled once: after that no other of its request is on its    *)
(* way, and no answer was.                                                 *)
LEMMA HandleLineAccounts ==
  ASSUME OwnInv, AccountInv, NEW c \in Client, HandleLine(c) PROVE AccountInv'
<1>1. /\ request \in [Client -> Seq(Call)] /\ Lines
      /\ served \in [Call -> {"no", "working", "answered"}]
      /\ peer \in [Client -> End]
  BY Parts DEF Calls, Daemon
<1>2. /\ request[c] \in Seq(Call) /\ request[c] # <<>> /\ Alive(c)
      /\ request' = [request EXCEPT ![c] = Tail(request[c])]
      /\ served' = [served EXCEPT ![Head(request[c])] = "working"]
      /\ UNCHANGED <<client, call, response, daemon>>
  BY <1>1 DEF HandleLine, clientVars
<1>3. PICK q \in Call : q = Head(request[c]) /\ OwnerOf[q] = c
  <2>1. 1 \in DOMAIN request[c] /\ Head(request[c]) = request[c][1]
    BY <1>2
  <2> QED
    BY <1>1, <2>1 DEF Lines, CallsOf
<1>4. \A d \in Client : peer'[d].out = peer[d].out /\ peer'[d].stream = peer[d].stream
  <2>1. peer' = peer \/ \E subs : peer' = [peer EXCEPT ![c].subscriptions = subs]
    BY DEF HandleLine
  <2>2. ASSUME NEW subs, peer' = [peer EXCEPT ![c].subscriptions = subs], NEW d \in Client
        PROVE  peer'[d].out = peer[d].out /\ peer'[d].stream = peer[d].stream
    BY <1>1, <2>2 DEF End
  <2> QED
    BY <2>1, <2>2
<1>5. /\ request'[c] = Tail(request[c])
      /\ \A d \in Client : d # c => request'[d] = request[d]
      /\ served'[q] = "working" /\ \A x \in Call : x # q => served'[x] = served[x]
  BY <1>1, <1>2, <1>3
<1>6. ASSUME NEW x \in Call, x # q PROVE KeptFor(x)
  <2> DEFINE d == OwnerOf[x]
  <2>1. d \in Client /\ q \notin {x}
    BY <1>6, ConnectionAssumption
  <2>2. AsBefore(request[d], request'[d], {x})
    <3>1. AsBefore(request[c], Tail(request[c]), {x})
      BY <1>2, <1>3, <2>1, LineTaken
    <3>2. CASE d = c
      BY <1>5, <3>1, <3>2
    <3>3. CASE d # c
      <4>1. request'[d] = request[d]
        BY <1>5, <2>1, <3>3
      <4> QED
        BY <4>1, SameLines
    <3> QED
      BY <3>2, <3>3
  <2>3. AsBefore(peer[d].out, peer'[d].out, AnswersTo(x)) /\ AsBefore(response[d], response'[d], AnswersTo(x))
    BY <1>2, <1>4, <2>1, SameLines
  <2> QED
    BY <1>2, <1>4, <1>5, <1>6, <2>1, <2>2, <2>3 DEF KeptFor, AsBefore
<1>7. AccountedFor(q)'
  <2>1. AccountedFor(q) /\ HandledOnce(q)
    BY <1>3, AccountedForAll DEF AccountInv, AccountedFor
  <2>2. AtMostOne(Among(request[c], {q})) /\ q \in {q}
    BY <1>3, <2>1 DEF HandledOnce
  <2>3. Among(request[c], {q}) # {} /\ Among(request'[c], {q}) = {}
    BY <1>2, <1>3, <1>5, <2>2, LineTaken, ZenonT(40)
  <2>4. served[q] = "no"
    BY <1>3, <2>1, <2>3 DEF HandledOnce
  <2>5. Among(peer[c].out, AnswersTo(q)) = {} /\ Among(response[c], AnswersTo(q)) = {}
    BY <1>3, <2>1, <2>4 DEF HandledOnce
  <2>6. /\ Among(peer'[c].out, AnswersTo(q)) = {} /\ Among(response'[c], AnswersTo(q)) = {}
        /\ OwnerOf[q] = c
    BY <1>2, <1>3, <1>4, <2>5
  <2>7. HandledOnce(q)'
    BY <2>3, <2>6 DEF HandledOnce, AtMostOne, AnswersTo, Answers
  <2>8. UnderWay(q)'
    BY <1>5 DEF UnderWay
  <2>9. call'[q] = "pending" => client'[c].link = "up"
    BY <1>2, <1>3, <2>1 DEF AccountedFor
  <2> QED
    BY <1>3, <2>7, <2>8, <2>9 DEF AccountedFor
<1>8. \A x \in Call : AccountedFor(x)'
  BY <1>6, <1>7, Kept, AccountedForAll DEF AccountInv
<1>9. Accounted'
  BY <1>8 DEF Accounted, AccountedFor
<1>10. Linked' /\ Stopping'
  BY <1>2, <1>4 DEF AccountInv, Linked, Stopping
<1>11. Reached'
  <2> SUFFICES ASSUME NEW x \in Call, served'[x] # "no"
               PROVE  peer'[OwnerOf[x]].stream \notin {"none", "arrived"}
    BY DEF Reached
  <2>1. CASE x = q
    BY <1>2, <1>3, <1>4, <2>1 DEF Alive
  <2>2. CASE x # q
    BY <1>4, <1>5, <2>2, ConnectionAssumption DEF AccountInv, Reached
  <2> QED
    BY <2>1, <2>2
<1> QED
  BY <1>9, <1>10, <1>11 DEF AccountInv

(* What a write makes of an end.                                           *)
LEMMA WrittenIs ==
  ASSUME NEW p \in End, NEW line \in Line
  PROVE  /\ Onward(p, Written(p, line)) /\ Written(p, line) \in End
         /\ p.stream = "open" => Written(p, line).out = Append(p.out, line)
         /\ p.stream # "open" => \/ Written(p, line) = p /\ p.stream # "ended"
                                 \/ Written(p, line).out = <<>> /\ Written(p, line).stream = "gone"
<1>1. <<>> \in Seq(Line) /\ Append(p.out, line) \in Seq(Line)
  BY DEF End
<1> DEFINE longer == Append(p.out, line)
<1>2. longer \in Seq(Line) /\ longer = Append(p.out, line)
  BY <1>1
<1> HIDE DEF longer
<1>3. CASE p.stream = "open"
  <2>1. Written(p, line) = [p EXCEPT !.out = longer]
    BY <1>2, <1>3 DEF Written
  <2> QED
    BY <1>2, <1>3, <2>1 DEF Onward, End
<1>4. CASE p.stream = "ended"
  BY <1>1, <1>4 DEF Written, Gone, Onward, End
<1>5. CASE p.stream \notin {"open", "ended"}
  BY <1>5 DEF Written, Onward
<1> QED
  BY <1>3, <1>4, <1>5

(* The answer is the only one; where it cannot be written the end is lost. *)
LEMMA AnswerAccounts ==
  ASSUME OwnInv, AccountInv, NEW q \in Call, NEW result \in {"ok", "refused"}, Answer(q, result)
  PROVE  AccountInv'
<1> DEFINE c == OwnerOf[q]
           line == [call |-> q, result |-> result]
           p == Written(peer[c], line)
           ps == [peer EXCEPT ![c] = p]
           stop == ShutdownAnswer(line) /\ ~Alive(c)
<1>1. /\ c \in Client /\ line \in Line /\ peer \in [Client -> End]
      /\ served \in [Call -> {"no", "working", "answered"}]
      /\ line \in AnswersTo(q) /\ \A x \in Call : x # q => line \notin AnswersTo(x)
  BY Parts, ConnectionAssumption DEF Line, Answers, Calls, Daemon, AnswersTo
<1>2. /\ served[q] = "working" /\ served' = [served EXCEPT ![q] = "answered"]
      /\ UNCHANGED <<client, call, request, response>>
      /\ Becomes(ps, stop) /\ stop \in BOOLEAN
  BY DEF Answer, clientVars, ShutdownAnswer
<1> HIDE DEF line, stop
<1>3. peer[c] \in End
  BY <1>1
<1>4. /\ Onward(peer[c], p) /\ p \in End
      /\ peer[c].stream = "open" => p.out = Append(peer[c].out, line)
      /\ peer[c].stream # "open" => \/ p = peer[c] /\ peer[c].stream # "ended"
                                    \/ p.out = <<>> /\ p.stream = "gone"
  BY <1>1, <1>3, WrittenIs
<1> HIDE DEF p
<1>5. ps \in [Client -> End] /\ ps[c] = p /\ \A d \in Client : d # c => ps[d] = peer[d]
  BY <1>1, <1>4
<1>6. \A d \in Client : Onward(peer[d], ps[d])
  BY <1>4, <1>5 DEF Onward
<1> HIDE DEF ps
<1>7. /\ Linked' /\ Stopping'
      /\ \A d \in Client : Onward(peer[d], peer'[d]) /\ (peer'[d] = ps[d] \/ EndsAs(ps[d], peer'[d]))
  BY <1>2, <1>5, <1>6, StreamsBecome DEF AccountInv
<1>8. Reached'
  BY <1>1, <1>2, <1>7, ReachedStays DEF AccountInv
<1>9. ASSUME NEW x \in Call, x # q PROVE KeptFor(x)
  <2> DEFINE d == OwnerOf[x]
             answers == AnswersTo(x)
  <2>1. d \in Client /\ served'[x] = served[x]
    BY <1>1, <1>2, <1>9, ConnectionAssumption
  <2>2. AsBefore(request[d], request'[d], {x}) /\ AsBefore(response[d], response'[d], answers)
    BY <1>2, SameLines
  <2>3. /\ NoMore(peer[d].out, ps[d].out, answers)
        /\ AsBefore(peer[d].out, ps[d].out, answers) \/ ps[d].stream \in {"ended", "gone"}
    <3>1. CASE ps[d] = peer[d]
      BY <3>1, SameLines DEF AsBefore
    <3>2. CASE d = c /\ p.out = Append(peer[c].out, line)
      <4>1. peer[c].out \in Seq(Line) /\ line \notin answers
        BY <1>1, <1>3, <1>9 DEF End
      <4> HIDE DEF answers
      <4>2. AsBefore(peer[c].out, Append(peer[c].out, line), answers)
        BY <1>1, <4>1, LineAdded
      <4> QED
        BY <1>5, <3>2, <4>2 DEF AsBefore
    <3>3. CASE d = c /\ p.out = <<>> /\ p.stream = "gone"
      BY <1>5, <3>3, NoLines
    <3> QED
      BY <1>4, <1>5, <2>1, <3>1, <3>2, <3>3
  <2>4. Onward(peer[d], peer'[d]) /\ (peer'[d] = ps[d] \/ EndsAs(ps[d], peer'[d]))
    BY <1>7, <2>1
  <2> QED
    BY <1>2, <2>1, <2>2, <2>3, <2>4, KeptByEnds DEF AsBefore
<1>10. AccountedFor(q)'
  <2> DEFINE answers == AnswersTo(q)
  <2>1. AccountedFor(q) /\ HandledOnce(q)
    BY AccountedForAll DEF AccountInv, AccountedFor
  <2>2. /\ Among(request[c], {q}) = {} /\ Among(peer[c].out, answers) = {}
        /\ Among(response[c], answers) = {}
    BY <1>2, <2>1 DEF HandledOnce
  <2>3. peer[c].stream \notin {"none", "arrived"}
    BY <1>2 DEF AccountInv, Reached
  <2>4. /\ AtMostOne(Among(p.out, answers))
        /\ p.stream \in {"ended", "gone"} \/ Among(p.out, answers) # {}
    <3> HIDE DEF answers
    <3>1. CASE peer[c].stream = "open"
      <4>1. peer[c].out \in Seq(Line) /\ line \in answers
        BY <1>1, <1>3 DEF End, answers
      <4>2. /\ AtMostOne(Among(Append(peer[c].out, line), answers))
            /\ Among(Append(peer[c].out, line), answers) # {}
        BY <1>1, <2>2, <4>1, LineAdded
      <4> QED
        BY <1>4, <3>1, <4>2
    <3>2. CASE peer[c].stream # "open"
      <4>1. peer[c].stream \in {"ended", "gone"}
        BY <1>3, <2>3, <3>2 DEF End
      <4> QED
        BY <1>4, <2>2, <3>2, <4>1, NoLines DEF AtMostOne, Onward
    <3> QED
      BY <3>1, <3>2
  <2>5. /\ AtMostOne(Among(peer'[c].out, answers))
        /\ peer'[c].stream \in {"ended", "gone"} \/ Among(peer'[c].out, answers) # {}
    <3>1. peer'[c] = p \/ EndsAs(p, peer'[c])
      BY <1>1, <1>5, <1>7
    <3> HIDE DEF answers
    <3> QED
      BY <2>4, <3>1, NoLines DEF EndsAs, AtMostOne
  <2>6. served'[q] = "answered" /\ request'[c] = request[c] /\ response'[c] = response[c]
    BY <1>1, <1>2
  <2>7. HandledOnce(q)'
    BY <2>1, <2>2, <2>5, <2>6 DEF HandledOnce, AtMostOne, AnswersTo, Answers
  <2>8. peer'[c].stream \in {"ended", "gone"} \/ UnderWay(q)'
    BY <2>5 DEF UnderWay, AnswersTo, Answers
  <2>9. call'[q] = "pending" => client'[c].link = "up"
    BY <1>2, <2>1 DEF AccountedFor
  <2> QED
    BY <2>7, <2>8, <2>9 DEF AccountedFor
<1>11. \A x \in Call : AccountedFor(x)'
  BY <1>9, <1>10, Kept, AccountedForAll DEF AccountInv
<1>12. Accounted'
  BY <1>11 DEF Accounted, AccountedFor
<1> QED
  BY <1>7, <1>8, <1>12 DEF AccountInv

(* A line that is handed on was written and is there now.                  *)
LEMMA FlushAccounts == ASSUME OwnInv, AccountInv, NEW c \in Client, Flush(c) PROVE AccountInv'
<1> DEFINE line == Head(peer[c].out)
           rest == Tail(peer[c].out)
           p == [peer[c] EXCEPT !.out = rest]
           ps == [peer EXCEPT ![c] = p]
           stop == ShutdownAnswer(line)
<1>1. /\ peer \in [Client -> End] /\ response \in [Client -> Seq(Line)]
      /\ peer[c] \in End /\ peer[c].out \in Seq(Line) /\ peer[c].out # <<>>
      /\ response[c] \in Seq(Line)
  BY Parts DEF Daemon, Clients, End, Flush
<1>2. /\ UNCHANGED <<client, call, request, served>>
      /\ response' = IF client[c].link = "down" THEN response
                     ELSE [response EXCEPT ![c] = Append(@, line)]
      /\ Becomes(ps, stop) /\ stop \in BOOLEAN
  BY DEF Flush, clientVars, ShutdownAnswer
<1>3. line \in Line /\ rest \in Seq(Line)
  BY <1>1
<1> HIDE DEF stop
<1>4. p \in End /\ p.out = rest /\ p.stream = peer[c].stream
  BY <1>1, <1>3 DEF End
<1> HIDE DEF p
<1>5. ps \in [Client -> End] /\ ps[c] = p /\ \A d \in Client : d # c => ps[d] = peer[d]
  BY <1>1, <1>4
<1>6. \A d \in Client : Onward(peer[d], ps[d])
  BY <1>4, <1>5 DEF Onward
<1> HIDE DEF ps
<1>7. /\ Linked' /\ Stopping'
      /\ \A d \in Client : Onward(peer[d], peer'[d]) /\ (peer'[d] = ps[d] \/ EndsAs(ps[d], peer'[d]))
  BY <1>2, <1>5, <1>6, StreamsBecome DEF AccountInv
<1>8. Reached'
  BY <1>2, <1>7, ReachedStays DEF AccountInv
<1>9. /\ \/ response'[c] = response[c] /\ client[c].link = "down"
         \/ response'[c] = Append(response[c], line)
      /\ \A d \in Client : d # c => response'[d] = response[d]
  BY <1>1, <1>2
<1>10. ASSUME NEW q \in Call, OwnerOf[q] # c \/ line \notin AnswersTo(q) \/ client[c].link = "down"
       PROVE  KeptFor(q)
  <2> DEFINE d == OwnerOf[q]
             answers == AnswersTo(q)
  <2>1. d \in Client /\ AsBefore(request[d], request'[d], {q})
    BY <1>2, ConnectionAssumption, SameLines
  <2>2. Onward(peer[d], peer'[d]) /\ (peer'[d] = ps[d] \/ EndsAs(ps[d], peer'[d]))
    BY <1>7, <2>1
  <2>3. CASE d # c
    <3>1. ps[d].out = peer[d].out /\ response'[d] = response[d]
      BY <1>5, <1>9, <2>1, <2>3
    <3>2. AsBefore(peer[d].out, ps[d].out, answers) /\ AsBefore(response[d], response'[d], answers)
      BY <3>1, SameLines
    <3> QED
      BY <1>2, <2>1, <2>2, <3>2, KeptByEnds DEF AsBefore
  <2>4. CASE d = c
    <3> HIDE DEF answers
    <3>1. /\ NoMore(peer[c].out, rest, answers)
          /\ line \notin answers => AsBefore(peer[c].out, rest, answers)
      BY <1>1, LineTaken
    <3>2. line \notin answers => AsBefore(response[c], Append(response[c], line), answers)
      BY <1>1, <1>3, LineAdded
    <3>3. AsBefore(response[c], response[c], answers)
      BY SameLines
    <3>4. line \notin answers \/ client[c].link = "down"
      BY <1>10, <2>4 DEF answers
    <3>5. AsBefore(response[c], response'[c], answers)
      BY <1>9, <3>2, <3>3, <3>4, <1>2
    <3>6. /\ NoMore(peer[d].out, ps[d].out, answers)
          /\ client[d].link = "up" => AsBefore(peer[d].out, ps[d].out, answers)
          /\ AsBefore(response[d], response'[d], answers)
      BY <1>4, <1>5, <2>4, <3>1, <3>4, <3>5
    <3> QED
      BY <1>2, <2>1, <2>2, <3>6, KeptByEnds DEF AsBefore, answers
  <2> QED
    BY <2>3, <2>4
<1>11. ASSUME NEW q \in Call, OwnerOf[q] = c, line \in AnswersTo(q), client[c].link # "down"
       PROVE  AccountedFor(q)'
  <2> DEFINE answers == AnswersTo(q)
  <2>1. AccountedFor(q) /\ HandledOnce(q)
    BY AccountedForAll DEF AccountInv, AccountedFor
  <2>2. AtMostOne(Among(peer[c].out, answers))
    BY <1>11, <2>1 DEF HandledOnce
  <2>3. Among(peer[c].out, answers) # {} /\ Among(rest, answers) = {}
    <3> HIDE DEF answers
    <3>1. line \in answers
      BY <1>11 DEF answers
    <3> QED
      BY <1>1, <2>2, <3>1, LineTaken
  <2>4. Among(response[c], answers) = {} /\ served[q] = "answered"
    BY <1>11, <2>1, <2>3 DEF HandledOnce
  <2>5. response'[c] = Append(response[c], line)
    BY <1>9, <1>11
  <2>6. AtMostOne(Among(response'[c], answers)) /\ Among(response'[c], answers) # {}
    <3> HIDE DEF answers
    <3>1. line \in answers
      BY <1>11 DEF answers
    <3> QED
      BY <1>1, <1>3, <2>4, <2>5, <3>1, LineAdded
  <2>7. Among(peer'[c].out, answers) = {}
    <3> HIDE DEF answers
    <3>1. peer'[c].out = rest \/ peer'[c].out = <<>>
      BY <1>4, <1>5, <1>7 DEF EndsAs
    <3> QED
      BY <2>3, <3>1, NoLines
  <2>8. Among(request'[c], {q}) = {} /\ served'[q] = "answered"
    BY <1>2, <1>11, <2>1, <2>4 DEF HandledOnce
  <2>9. HandledOnce(q)'
    BY <1>11, <2>6, <2>7, <2>8 DEF HandledOnce, AtMostOne, AnswersTo, Answers
  <2>10. UnderWay(q)'
    BY <1>11, <2>6 DEF UnderWay, AnswersTo, Answers
  <2>11. call'[q] = "pending" => client'[c].link = "up"
    BY <1>2, <1>11, <2>1 DEF AccountedFor
  <2> QED
    BY <1>11, <2>9, <2>10, <2>11 DEF AccountedFor
<1>12. \A q \in Call : AccountedFor(q)'
  BY <1>10, <1>11, Kept, AccountedForAll DEF AccountInv
<1>13. Accounted'
  BY <1>12 DEF Accounted, AccountedFor
<1> QED
  BY <1>7, <1>8, <1>13 DEF AccountInv

(* What the bus makes of an end: events are no answers.                    *)
LEMMA NotifiedIs ==
  ASSUME NEW c \in Client, NEW p \in End, EndAt(c, p)
  PROVE  /\ Onward(p, Notified(p))
         /\ \A q \in Call : \/ AsBefore(p.out, Notified(p).out, AnswersTo(q))
                            \/ Notified(p).out = <<>> /\ Notified(p).stream = "gone"
<1>1. CASE p.stream = "open"
  <2> DEFINE es == [i \in 1..Cardinality(p.subscriptions) |-> Event]
  <2>1. Cardinality(p.subscriptions) \in Nat
    BY FS_CardinalityType DEF EndAt
  <2>2. es \in Seq(Line) /\ p.out \in Seq(Line) /\ \A i \in DOMAIN es : es[i] = Event
    BY <2>1 DEF Line, End
  <2>3. Notified(p) = [p EXCEPT !.out = p.out \o es]
    BY <1>1 DEF Notified
  <2>4. \A q \in Call : Event \notin AnswersTo(q)
    BY ConnectionAssumption DEF AnswersTo
  <2> HIDE DEF es
  <2>5. Notified(p).out = p.out \o es /\ Notified(p).stream = p.stream
    BY <2>3 DEF End
  <2>6. ASSUME NEW q \in Call PROVE AsBefore(p.out, Notified(p).out, AnswersTo(q))
    <3> DEFINE answers == AnswersTo(q)
    <3>1. \A i \in DOMAIN es : es[i] \notin answers
      BY <2>2, <2>4
    <3> HIDE DEF answers
    <3>2. AsBefore(p.out, p.out \o es, answers)
      BY <2>2, <3>1, OthersAdded
    <3> QED
      BY <2>5, <3>2 DEF answers
  <2> QED
    BY <2>5, <2>6 DEF Onward
<1>2. CASE p.stream # "open"
  <2>1. Notified(p) = p \/ Notified(p) = Written(p, Event)
    BY <1>2 DEF Notified
  <2>2. Written(p, Event) = p \/ (Written(p, Event).out = <<>> /\ Written(p, Event).stream = "gone")
    BY <1>2, WrittenIs DEF Line
  <2> QED
    BY <2>1, <2>2, SameLines DEF Onward
<1> QED
  BY <1>1, <1>2

(* A step in which nothing is lost but with its stream: an event, the stop *)
(* of the daemon, and the loss of any streams.                             *)
LEMMA EndsAccount ==
  ASSUME OwnInv, AccountInv, NEW ps \in [Client -> End], NEW stop \in BOOLEAN, Becomes(ps, stop),
         UNCHANGED <<client, call, response, served>>,
         \A c \in Client : request'[c] = request[c] \/ request'[c] = <<>>,
         \A c \in Client : client[c].link = "up" =>
           request'[c] = request[c] \/ ps[c].stream \in {"ended", "gone"},
         \A c \in Client : Onward(peer[c], ps[c]),
         \A c \in Client, q \in Call :
           \/ AsBefore(peer[c].out, ps[c].out, AnswersTo(q))
           \/ ps[c].out = <<>> /\ ps[c].stream = "gone"
  PROVE  AccountInv'
<1>1. /\ Linked' /\ Stopping'
      /\ \A d \in Client : Onward(peer[d], peer'[d]) /\ (peer'[d] = ps[d] \/ EndsAs(ps[d], peer'[d]))
  BY StreamsBecome DEF AccountInv
<1>2. Reached'
  BY <1>1, ReachedStays DEF AccountInv
<1>3. ASSUME NEW q \in Call PROVE KeptFor(q)
  <2> DEFINE c == OwnerOf[q]
  <2>1. c \in Client
    BY ConnectionAssumption
  <2>2. Onward(peer[c], peer'[c]) /\ (peer'[c] = ps[c] \/ EndsAs(ps[c], peer'[c]))
    BY <1>1, <2>1
  <2>3. /\ NoMore(request[c], request'[c], {q})
        /\ request'[c] = request[c] => AsBefore(request[c], request'[c], {q})
    BY <2>1, NoLines, SameLines DEF AsBefore
  <2>4. NoMore(peer[c].out, ps[c].out, AnswersTo(q))
    BY <2>1, NoLines DEF AsBefore
  <2>5. AsBefore(response[c], response'[c], AnswersTo(q))
    BY SameLines
  <2>6. client[c].link = "up" =>
          \/ ps[c].stream \in {"ended", "gone"}
          \/ /\ AsBefore(request[c], request'[c], {q})
             /\ AsBefore(peer[c].out, ps[c].out, AnswersTo(q))
    BY <2>1, <2>3
  <2> QED
    BY <2>2, <2>3, <2>4, <2>5, <2>6, KeptByEnds DEF AsBefore
<1>4. Accounted'
  BY <1>3, Kept, AccountedForAll DEF AccountInv, Accounted, AccountedFor
<1> QED
  BY <1>1, <1>2, <1>4 DEF AccountInv

(* An event.                                                               *)
LEMMA PublishAccounts == ASSUME OwnInv, AccountInv, Publish PROVE AccountInv'
<1> DEFINE ps == [c \in Client |-> Notified(peer[c])]
<1>1. \A c \in Client : peer[c] \in End /\ EndAt(c, peer[c])
  BY Parts DEF Daemon, Ends
<1>2. /\ ps \in [Client -> End]
      /\ \A c \in Client : Onward(peer[c], ps[c])
      /\ \A c \in Client, q \in Call : \/ AsBefore(peer[c].out, ps[c].out, AnswersTo(q))
                                       \/ ps[c].out = <<>> /\ ps[c].stream = "gone"
  BY <1>1, NotifiedEnds, NotifiedIs
<1>3. Becomes(ps, FALSE) /\ UNCHANGED <<client, call, request, response, served>>
  BY DEF Publish, clientVars
<1> HIDE DEF ps
<1> QED
  BY <1>2, <1>3, EndsAccount

(* The daemon is told to stop.                                             *)
LEMMA SignalAccounts == ASSUME OwnInv, AccountInv, Signal PROVE AccountInv'
<1>1. peer \in [Client -> End]
  BY Parts DEF Daemon
<1>2. /\ \A c \in Client : Onward(peer[c], peer[c])
      /\ \A c \in Client, q \in Call : AsBefore(peer[c].out, peer[c].out, AnswersTo(q))
  BY SameLines DEF Onward
<1>3. Becomes(peer, TRUE) /\ UNCHANGED <<client, call, request, response, served>>
  BY DEF Signal, clientVars
<1> QED
  BY <1>1, <1>2, <1>3, EndsAccount

(* The lines to the ends cs are lost with them; those to others are not,   *)
(* unless nothing was on its way.                                          *)
LEMMA LossAccounts ==
  ASSUME OwnInv, AccountInv, NEW cs \in SUBSET Client, Destroyed(cs), NEW ds,
         \A c \in ds : c \in cs \/ peer[c].stream \in {"none", "gone"},
         request' = [c \in Client |-> IF c \in ds THEN <<>> ELSE request[c]],
         UNCHANGED <<clientVars, response, served>>
  PROVE  AccountInv'
<1> DEFINE ps == [c \in Client |-> IF c \in cs THEN Gone(peer[c]) ELSE peer[c]]
           stop == \E c \in cs : \E i \in DOMAIN peer[c].out : ShutdownAnswer(peer[c].out[i])
<1>1. ASSUME NEW c \in Client
      PROVE  peer[c] \in End /\ Gone(peer[c]) \in End /\ Gone(peer[c]).stream = "gone"
             /\ Gone(peer[c]).out = <<>>
  <2>1. peer[c] \in End /\ Gone(peer[c]) \in End /\ EndAt(c, Gone(peer[c]))
        /\ Gone(peer[c]).stream = "gone"
    BY Parts, GoneEnds DEF Daemon
  <2> QED
    BY <2>1 DEF EndAt
<1>2. /\ ps \in [Client -> End]
      /\ \A c \in Client : ps[c] = IF c \in cs THEN Gone(peer[c]) ELSE peer[c]
  BY <1>1
<1>3. Becomes(ps, stop) /\ stop \in BOOLEAN
  BY DEF Destroyed
<1> HIDE DEF ps, stop
<1>4. \A c \in Client : Onward(peer[c], ps[c])
  BY <1>1, <1>2 DEF Onward
<1>5. \A c \in Client, q \in Call : \/ AsBefore(peer[c].out, ps[c].out, AnswersTo(q))
                                    \/ ps[c].out = <<>> /\ ps[c].stream = "gone"
  BY <1>1, <1>2, SameLines
<1>6. \A c \in Client : request'[c] = IF c \in ds THEN <<>> ELSE request[c]
  OBVIOUS
<1>7. ASSUME NEW c \in Client, client[c].link = "up"
      PROVE  request'[c] = request[c] \/ ps[c].stream \in {"ended", "gone"}
  <2>1. peer[c].stream # "none"
    BY <1>7 DEF AccountInv, Linked
  <2> QED
    BY <1>1, <1>2, <1>6, <2>1
<1> QED
  BY <1>2, <1>3, <1>4, <1>5, <1>6, <1>7, EndsAccount DEF clientVars

(* One connection is lost.                                                 *)
LEMMA OneLossAccounts ==
  ASSUME OwnInv, AccountInv, NEW c \in Client, SeesClose(c) \/ StreamFails(c) PROVE AccountInv'
<1>1. request \in [Client -> Seq(Call)]
  BY DEF OwnInv, TypeOK
<1>2. /\ Destroyed({c}) /\ UNCHANGED <<clientVars, response, served>>
      /\ request' = [d \in Client |-> IF d \in {c} THEN <<>> ELSE request[d]]
  BY <1>1 DEF SeesClose, StreamFails
<1> QED
  BY <1>2, LossAccounts

(* When the grace period is over no connection is still to be accepted.    *)
LEMMA GraceOverAccounts == ASSUME OwnInv, AccountInv, GraceOver PROVE AccountInv'
<1> DEFINE cs == {c \in Client : Alive(c)}
<1>1. Destroyed(cs) /\ cs \in SUBSET Client /\ daemon = "closing"
      /\ request' = [c \in Client |-> IF c \in Client THEN <<>> ELSE request[c]]
      /\ UNCHANGED <<clientVars, response, served>>
  BY DEF GraceOver
<1>2. ASSUME NEW c \in Client PROVE c \in cs \/ peer[c].stream \in {"none", "gone"}
  <2>1. peer[c].stream \in {"none", "arrived", "open", "ended", "gone"}
    BY Parts DEF Daemon, End
  <2>2. peer[c].stream # "arrived"
    BY <1>1 DEF AccountInv, Stopping
  <2> QED
    BY <2>1, <2>2 DEF Alive
<1> HIDE DEF cs
<1> QED
  BY <1>1, <1>2, LossAccounts

(* Nothing happens to the lines, the ends and the requests.                *)
LEMMA StillAccounts ==
  ASSUME AccountInv, UNCHANGED <<client, call, request, response, peer, served>>,
         daemon' = daemon \/ daemon # "up"
  PROVE  AccountInv'
<1>1. Accounted'
  BY DEF AccountInv, Accounted, HandledOnce, UnderWay, AnswersTo, Answers
<1> QED
  BY <1>1 DEF AccountInv, Linked, Reached, Stopping

(* At the start nobody has sent anything.                                  *)
LEMMA InitAccounts == ASSUME Init PROVE AccountInv
<1>1. /\ \A q \in Call : OwnerOf[q] \in Client /\ call[q] = "new" /\ served[q] = "no"
      /\ \A c \in Client : /\ request[c] = <<>> /\ response[c] = <<>>
                           /\ peer[c].out = <<>> /\ peer[c].stream = "none"
                           /\ client[c].link = "none"
  BY ConnectionAssumption DEF Init
<1>2. \A set : Among(<<>>, set) = {} /\ AtMostOne({})
  BY NoLines DEF AtMostOne
<1>3. Accounted
  BY <1>1, <1>2 DEF Accounted, HandledOnce
<1> QED
  BY <1>1, <1>3 DEF AccountInv, Linked, Reached, Stopping, Init

(* Every step keeps the accounts.                                          *)
LEMMA NextAccounts == ASSUME OwnInv, AccountInv, Next PROVE AccountInv'
<1>1. ASSUME NEW c \in Client, ClientStep(c) \/ Close(c) PROVE AccountInv'
  <2>1. CASE Disconnected(c) \/ Close(c)
    BY <2>1, ClosedAccounts DEF Disconnected, Close
  <2>2. ASSUME NEW q \in CallsOf(c), Send(q) PROVE AccountInv'
    BY <2>2, SendAccounts DEF CallsOf
  <2> QED
    BY <1>1, <2>1, <2>2, ConnectionOpensAccounts, ConnectionFailsAccounts,
       TransportOpenedAccounts, ReceiveAccounts DEF ClientStep
<1>2. ASSUME NEW c \in Client, DaemonStep(c) \/ Flush(c) \/ StreamFails(c) PROVE AccountInv'
  BY <1>2, OneLossAccounts, AcceptAccounts, HandleLineAccounts, FlushAccounts DEF DaemonStep
<1>3. ASSUME NEW q \in Call, Request(q) \/ \E result \in {"ok", "refused"} : Answer(q, result)
      PROVE  AccountInv'
  BY <1>3, RequestAccounts, AnswerAccounts
<1>4. CASE CloseSockets
  BY <1>4, ClosedAccounts DEF CloseSockets
<1>5. CASE TransportsClosed
  BY <1>5, StillAccounts DEF TransportsClosed, clientVars
<1> QED
  BY <1>1, <1>2, <1>3, <1>4, <1>5, CloseOwnerAccounts, PublishAccounts, SignalAccounts,
     GraceOverAccounts DEF Next

(* So does a step that changes nothing.                                    *)
LEMMA UnchangedAccounts == ASSUME AccountInv, UNCHANGED vars PROVE AccountInv'
  BY StillAccounts DEF vars

-----------------------------------------------------------------------------
(* The invariant is Safe and more: an end that is not alive has no         *)
(* subscription, so that the bus has those of the others only.             *)
LEMMA OwnIsSafe == ASSUME OwnInv, AccountInv PROVE Safe
<1> DEFINE alive == {d \in Client : Alive(d)}
<1>1. ASSUME NEW c \in Client, NEW s \in peer[c].subscriptions PROVE c \in alive
  BY <1>1 DEF OwnInv, Ends, EndAt, Alive
<1>2. UNION {peer[c].subscriptions : c \in Client} = UNION {peer[c].subscriptions : c \in alive}
  BY <1>1
<1>3. bus = UNION {peer[c].subscriptions : c \in alive}
  BY <1>2 DEF OwnInv, BusAt
<1> QED
  BY <1>3 DEF OwnInv, AccountInv, ClosedClients, Safe, ClosedHoldsNothing

(* What is closed holds nothing, at either end: no socket, no pending      *)
(* request, no subscription in the event bus; and of the others nothing is *)
(* lost or doubled: a pending request is under way on a connection that is *)
(* up, or that connection's end is still to be noticed, and it is handled  *)
(* and answered once.  For any number of clients, requests and events, in  *)
(* whatever order the ends close.                                          *)
THEOREM ConnectionSafe == Spec => []Safe
<1>1. Init => OwnInv /\ AccountInv
  BY InitOwn, InitAccounts
<1>2. OwnInv /\ AccountInv /\ [Next]_vars => OwnInv' /\ AccountInv'
  BY NextOwn, UnchangedOwn, NextAccounts, UnchangedAccounts
<1>3. OwnInv /\ AccountInv => Safe
  BY OwnIsSafe
<1> QED
  BY <1>1, <1>2, <1>3, PTL DEF Spec
=============================================================================
