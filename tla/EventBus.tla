------------------------------ MODULE EventBus ------------------------------
(***************************************************************************)
(* The event bus (src/src/service/event-bus.ts).  It runs on one thread    *)
(* and calls its listeners synchronously, so that whatever a listener does *)
(* with the bus happens inside the call it was given the event in.  The    *)
(* stack of these calls is part of the state: its frames are the delivery  *)
(* loop of emit, at most one, and the loops of deliver, at most one for    *)
(* each subscriber.                                                        *)
(*                                                                         *)
(* An event is its sequence number; what filters look at is its topic.     *)
(***************************************************************************)
EXTENDS Naturals, Sequences

CONSTANTS
  Topic,
  Subscriber,   \* subscription ids, each given out once
  None,
  ReplayLimit,
  MaxEvents     \* bound: events emitted

ASSUME EventBusAssumption ==
  /\ None \notin Subscriber
  /\ ReplayLimit \in Nat \ {0}
  /\ MaxEvents \in Nat

VARIABLES
  log,          \* the topics of all events; nextId is one more than their number
  replay,       \* the retained events, oldest first
  pending,      \* events that emit's loop has not dealt with
  subscribers,  \* the keys of the Map, in the order they were inserted
  sub,          \* the Subscriber records, with the last event given out
  stack         \* the calls in progress, innermost first

vars == <<log, replay, pending, subscribers, sub, stack>>

Unused == [filter |-> {}, liveAfter |-> 0, queue |-> <<>>, last |-> 0, used |-> FALSE]

(* A delivery loop of emit: the event, and the subscribers still to see.   *)
Loop(n, targets) == [kind |-> "emit", sub |-> None, event |-> n, targets |-> targets]

(* A loop of deliver; event is 0 while the listener is not running.        *)
Delivery(s, n) == [kind |-> "deliver", sub |-> s, event |-> n, targets |-> <<>>]

-----------------------------------------------------------------------------

Last == Len(log)

Subscribed(s) == \E i \in DOMAIN subscribers : subscribers[i] = s

Matches(n, filter) == log[n] \in filter

(* The two delivering flags are set while the loop they guard is running.  *)
Delivering == \E i \in DOMAIN stack : stack[i].kind = "emit"

Busy(s) == \E i \in DOMAIN stack : stack[i].sub = s

(* The bus is called from outside or from a listener.                      *)
MayCall == stack # <<>> => Head(stack).kind = "deliver" /\ Head(stack).event # 0

InLoop == stack # <<>> /\ Head(stack).kind = "emit"

InDelivery == stack # <<>> /\ Head(stack).kind = "deliver"

(* The elements of q that are in S, in their order: SelectSeq, written as a *)
(* recursive function, of which the proofs can say what it computes.       *)
Kept(q, S) ==
  LET kept[i \in 0..Len(q)] ==
        IF i = 0 THEN <<>>
        ELSE IF q[i] \in S THEN Append(kept[i - 1], q[i])
        ELSE kept[i - 1]
  IN kept[Len(q)]

Without(s) == Kept(subscribers, Subscriber \ {s})

(* EventBus.sequence: neither in the future nor expired.                   *)
Retained(cursor) == cursor <= Last /\ cursor + Len(replay) >= Last

EventsSince(cursor, filter) ==
  Kept(replay, {n \in DOMAIN log : n > cursor /\ Matches(n, filter)})

-----------------------------------------------------------------------------

Limited(events) == IF Len(events) > ReplayLimit THEN Tail(events) ELSE events

(* Variant: a nested emit delivers before the outer one is done.           *)
EmitAtOnce(x) ==
  /\ MayCall
  /\ Last < MaxEvents
  /\ log' = Append(log, x)
  /\ replay' = Limited(Append(replay, Last + 1))
  /\ stack' = <<Loop(Last + 1, subscribers)>> \o stack
  /\ UNCHANGED <<pending, subscribers, sub>>

Emit(x) ==
  /\ MayCall
  /\ Last < MaxEvents
  /\ log' = Append(log, x)
  /\ replay' = Limited(Append(replay, Last + 1))
  /\ pending' = Append(pending, Last + 1)
  /\ stack' = IF Delivering THEN stack ELSE <<Loop(0, <<>>)>> \o stack
  /\ UNCHANGED <<subscribers, sub>>

(* emit's loop takes the next event and a copy of the subscribers.         *)
NextEvent ==
  /\ InLoop /\ Head(stack).targets = <<>>
  /\ pending # <<>>
  /\ pending' = Tail(pending)
  /\ stack' = <<Loop(Head(pending), subscribers)>> \o Tail(stack)
  /\ UNCHANGED <<log, replay, subscribers, sub>>

Eligible(s, n) ==
  Subscribed(s) /\ n > sub[s].liveAfter /\ Matches(n, sub[s].filter)

(* ... turns to the next subscriber and, unless that one's deliver is      *)
(* running further out, enters deliver.                                    *)
NextSubscriber ==
  LET s == Head(Head(stack).targets)
      n == Head(stack).event
      rest == <<Loop(n, Tail(Head(stack).targets))>> \o Tail(stack)
  IN /\ InLoop /\ Head(stack).targets # <<>>
     /\ IF Eligible(s, n)
        THEN /\ sub' = [sub EXCEPT ![s].queue = Append(@, n)]
             /\ stack' = IF Busy(s) THEN rest ELSE <<Delivery(s, 0)>> \o rest
        ELSE stack' = rest /\ UNCHANGED sub
     /\ UNCHANGED <<log, replay, pending, subscribers>>

EmitReturns ==
  /\ InLoop /\ Head(stack).targets = <<>>
  /\ pending = <<>>
  /\ stack' = Tail(stack)
  /\ UNCHANGED <<log, replay, pending, subscribers, sub>>

(* A live subscription has no cursor; a refused one changes nothing.       *)
Subscribe(s, filter, cursor) ==
  /\ MayCall
  /\ ~sub[s].used
  /\ cursor # None => Retained(cursor)
  /\ subscribers' = Append(subscribers, s)
  /\ sub' = [sub EXCEPT ![s] =
       [filter |-> filter, liveAfter |-> Last, used |-> TRUE,
        queue |-> IF cursor = None THEN <<>> ELSE EventsSince(cursor, filter),
        last |-> IF cursor = None THEN Last ELSE cursor]]
  /\ stack' = <<Delivery(s, 0)>> \o stack
  /\ UNCHANGED <<log, replay, pending>>

Unsubscribe(s) ==
  /\ MayCall
  /\ Subscribed(s)
  /\ subscribers' = Without(s)
  /\ UNCHANGED <<log, replay, pending, sub, stack>>

GoesOn(s) == Subscribed(s) /\ sub[s].queue # <<>>

(* deliver's loop calls the listener ...                                   *)
CallListener ==
  LET s == Head(stack).sub
  IN /\ InDelivery /\ Head(stack).event = 0
     /\ GoesOn(s)
     /\ sub' = [sub EXCEPT ![s].queue = Tail(@), ![s].last = Head(sub[s].queue)]
     /\ stack' = <<Delivery(s, Head(sub[s].queue))>> \o Tail(stack)
     /\ UNCHANGED <<log, replay, pending, subscribers>>

DeliverReturns ==
  /\ InDelivery /\ Head(stack).event = 0
  /\ ~GoesOn(Head(stack).sub)
  /\ stack' = Tail(stack)
  /\ UNCHANGED <<log, replay, pending, subscribers, sub>>

(* ... which returns, or throws and is detached.                           *)
ListenerReturns ==
  /\ InDelivery /\ Head(stack).event # 0
  /\ stack' = <<Delivery(Head(stack).sub, 0)>> \o Tail(stack)
  /\ UNCHANGED <<log, replay, pending, subscribers, sub>>

(* Variant: the exception leaves emit's loop too.                          *)
ListenerThrowsThrough ==
  /\ InDelivery /\ Head(stack).event # 0
  /\ subscribers' = Without(Head(stack).sub)
  /\ sub' = [sub EXCEPT ![Head(stack).sub].queue = <<>>]
  /\ stack' = IF Len(stack) > 1 THEN Tail(Tail(stack)) ELSE Tail(stack)
  /\ UNCHANGED <<log, replay, pending>>

ListenerThrows ==
  /\ InDelivery /\ Head(stack).event # 0
  /\ subscribers' = Without(Head(stack).sub)
  /\ sub' = [sub EXCEPT ![Head(stack).sub].queue = <<>>]
  /\ stack' = Tail(stack)
  /\ UNCHANGED <<log, replay, pending>>

-----------------------------------------------------------------------------

Init ==
  /\ log = <<>> /\ replay = <<>> /\ pending = <<>>
  /\ subscribers = <<>>
  /\ sub = [s \in Subscriber |-> Unused]
  /\ stack = <<>>

(* The bus's own steps, and the end of a listener's call                   *)
Step ==
  \/ NextEvent \/ NextSubscriber \/ EmitReturns
  \/ CallListener \/ DeliverReturns
  \/ ListenerReturns \/ ListenerThrows

Next ==
  \/ \E x \in Topic : Emit(x)
  \/ \E s \in Subscriber :
       \/ \E filter \in (SUBSET Topic) \ {{}}, cursor \in 0..MaxEvents \cup {None} :
            Subscribe(s, filter, cursor)
       \/ Unsubscribe(s)
  \/ Step

Spec == Init /\ [][Next]_vars

(* Listeners return, and call the bus no more than boundedly often: the    *)
(* bus then finishes what it has begun.                                    *)
FairSpec == Spec /\ WF_vars(Step)

-----------------------------------------------------------------------------

Frame ==
  [kind : {"emit", "deliver"}, sub : Subscriber \cup {None}, event : 0..MaxEvents,
   targets : Seq(Subscriber)]

(* Every field holds what its declaration says; the replay buffer is the   *)
(* end of the log, no longer than its limit; the events still to be dealt  *)
(* with are the last ones; and no loop is entered twice.                   *)
TypeOK ==
  /\ log \in Seq(Topic) /\ Last <= MaxEvents
  /\ Len(replay) = (IF Last < ReplayLimit THEN Last ELSE ReplayLimit)
  /\ \A i \in DOMAIN replay : replay[i] = Last - Len(replay) + i
  /\ Len(pending) <= Last
  /\ \A i \in DOMAIN pending : pending[i] = Last - Len(pending) + i
  /\ subscribers \in Seq(Subscriber)
  /\ sub \in [Subscriber ->
       [filter : SUBSET Topic, liveAfter : 0..MaxEvents, queue : Seq(1..MaxEvents),
        last : 0..MaxEvents, used : BOOLEAN]]
  /\ stack \in Seq(Frame)
  /\ \A i, j \in DOMAIN stack : i # j => stack[i].sub # stack[j].sub

(* When the outermost call of emit or subscribe returns, every subscriber  *)
(* has been given everything it asked for: the service has handled an      *)
(* event of its own by the time a top-level emit returns, however the      *)
(* listeners have called the bus meanwhile and whichever of them failed.   *)
AllGiven ==
  stack = <<>> =>
    /\ pending = <<>>
    /\ \A s \in Subscriber : Subscribed(s) =>
         \A n \in DOMAIN log : n > sub[s].last => ~Matches(n, sub[s].filter)

Safe == TypeOK /\ AllGiven

(* The bus is an event log (EventLog) in which those who stay are served,  *)
(* whatever calls the listeners make.                                      *)
Log ==
  INSTANCE EventLog WITH
    reader <- [s \in Subscriber |->
                 [phase |-> IF Subscribed(s) THEN "on" ELSE IF sub[s].used THEN "off" ELSE "new",
                  topics |-> sub[s].filter,
                  pos |-> sub[s].last]]

OrderedLog == Log!FairSpec

=============================================================================
