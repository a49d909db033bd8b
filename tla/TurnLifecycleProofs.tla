------------------------ MODULE TurnLifecycleProofs ------------------------
(***************************************************************************)
(* What keeps a thread's turns, refreshes and mutations apart, whose the   *)
(* workers and their commands are, when a turn ends and when its baseline  *)
(* is current, for any number of turns, workers and faults.                *)
(***************************************************************************)
EXTENDS TurnLifecycle, TLAPS

(* The commands that stand for a mutation or a refresh in a queue.         *)
Marked == {"mutate", "state"}

Unmarked(q) == \A i \in DOMAIN q : q[i].kind \notin Marked

(* A mutation's command waits only while it is under way, a get_state only *)
(* while a refresh waits for it, and no queue has two of them.             *)
CommandsAt(q, w, cl, m) ==
  \A i \in DOMAIN q :
    /\ q[i].kind = "mutate" => m.pc = "mutating" /\ m.worker = w
    /\ q[i].kind = "state" => cl.worker = w \/ (m.pc = "refresh" /\ m.worker = w)
    /\ \A j \in DOMAIN q : q[i].kind \in Marked /\ q[j].kind \in Marked => i = j

CommandsOf(wk, cl, m) == \A w \in Worker : CommandsAt(wk[w].queue, w, cl, m)

Commands == CommandsOf(worker, cleanup, mutation)

Exclusive(ac, cl, m) ==
  /\ ac = NoTurn \/ cl = NoRefresh
  /\ ac = NoTurn \/ m = NoRefresh
  /\ cl = NoRefresh \/ m = NoRefresh

IInv == TypeOK /\ WritersExclusive /\ Commands

-----------------------------------------------------------------------------
(* Queues.                                                                 *)

Entries == [kind : {"prompt", "read", "mutate", "state"}, turn : Turn \cup {None}]
Queues == Seq(Entries)

(* A command that is added goes to the end of the queue.                   *)
LEMMA Enqueued ==
  ASSUME NEW obj \in WorkerObjects, NEW kind \in {"prompt", "read", "mutate", "state"},
         NEW t \in Turn \cup {None}
  PROVE  /\ Enqueue(obj, kind, t) \in WorkerObjects
         /\ Enqueue(obj, kind, t).queue = Append(obj.queue, Command(kind, t))
         /\ obj.queue \in Queues
<1>1. obj.queue \in Queues
  BY DEF WorkerObjects, Queues, Entries
<1>2. Append(obj.queue, Command(kind, t)) \in Queues
  BY <1>1 DEF Queues, Entries, Command
<1> QED
  BY <1>1, <1>2 DEF Enqueue, WorkerObjects, Queues, Entries

(* The first command of a queue.                                           *)
LEMMA HeadTyped ==
  ASSUME NEW q \in Queues, q # <<>>
  PROVE  Head(q).turn \in Turn \cup {None} /\ Head(q) = q[1] /\ 1 \in DOMAIN q
<1>1. Len(q) \in Nat \ {0} /\ DOMAIN q = 1..Len(q) /\ Head(q) = q[1]
  BY DEF Queues
<1>2. q[1] \in Entries
  BY <1>1 DEF Queues
<1> QED
  BY <1>1, <1>2 DEF Entries

(* What a queue with one more command has where.                           *)
LEMMA Appended ==
  ASSUME NEW q \in Queues, NEW kind, NEW t
  PROVE  /\ DOMAIN Append(q, Command(kind, t)) = 1..(Len(q) + 1)
         /\ DOMAIN q = 1..Len(q) /\ Len(q) \in Nat
         /\ \A i \in 1..Len(q) : Append(q, Command(kind, t))[i] = q[i]
         /\ Append(q, Command(kind, t))[Len(q) + 1].kind = kind
  BY DEF Queues, Command

(* The worker's object with its first command taken off.                   *)
LEMMA AnsweredTyped ==
  ASSUME NEW w \in Worker, worker \in [Worker -> WorkerObjects], worker[w].queue # <<>>
  PROVE  /\ Answered(w) \in [Worker -> WorkerObjects]
         /\ Answered(w)[w].queue = Tail(worker[w].queue)
         /\ \A u \in Worker : u # w => Answered(w)[u] = worker[u]
         /\ worker[w].queue \in Queues
<1>1. worker[w].queue \in Queues
  BY DEF WorkerObjects, Queues, Entries
<1>2. Tail(worker[w].queue) \in Queues
  BY <1>1 DEF Queues
<1>3. [worker[w] EXCEPT !.queue = Tail(worker[w].queue)] \in WorkerObjects
  BY <1>2 DEF WorkerObjects, Queues, Entries
<1>4. Answered(w) = [worker EXCEPT ![w] = [worker[w] EXCEPT !.queue = Tail(worker[w].queue)]]
  BY DEF Answered
<1> DEFINE obj == [worker[w] EXCEPT !.queue = Tail(worker[w].queue)]
<1>5. obj.queue = Tail(worker[w].queue)
  BY DEF WorkerObjects
<1> QED
  BY <1>1, <1>3, <1>4, <1>5

(* What remains after the first command is where it was, one place on.     *)
LEMMA TailCommands ==
  ASSUME NEW q \in Queues, q # <<>>, NEW w, NEW cl, NEW m, CommandsAt(q, w, cl, m)
  PROVE  /\ CommandsAt(Tail(q), w, cl, m)
         /\ Head(q).kind \in Marked => Unmarked(Tail(q))
<1>1. /\ DOMAIN Tail(q) = 1..(Len(q) - 1) /\ DOMAIN q = 1..Len(q)
      /\ \A i \in 1..(Len(q) - 1) : Tail(q)[i] = q[i + 1]
      /\ Head(q) = q[1] /\ Len(q) \in Nat \ {0}
  BY DEF Queues
<1>2. \A i \in DOMAIN Tail(q) : i + 1 \in DOMAIN q /\ i \in Nat \ {0} /\ Tail(q)[i] = q[i + 1]
  BY <1>1
<1>3. CommandsAt(Tail(q), w, cl, m)
  <2> SUFFICES ASSUME NEW i \in DOMAIN Tail(q)
               PROVE  /\ Tail(q)[i].kind = "mutate" => m.pc = "mutating" /\ m.worker = w
                      /\ Tail(q)[i].kind = "state" =>
                           cl.worker = w \/ (m.pc = "refresh" /\ m.worker = w)
                      /\ \A j \in DOMAIN Tail(q) :
                           Tail(q)[i].kind \in Marked /\ Tail(q)[j].kind \in Marked => i = j
    BY DEF CommandsAt
  <2> QED
    BY <1>2 DEF CommandsAt
<1>4. Head(q).kind \in Marked => Unmarked(Tail(q))
  <2> SUFFICES ASSUME Head(q).kind \in Marked, NEW i \in DOMAIN Tail(q), Tail(q)[i].kind \in Marked
               PROVE  FALSE
    BY DEF Unmarked
  <2>1. 1 = i + 1
    BY <1>1, <1>2 DEF CommandsAt
  <2> QED
    BY <1>2, <2>1
<1> QED
  BY <1>3, <1>4

(* The same for all workers, one of which has answered.                    *)
LEMMA AnsweredCommands ==
  ASSUME NEW w \in Worker, worker \in [Worker -> WorkerObjects], worker[w].queue # <<>>,
         NEW cl, NEW m, CommandsOf(worker, cl, m)
  PROVE  /\ CommandsOf(Answered(w), cl, m)
         /\ Head(worker[w].queue).kind \in Marked => Unmarked(Answered(w)[w].queue)
  BY AnsweredTyped, TailCommands DEF CommandsOf

(* A command of no refresh and no mutation may be added at any time, one   *)
(* of a refresh or a mutation to a queue that has none.                    *)
LEMMA AppendCommands ==
  ASSUME NEW q \in Queues, NEW w, NEW cl, NEW m, CommandsAt(q, w, cl, m), NEW kind, NEW t,
         kind \in Marked => Unmarked(q),
         kind = "mutate" => m.pc = "mutating" /\ m.worker = w,
         kind = "state" => cl.worker = w \/ (m.pc = "refresh" /\ m.worker = w)
  PROVE  CommandsAt(Append(q, Command(kind, t)), w, cl, m)
<1> DEFINE new == Append(q, Command(kind, t))
<1>1. /\ DOMAIN new = 1..(Len(q) + 1) /\ DOMAIN q = 1..Len(q) /\ Len(q) \in Nat
      /\ \A i \in 1..Len(q) : new[i] = q[i]
      /\ new[Len(q) + 1].kind = kind
  BY Appended
<1> SUFFICES ASSUME NEW i \in DOMAIN new
             PROVE  /\ new[i].kind = "mutate" => m.pc = "mutating" /\ m.worker = w
                    /\ new[i].kind = "state" => cl.worker = w \/ (m.pc = "refresh" /\ m.worker = w)
                    /\ \A j \in DOMAIN new :
                         new[i].kind \in Marked /\ new[j].kind \in Marked => i = j
  BY DEF CommandsAt
<1> HIDE DEF new
<1> QED
  BY <1>1 DEF CommandsAt, Unmarked

(* So for all workers, one of which gets a command.                        *)
LEMMA EnqueuedCommands ==
  ASSUME NEW w \in Worker, NEW wk \in [Worker -> WorkerObjects], NEW obj \in WorkerObjects,
         obj.queue = wk[w].queue, NEW kind \in {"prompt", "read", "mutate", "state"},
         NEW t \in Turn \cup {None}, NEW cl, NEW m, CommandsOf(wk, cl, m),
         kind \in Marked => Unmarked(wk[w].queue),
         kind = "mutate" => m.pc = "mutating" /\ m.worker = w,
         kind = "state" => cl.worker = w \/ (m.pc = "refresh" /\ m.worker = w)
  PROVE  CommandsOf([wk EXCEPT ![w] = Enqueue(obj, kind, t)], cl, m)
<1>1. obj.queue \in Queues /\ Enqueue(obj, kind, t).queue = Append(obj.queue, Command(kind, t))
  BY Enqueued
<1>2. CommandsAt(obj.queue, w, cl, m)
  BY DEF CommandsOf
<1>3. CommandsAt(Enqueue(obj, kind, t).queue, w, cl, m)
  BY <1>1, <1>2, AppendCommands
<1> QED
  BY <1>3 DEF CommandsOf

(* Without a refresh and a mutation, no queue has their commands, and a    *)
(* new one of them has nothing to fear from the others.                    *)
LEMMA NoneMarked ==
  ASSUME NEW wk, CommandsOf(wk, NoRefresh, NoRefresh)
  PROVE  /\ \A u \in Worker : Unmarked(wk[u].queue)
         /\ \A cl, m : CommandsOf(wk, cl, m)
  BY TurnLifecycleAssumption DEF CommandsOf, CommandsAt, Unmarked, NoRefresh, Marked

-----------------------------------------------------------------------------
(* Terminal events.                                                        *)

Typed == active \in ActiveTurns /\ cleanup \in Cleanups /\ mutation \in Mutations
         /\ turn \in [Turn -> TurnStates] /\ worker \in [Worker -> WorkerObjects]

(* A terminal event may start a refresh, but only that of the active turn, *)
(* beside which there is neither a refresh nor a mutation.                 *)
LEMMA EventKeeps ==
  ASSUME TypeOK, NEW t \in Turn \cup {None}, NEW tn \in [Turn -> TurnStates],
         NEW wk \in [Worker -> WorkerObjects], NEW cl \in Cleanups, NEW m \in Mutations,
         CommandsOf(wk, cl, m), Exclusive(active, cl, m), mutation' = m,
         Terminal(t, tn, wk, cl) \/ Quiet(tn, wk, cl)
  PROVE  Typed' /\ WritersExclusive' /\ Commands'
<1> DEFINE w == active.worker
<1> DEFINE mine == active.turn = t /\ w # None
<1> DEFINE found == mine /\ wk[w].proc = "live"
<1>1. CASE Quiet(tn, wk, cl)
  BY <1>1 DEF Quiet, Typed, WritersExclusive, Exclusive, Commands, TypeOK
<1>2. ASSUME Terminal(t, tn, wk, cl) PROVE turn' \in [Turn -> TurnStates]
  <2>1. t \in Turn => [tn[t] EXCEPT !.ended = @ + 1] \in TurnStates
    BY DEF TurnStates
  <2>2. turn' = [tn EXCEPT ![t].ended = @ + 1]
    BY <1>2 DEF Terminal
  <2> QED
    BY <2>1, <2>2, TurnLifecycleAssumption
<1>3. CASE Terminal(t, tn, wk, cl) /\ ~mine
  BY <1>2, <1>3 DEF Terminal, Typed, WritersExclusive, Exclusive, Commands, TypeOK
<1>4. CASE Terminal(t, tn, wk, cl) /\ mine
  <2>1. active # NoTurn /\ w \in Worker /\ t \in Turn
    BY <1>4, TurnLifecycleAssumption DEF TypeOK, ActiveTurns, NoTurn
  <2>2. cl = NoRefresh /\ m = NoRefresh
    BY <2>1 DEF Exclusive
  <2>3. active' = NoTurn /\ active' \in ActiveTurns
    BY <1>4, TurnLifecycleAssumption DEF Terminal, NoTurn, ActiveTurns
  <2>4. /\ \A u \in Worker : Unmarked(wk[u].queue)
        /\ \A c, n : CommandsOf(wk, c, n)
    BY <2>2, NoneMarked
  <2>5. CASE found
    <3> DEFINE obj == [wk[w] EXCEPT !.turn = None]
    <3>1. cleanup' = [pc |-> "refresh", worker |-> w, turn |-> t]
      BY <1>4, <2>5 DEF Terminal
    <3>2. cleanup' \in Cleanups
      BY <2>1, <3>1, TurnLifecycleAssumption DEF Cleanups
    <3>3. worker' = [wk EXCEPT ![w] = Enqueue(obj, "state", None)]
      BY <1>4, <2>5 DEF Terminal
    <3>4. obj \in WorkerObjects /\ obj.queue = wk[w].queue
      BY <2>1 DEF WorkerObjects
    <3>5. worker' \in [Worker -> WorkerObjects]
      BY <3>3, <3>4, Enqueued
    <3>6. Commands'
      BY <2>1, <2>4, <3>1, <3>3, <3>4, EnqueuedCommands DEF Commands
    <3> QED
      BY <1>2, <1>4, <2>2, <2>3, <3>2, <3>5, <3>6 DEF Typed, WritersExclusive
  <2>6. CASE ~found
    <3>1. cleanup' = [pc |-> "owned", worker |-> None, turn |-> t] /\ worker' = wk
      BY <1>4, <2>6 DEF Terminal
    <3>2. cleanup' \in Cleanups
      BY <2>1, <3>1, TurnLifecycleAssumption DEF Cleanups
    <3>3. Commands'
      BY <2>4, <3>1 DEF Commands
    <3> QED
      BY <1>2, <1>4, <2>2, <2>3, <3>1, <3>2, <3>3 DEF Typed, WritersExclusive
  <2> QED
    BY <2>5, <2>6
<1> QED
  BY <1>1, <1>3, <1>4

-----------------------------------------------------------------------------
(* Every step keeps the invariant.                                         *)

(* The prompt, read, mutation or state request at the head is answered.    *)
LEMMA AnswersKeep ==
  ASSUME IInv, NEW w \in Worker, Answers(w)
  PROVE  Typed' /\ WritersExclusive' /\ Commands'
<1> USE DEF IInv, TypeOK
<1>0. /\ worker[w].queue # <<>>
      /\ Answered(w) \in [Worker -> WorkerObjects]
      /\ CommandsOf(Answered(w), cleanup, mutation)
      /\ Exclusive(active, cleanup, mutation)
  <2>1. worker[w].queue # <<>>
    BY DEF Answers, PromptAnswered, PromptFails, ReadAnswered, MutateAnswered, StateAnswered, Heads
  <2> QED
    BY <2>1, AnsweredTyped, AnsweredCommands DEF Commands, Exclusive, WritersExclusive
<1> DEFINE t == Head(worker[w].queue).turn
<1>1. /\ t \in Turn \cup {None}
      /\ Head(worker[w].queue) = worker[w].queue[1] /\ 1 \in DOMAIN worker[w].queue
  BY <1>0, AnsweredTyped, HeadTyped
<1>2. ASSUME NEW p \in {"due", "over"} PROVE [turn EXCEPT ![t].prompt = p] \in [Turn -> TurnStates]
  BY DEF TurnStates
<1>3. CASE PromptAnswered(w)
  <2>1. PICK tn \in [Turn -> TurnStates] :
          Terminal(t, tn, Answered(w), cleanup) \/ Quiet(tn, Answered(w), cleanup)
    BY <1>2, <1>3 DEF PromptAnswered
  <2>2. mutation' = mutation
    BY <1>3 DEF PromptAnswered
  <2> QED
    BY <1>0, <1>1, <2>1, <2>2, EventKeeps
<1>4. CASE PromptFails(w)
  <2>1. PICK tn \in [Turn -> TurnStates] :
          Terminal(t, tn, Answered(w), cleanup) \/ Quiet(tn, Answered(w), cleanup)
    BY <1>2, <1>4 DEF PromptFails
  <2>2. mutation' = mutation
    BY <1>4 DEF PromptFails
  <2> QED
    BY <1>0, <1>1, <2>1, <2>2, EventKeeps
<1>5. CASE ReadAnswered(w)
  BY <1>0, <1>5 DEF ReadAnswered, Typed, Commands, WritersExclusive
<1>6. CASE MutateAnswered(w)
  <2>1. mutation.pc = "mutating" /\ mutation.worker = w /\ Unmarked(Answered(w)[w].queue)
    <3>1. Head(worker[w].queue).kind = "mutate"
      BY <1>6 DEF MutateAnswered, Heads
    <3>2. Unmarked(Answered(w)[w].queue)
      BY <1>0, <3>1, AnsweredCommands DEF Marked, Commands
    <3> QED
      BY <1>1, <3>1, <3>2 DEF Commands, CommandsOf, CommandsAt
  <2>2. mutation' = [mutation EXCEPT !.pc = "refresh"] /\ UNCHANGED <<active, cleanup, turn>>
    BY <1>6 DEF MutateAnswered
  <2>3. mutation' \in Mutations /\ mutation'.pc = "refresh" /\ mutation'.worker = w
    BY <2>1, <2>2 DEF Mutations
  <2>4. worker' = [Answered(w) EXCEPT ![w] = Enqueue(Answered(w)[w], "state", None)]
    BY <1>6 DEF MutateAnswered
  <2>5. worker' \in [Worker -> WorkerObjects]
    BY <1>0, <2>4, Enqueued
  <2>6. CommandsOf(Answered(w), cleanup, mutation')
    BY <1>0, <2>1, <2>2, <2>3, TurnLifecycleAssumption DEF CommandsOf, CommandsAt, Unmarked, Marked
  <2>7. Commands'
    BY <1>0, <2>1, <2>2, <2>3, <2>4, <2>6, EnqueuedCommands DEF Commands
  <2>8. WritersExclusive'
    BY <2>1, <2>2, TurnLifecycleAssumption DEF WritersExclusive, NoRefresh
  <2> QED
    BY <2>2, <2>3, <2>5, <2>7, <2>8 DEF Typed
<1>7. CASE StateAnswered(w)
  <2>1. Unmarked(Answered(w)[w].queue)
    BY <1>0, <1>7, AnsweredCommands DEF StateAnswered, Heads, Marked, Commands
  <2>2. cleanup.worker = w \/ (mutation.pc = "refresh" /\ mutation.worker = w)
    BY <1>1, <1>7 DEF StateAnswered, Heads, Commands, CommandsOf, CommandsAt
  <2>3. /\ worker' = Answered(w) /\ UNCHANGED <<active, turn>>
        /\ \/ cleanup.worker = w /\ cleanup' = NoRefresh /\ mutation' = mutation
           \/ cleanup.worker # w /\ mutation' = NoRefresh /\ cleanup' = cleanup
    BY <1>7 DEF StateAnswered
  <2>4. NoRefresh \in Cleanups /\ NoRefresh \in Mutations
    BY TurnLifecycleAssumption DEF NoRefresh, Cleanups, Mutations
  <2>5. Commands'
    BY <1>0, <2>1, <2>2, <2>3, TurnLifecycleAssumption
    DEF Commands, CommandsOf, CommandsAt, Unmarked, Marked, NoRefresh
  <2>6. WritersExclusive'
    BY <2>3 DEF WritersExclusive
  <2> QED
    BY <1>0, <2>3, <2>4, <2>5, <2>6 DEF Typed
<1> QED
  BY <1>3, <1>4, <1>5, <1>6, <1>7 DEF Answers

(* The thread is reserved, and let go again, by a turn and by a mutation.  *)
LEMMA AdmissionKeeps ==
  ASSUME IInv, \/ \E t \in Turn : Send(t) \/ Accept(t) \/ SendFails(t)
               \/ Mutate
               \/ \E w \in Worker : QueueRead(w) \/ Reassign(w)
  PROVE  Typed' /\ WritersExclusive' /\ Commands'
<1> USE TurnLifecycleAssumption DEF IInv, TypeOK
<1>1. ASSUME NEW t \in Turn, Send(t) PROVE Typed' /\ WritersExclusive' /\ Commands'
  BY <1>1 DEF Send, Admits, Typed, WritersExclusive, Commands, ActiveTurns
<1>2. ASSUME NEW t \in Turn, Accept(t) PROVE Typed' /\ WritersExclusive' /\ Commands'
  <2>1. PICK w \in Worker :
          /\ worker' = [worker EXCEPT ![w] =
                          Enqueue([worker[w] EXCEPT !.proc = "live", !.turn = t], "prompt", t)]
          /\ turn' = [turn EXCEPT ![t].worker = w, ![t].prompt = "queued"]
          /\ active' = [active EXCEPT !.worker = w]
    BY <1>2 DEF Accept
  <2> DEFINE obj == [worker[w] EXCEPT !.proc = "live", !.turn = t]
  <2>2. obj \in WorkerObjects /\ obj.queue = worker[w].queue
    BY DEF WorkerObjects
  <2>3. worker' \in [Worker -> WorkerObjects]
    BY <2>1, <2>2, Enqueued
  <2>4. CommandsOf(worker', cleanup, mutation)
    BY <2>1, <2>2, EnqueuedCommands DEF Commands, Marked
  <2>5. active.turn = t /\ UNCHANGED <<cleanup, mutation>>
    BY <1>2 DEF Accept
  <2>6. active' \in ActiveTurns
    BY <2>1, <2>5 DEF ActiveTurns
  <2>7. turn' \in [Turn -> TurnStates]
    BY ZenonT(60), <2>1 DEF TurnStates
  <2>8. cleanup = NoRefresh /\ mutation = NoRefresh
    BY <2>5 DEF WritersExclusive, NoTurn
  <2> QED
    BY <2>3, <2>4, <2>5, <2>6, <2>7, <2>8 DEF Typed, Commands, WritersExclusive
<1>3. ASSUME NEW t \in Turn, SendFails(t) PROVE Typed' /\ WritersExclusive' /\ Commands'
  BY <1>3 DEF SendFails, Typed, WritersExclusive, Commands, ActiveTurns, NoTurn
<1>4. CASE Mutate
  <2>1. PICK w \in Worker :
          /\ worker' = [worker EXCEPT ![w] =
                          Enqueue([worker[w] EXCEPT !.proc = "live"], "mutate", None)]
          /\ mutation' = [NoRefresh EXCEPT !.pc = "mutating", !.worker = w]
    BY <1>4 DEF Mutate
  <2>2. /\ active = NoTurn /\ cleanup = NoRefresh /\ mutation = NoRefresh
        /\ UNCHANGED <<active, cleanup, turn>>
    BY <1>4 DEF Mutate, Admits
  <2> DEFINE obj == [worker[w] EXCEPT !.proc = "live"]
  <2>3. obj \in WorkerObjects /\ obj.queue = worker[w].queue
    BY DEF WorkerObjects
  <2>4. worker' \in [Worker -> WorkerObjects]
    BY <2>1, <2>3, Enqueued
  <2>5. mutation' \in Mutations /\ mutation'.pc = "mutating" /\ mutation'.worker = w
    BY <2>1 DEF NoRefresh, Mutations
  <2>6. Unmarked(worker[w].queue) /\ CommandsOf(worker, cleanup, mutation')
    BY <2>2, NoneMarked DEF Commands
  <2>7. CommandsOf(worker', cleanup, mutation')
    BY <2>1, <2>3, <2>5, <2>6, EnqueuedCommands
  <2> QED
    BY <2>2, <2>4, <2>5, <2>7 DEF Typed, Commands, WritersExclusive
<1>5. ASSUME NEW w \in Worker, QueueRead(w) PROVE Typed' /\ WritersExclusive' /\ Commands'
  <2>1. worker' = [worker EXCEPT ![w] = Enqueue(worker[w], "read", None)]
    BY <1>5 DEF QueueRead
  <2>2. worker' \in [Worker -> WorkerObjects]
    BY <2>1, Enqueued
  <2>3. CommandsOf(worker', cleanup, mutation)
    BY <2>1, EnqueuedCommands DEF Commands, Marked
  <2> QED
    BY <1>5, <2>2, <2>3 DEF QueueRead, Typed, Commands, WritersExclusive
<1>6. ASSUME NEW w \in Worker, Reassign(w) PROVE Typed' /\ WritersExclusive' /\ Commands'
  <2>1. worker' = [worker EXCEPT ![w] = NoWorker] /\ UNCHANGED <<active, cleanup, mutation, turn>>
    BY <1>6 DEF Reassign
  <2>2. NoWorker \in WorkerObjects /\ NoWorker.queue = <<>>
    BY DEF NoWorker, WorkerObjects
  <2>3. Commands'
    BY <2>1, <2>2 DEF Commands, CommandsOf, CommandsAt
  <2> QED
    BY <2>1, <2>2, <2>3 DEF Typed, WritersExclusive
<1> QED
  BY <1>1, <1>2, <1>3, <1>4, <1>5, <1>6

(* Pi's runs, the abort and the refresh without a worker.                  *)
LEMMA RunsKeep ==
  ASSUME IInv, \/ \E t \in Turn : Abort(t) \/ AbortAnswered(t) \/ FinishAbort(t)
               \/ \E w \in Worker, t \in Turn : RunStarts(w, t) \/ RunSettles(w, t)
               \/ \E w \in Worker : PiWrites(w)
               \/ OwnedRefreshed
  PROVE  Typed' /\ WritersExclusive' /\ Commands'
<1> USE TurnLifecycleAssumption DEF IInv, TypeOK
<1>0. Exclusive(active, cleanup, mutation) /\ CommandsOf(worker, cleanup, mutation)
  BY DEF WritersExclusive, Exclusive, Commands
<1>1. ASSUME NEW u \in Worker \cup {None}, NEW x \in Turn \cup {None}, NEW wk,
             wk = [worker EXCEPT ![u].aborting = x]
      PROVE  /\ wk \in [Worker -> WorkerObjects]
             /\ \A cl, m : CommandsOf(worker, cl, m) => CommandsOf(wk, cl, m)
  <2>1. wk \in [Worker -> WorkerObjects]
    BY ZenonT(60), <1>1 DEF WorkerObjects
  <2>2. \A w \in Worker : wk[w].queue = worker[w].queue
    BY <1>1 DEF WorkerObjects
  <2> QED
    BY <2>1, <2>2 DEF CommandsOf
<1>2. ASSUME NEW t \in Turn, Abort(t) PROVE Typed' /\ WritersExclusive' /\ Commands'
  <2>1. worker' = [worker EXCEPT ![active.worker].aborting = t] /\ active.worker \in Worker
    BY <1>2 DEF Abort, Owner
  <2> QED
    BY <1>1, <1>2, <2>1 DEF Abort, Typed, WritersExclusive, Commands
<1>3. ASSUME NEW t \in Turn, AbortAnswered(t) PROVE Typed' /\ WritersExclusive' /\ Commands'
  <2>1. Terminal(t, turn, worker, cleanup) \/ Quiet(turn, worker, cleanup)
    BY <1>3 DEF AbortAnswered
  <2>2. mutation' = mutation
    BY <1>3 DEF AbortAnswered
  <2> QED
    BY <1>0, <2>1, <2>2, EventKeeps
<1>4. ASSUME NEW t \in Turn, FinishAbort(t) PROVE Typed' /\ WritersExclusive' /\ Commands'
  <2>1. \E x \in Turn \cup {None} : worker' = [worker EXCEPT ![turn[t].worker].aborting = x]
    <3>1. CASE turn[t].worker \in Worker
      <4>1. worker[turn[t].worker].aborting \in Turn \cup {None}
        BY <3>1 DEF WorkerObjects
      <4> QED
        BY <1>4, <4>1 DEF FinishAbort
    <3>2. CASE turn[t].worker \notin Worker
      <4>1. worker' = worker
        BY <1>4, <3>2 DEF FinishAbort
      <4> QED
        BY <3>2, <4>1
    <3> QED
      BY <3>1, <3>2
  <2>2. turn[t].worker \in Worker \cup {None}
    BY DEF TurnStates
  <2> QED
    BY <1>1, <1>4, <2>1, <2>2 DEF FinishAbort, Typed, WritersExclusive, Commands
<1>5. ASSUME NEW w \in Worker, NEW t \in Turn, RunStarts(w, t)
      PROVE  Typed' /\ WritersExclusive' /\ Commands'
  <2> DEFINE started == active.worker # None /\ active.turn = worker[w].turn
  <2>1. active' = [active EXCEPT !.ran = @ \/ started]
    BY <1>5 DEF RunStarts
  <2>2. (active.ran \/ started) \in BOOLEAN
    BY Zenon
  <2>3. active = NoTurn => ~started /\ ~active.ran
    BY DEF NoTurn
  <2>4. active' \in ActiveTurns /\ (active = NoTurn => active' = NoTurn)
    BY <2>1, <2>2, <2>3 DEF ActiveTurns, NoTurn
  <2>5. turn' \in [Turn -> TurnStates]
    BY <1>5 DEF RunStarts, TurnStates
  <2> QED
    BY <1>5, <2>4, <2>5 DEF RunStarts, Typed, WritersExclusive, Commands
<1>6. ASSUME NEW w \in Worker, NEW t \in Turn, RunSettles(w, t)
      PROVE  Typed' /\ WritersExclusive' /\ Commands'
  <2> DEFINE reported == worker[w].turn
  <2> DEFINE tn == [turn EXCEPT ![t].prompt = "over"]
  <2> DEFINE wk == [worker EXCEPT ![w].aborting = IF @ = reported THEN None ELSE @]
  <2>1. tn \in [Turn -> TurnStates] /\ reported \in Turn \cup {None}
    BY ZenonT(60) DEF TurnStates, WorkerObjects
  <2>2. \E x \in Turn \cup {None} : wk = [worker EXCEPT ![w].aborting = x]
    BY DEF WorkerObjects
  <2>3. wk \in [Worker -> WorkerObjects] /\ CommandsOf(wk, cleanup, mutation)
    BY <1>0, <1>1, <2>2
  <2>4. Terminal(reported, tn, wk, cleanup) \/ Quiet(tn, worker, cleanup)
    BY <1>6 DEF RunSettles
  <2>5. mutation' = mutation
    BY <1>6 DEF RunSettles
  <2> HIDE DEF tn, wk, reported
  <2>6. CASE Terminal(reported, tn, wk, cleanup)
    BY <1>0, <2>1, <2>3, <2>5, <2>6, EventKeeps
  <2>7. CASE Quiet(tn, worker, cleanup)
    BY <1>0, <2>1, <2>5, <2>7, EventKeeps
  <2> QED
    BY <2>4, <2>6, <2>7
<1>7. ASSUME NEW w \in Worker, PiWrites(w) PROVE Typed' /\ WritersExclusive' /\ Commands'
  BY <1>7 DEF PiWrites, Typed, WritersExclusive, Commands
<1>8. CASE OwnedRefreshed
  <2>1. NoRefresh \in Cleanups /\ NoRefresh \in Mutations
    BY DEF NoRefresh, Cleanups, Mutations
  <2>2. /\ UNCHANGED <<active, turn, worker>>
        /\ \/ cleanup.pc = "owned" /\ cleanup' = NoRefresh /\ mutation' = mutation
           \/ mutation.pc = "owned" /\ mutation' = NoRefresh /\ cleanup' = cleanup
    BY <1>8 DEF OwnedRefreshed
  <2>3. Commands'
    BY <2>2 DEF Commands, CommandsOf, CommandsAt, Cleanups, Mutations
  <2> QED
    BY <2>1, <2>2, <2>3 DEF Typed, WritersExclusive
<1> QED
  BY <1>2, <1>3, <1>4, <1>5, <1>6, <1>7, <1>8

(* A worker that goes takes its commands with it, and the refresh or the   *)
(* mutation that they were of is given up or goes on without it.           *)
LEMMA LossKeeps ==
  ASSUME IInv, NEW w \in Worker, TimesOut(w) \/ Close(w)
  PROVE  Typed' /\ WritersExclusive' /\ Commands'
<1> USE TurnLifecycleAssumption DEF IInv, TypeOK
<1> DEFINE tn == TurnsLost(w)
<1> DEFINE cl == CleanupLost(w)
<1> DEFINE m == MutationLost(w)
<1>1. tn \in [Turn -> TurnStates]
  BY DEF TurnsLost, TurnStates
<1>2. cl \in Cleanups /\ (cleanup = NoRefresh => cl = NoRefresh)
      /\ (cl = cleanup \/ (cleanup.worker = w /\ cl = NoRefresh))
  BY DEF CleanupLost, Cleanups, NoRefresh
<1>3. m \in Mutations /\ (mutation = NoRefresh => m = NoRefresh)
      /\ (m = mutation \/ mutation.worker = w)
  BY DEF MutationLost, Mutations, NoRefresh
<1>4. Exclusive(active, cl, m)
  BY <1>2, <1>3 DEF WritersExclusive, Exclusive
<1>5. ASSUME NEW wk \in [Worker -> WorkerObjects], wk[w].queue = <<>>,
             \A u \in Worker : u # w => wk[u] = worker[u]
      PROVE  CommandsOf(wk, cl, m)
  <2>1. ASSUME NEW u \in Worker, u # w PROVE CommandsAt(worker[u].queue, u, cl, m)
    BY <1>2, <1>3, <2>1 DEF Commands, CommandsOf, CommandsAt
  <2>2. CommandsAt(<<>>, w, cl, m)
    BY DEF CommandsAt
  <2> QED
    BY <1>5, <2>1, <2>2 DEF CommandsOf
<1>6. \E wk \in [Worker -> WorkerObjects], t \in Turn \cup {None} :
        /\ wk[w].queue = <<>> /\ \A u \in Worker : u # w => wk[u] = worker[u]
        /\ Terminal(t, tn, wk, cl) \/ Quiet(tn, wk, cl)
  <2>1. CASE TimesOut(w)
    <3> DEFINE obj == [worker[w] EXCEPT !.proc = "killed", !.queue = <<>>, !.aborting = None]
    <3> DEFINE wk == [worker EXCEPT ![w] = obj]
    <3>0. <<>> \in Queues
      BY DEF Queues
    <3>1. obj \in WorkerObjects /\ obj.queue = <<>>
      BY <3>0 DEF WorkerObjects, Queues, Entries
    <3>2. active.turn \in Turn \cup {None}
      BY DEF ActiveTurns
    <3>3. Terminal(active.turn, tn, wk, cl) \/ Quiet(tn, wk, cl)
      BY <2>1 DEF TimesOut
    <3> HIDE DEF obj
    <3>4. wk \in [Worker -> WorkerObjects] /\ wk[w].queue = <<>>
          /\ \A u \in Worker : u # w => wk[u] = worker[u]
      BY <3>1
    <3> HIDE DEF wk
    <3> QED
      BY <3>2, <3>3, <3>4
  <2>2. CASE Close(w)
    <3> DEFINE wk == [worker EXCEPT ![w] = NoWorker]
    <3>1. NoWorker \in WorkerObjects /\ NoWorker.queue = <<>>
      BY DEF NoWorker, WorkerObjects
    <3>2. worker[w].turn \in Turn \cup {None}
      BY DEF WorkerObjects
    <3>3. Terminal(worker[w].turn, tn, wk, cl) \/ Quiet(tn, wk, cl)
      BY <2>2 DEF Close
    <3>4. wk \in [Worker -> WorkerObjects] /\ wk[w].queue = <<>>
          /\ \A u \in Worker : u # w => wk[u] = worker[u]
      BY <3>1
    <3> HIDE DEF wk
    <3> QED
      BY <3>2, <3>3, <3>4
  <2> QED
    BY <2>1, <2>2
<1>7. mutation' = m
  BY DEF TimesOut, Close
<1> HIDE DEF tn, cl, m
<1> QED
  BY <1>1, <1>2, <1>3, <1>4, <1>5, <1>6, <1>7, EventKeeps

(* The invariant is inductive.                                             *)
LEMMA Inductive == ASSUME IInv, [Next]_vars PROVE IInv'
<1> USE DEF IInv
<1>1. CASE UNCHANGED vars
  BY <1>1 DEF vars, TypeOK, WritersExclusive, Commands
<1>2. CASE Next
  <2>1. Typed' /\ WritersExclusive' /\ Commands'
    <3>1. ASSUME NEW w \in Worker, Answers(w) PROVE Typed' /\ WritersExclusive' /\ Commands'
      BY <3>1, AnswersKeep
    <3>2. ASSUME NEW w \in Worker, TimesOut(w) \/ Close(w)
          PROVE  Typed' /\ WritersExclusive' /\ Commands'
      BY <3>2, LossKeeps
    <3> QED
      BY <1>2, <3>1, <3>2, AdmissionKeeps, RunsKeep DEF Next
  <2>2. abort' \in [Turn -> [pc : {"none", "sent", "settling", "over"}, awaits : Turn \cup {None}]]
    <3>1. ASSUME NEW t \in Turn, Abort(t) \/ FinishAbort(t)
          PROVE  abort' \in [Turn -> [pc : {"none", "sent", "settling", "over"}, awaits : Turn \cup {None}]]
      BY <3>1 DEF TypeOK, Abort, FinishAbort
    <3>2. ASSUME NEW t \in Turn, AbortAnswered(t)
          PROVE  abort' \in [Turn -> [pc : {"none", "sent", "settling", "over"}, awaits : Turn \cup {None}]]
      <4>1. cleanup'.turn \in Turn \cup {None}
        BY <2>1 DEF Typed, Cleanups
      <4> QED
        BY <3>2, <4>1 DEF TypeOK, AbortAnswered
    <3>3. ASSUME NEW w \in Worker, TimesOut(w) \/ Close(w)
          PROVE  abort' \in [Turn -> [pc : {"none", "sent", "settling", "over"}, awaits : Turn \cup {None}]]
      BY <3>3 DEF TypeOK, TimesOut, Close, AbortsLost
    <3>4. ASSUME UNCHANGED abort
          PROVE  abort' \in [Turn -> [pc : {"none", "sent", "settling", "over"}, awaits : Turn \cup {None}]]
      BY <3>4 DEF TypeOK
    <3> QED
      BY ZenonT(60), <1>2, <3>1, <3>2, <3>3, <3>4
      DEF Next, Answers, Send, Accept, SendFails, PromptAnswered, PromptFails, ReadAnswered,
        MutateAnswered, StateAnswered, QueueRead, Reassign, PiWrites, RunStarts, RunSettles,
        Mutate, OwnedRefreshed
  <2>3. baseline' \in BOOLEAN /\ dirty' \in BOOLEAN
    BY ZenonT(60), <1>2
    DEF TypeOK, Next, Answers, Send, Accept, SendFails, Abort, AbortAnswered, FinishAbort,
      PromptAnswered, PromptFails, ReadAnswered, MutateAnswered, StateAnswered, QueueRead,
      Reassign, PiWrites, TimesOut, Close, RunStarts, RunSettles, Mutate, OwnedRefreshed
  <2>4. faults' \in 0..MaxFaults
    <3>1. ASSUME NEW w \in Worker, TimesOut(w) \/ Close(w) PROVE faults' \in 0..MaxFaults
      BY <3>1, TurnLifecycleAssumption DEF TypeOK, TimesOut, Close
    <3>2. ASSUME UNCHANGED faults PROVE faults' \in 0..MaxFaults
      BY <3>2 DEF TypeOK
    <3> QED
      BY <1>2, <3>1, <3>2
      DEF Next, Answers, Send, Accept, SendFails, Abort, AbortAnswered, FinishAbort,
        PromptAnswered, PromptFails, ReadAnswered, MutateAnswered, StateAnswered, QueueRead,
        Reassign, PiWrites, RunStarts, RunSettles, Mutate, OwnedRefreshed
  <2> QED
    BY <2>1, <2>2, <2>3, <2>4 DEF Typed, TypeOK
<1> QED
  BY <1>1, <1>2

-----------------------------------------------------------------------------
(* The theorems.                                                           *)

(* The invariant holds in the beginning, and so for ever.                  *)
LEMMA Invariant == Spec => []IInv
<1>1. ASSUME Init PROVE IInv
  <2>1. TypeOK
    <3>1. active \in ActiveTurns /\ cleanup \in Cleanups /\ mutation \in Mutations
      BY <1>1, TurnLifecycleAssumption
      DEF Init, NoTurn, NoRefresh, ActiveTurns, Cleanups, Mutations
    <3>2. /\ turn \in [Turn -> TurnStates] /\ worker \in [Worker -> WorkerObjects]
          /\ abort \in [Turn -> [pc : {"none", "sent", "settling", "over"}, awaits : Turn \cup {None}]]
      BY <1>1 DEF Init, NoWorker, NoAbort, TurnStates, WorkerObjects
    <3>3. faults \in 0..MaxFaults
      BY <1>1, TurnLifecycleAssumption DEF Init
    <3> QED
      BY <1>1, <3>1, <3>2, <3>3 DEF Init, TypeOK
  <2>2. Commands
    BY <1>1 DEF Init, NoWorker, Commands, CommandsOf, CommandsAt
  <2> QED
    BY <1>1, <2>1, <2>2 DEF Init, WritersExclusive, IInv
<1> QED
  BY <1>1, Inductive, PTL DEF Spec

(* Every field holds what its declaration says, whatever the workers do.   *)
THEOREM TypeCorrect == Spec => []TypeOK
  BY Invariant, PTL DEF IInv

(* send and withSessionMutation admit a turn or a mutation only beside     *)
(* neither of the others, and nothing that happens later, not the loss of  *)
(* a worker either, brings two of them together.                           *)
THEOREM Exclusion == Spec => []WritersExclusive
  BY Invariant, PTL DEF IInv

-----------------------------------------------------------------------------
(* Whose the workers, their commands and their marks are.                  *)

(* A prompt in the queue of w is that of a turn that w was given.          *)
PromptsAt(q, w, tn) ==
  \A i \in DOMAIN q : q[i].kind = "prompt" => q[i].turn \in Turn /\ tn[q[i].turn].worker = w

(* A turn that a worker names was given that worker; on a live one it is   *)
(* the active turn.  An abort mark is that of an abort under way.          *)
MarksAt(obj, w, ac, tn, ab) ==
  /\ obj.turn # None => tn[obj.turn].worker = w /\ (obj.proc = "live" => ac.turn = obj.turn)
  /\ obj.aborting # None => /\ tn[obj.aborting].worker = w
                            /\ ab[obj.aborting].pc \in {"sent", "settling"}

(* A turn that has ended, or is being aborted, was given a worker, and one *)
(* that has ended is not active.                                           *)
TurnAt(t, ac, tn, ab) ==
  /\ tn[t].ended > 0 => tn[t].worker # None /\ ac.turn # t
  /\ ab[t].pc # "none" => tn[t].worker # None

Owned(ac, tn, wk, ab) ==
  /\ ac.turn # None => tn[ac.turn].worker = ac.worker
  /\ \A t \in Turn : TurnAt(t, ac, tn, ab)
  /\ \A w \in Worker :
       /\ PromptsAt(wk[w].queue, w, tn)
       /\ MarksAt(wk[w], w, ac, tn, ab)
       /\ wk[w].proc # "live" => wk[w].queue = <<>>

(* The active turn's worker knows its turn, dead or alive.                 *)
Known(ac, wk) == ac.worker # None => wk[ac.worker].turn = ac.turn

Owns == Owned(active, turn, worker, abort) /\ Known(active, worker)

AbortStates == [pc : {"none", "sent", "settling", "over"}, awaits : Turn \cup {None}]

(* A step that gives no turn a worker, and no worker a turn, leaves them   *)
(* where they were.                                                        *)
LEMMA OwnedKept ==
  ASSUME TypeOK, Owned(active, turn, worker, abort),
         NEW ac, ac.turn = active.turn, ac.worker = active.worker,
         NEW tn, \A t \in Turn : tn[t].worker = turn[t].worker /\ tn[t].ended = turn[t].ended,
         NEW ab, \A t \in Turn : ab[t].pc # "none" => turn[t].worker # None,
         NEW wk \in [Worker -> WorkerObjects],
         \A w \in Worker :
           /\ wk[w].turn = None \/ (wk[w].turn = worker[w].turn
                                    /\ (wk[w].proc = "live" => worker[w].proc = "live"))
           /\ wk[w].aborting # None => /\ turn[wk[w].aborting].worker = w
                                       /\ ab[wk[w].aborting].pc \in {"sent", "settling"}
           /\ PromptsAt(wk[w].queue, w, turn)
           /\ wk[w].proc # "live" => wk[w].queue = <<>>
  PROVE  Owned(ac, tn, wk, ab)
<1>1. active.turn \in Turn \cup {None}
  BY DEF TypeOK, ActiveTurns
<1>2. ac.turn # None => tn[ac.turn].worker = ac.worker
  BY <1>1 DEF Owned
<1>3. ASSUME NEW t \in Turn PROVE TurnAt(t, ac, tn, ab)
  <2>1. TurnAt(t, active, turn, abort)
    BY DEF Owned
  <2> QED
    BY <2>1 DEF TurnAt
<1>4. ASSUME NEW w \in Worker
      PROVE  /\ PromptsAt(wk[w].queue, w, tn)
             /\ MarksAt(wk[w], w, ac, tn, ab)
             /\ wk[w].proc # "live" => wk[w].queue = <<>>
  <2>1. wk[w].turn \in Turn \cup {None} /\ wk[w].aborting \in Turn \cup {None}
    BY DEF WorkerObjects
  <2>2. PromptsAt(wk[w].queue, w, tn)
    BY DEF PromptsAt
  <2>3. MarksAt(worker[w], w, active, turn, abort)
    BY DEF Owned
  <2>4. wk[w].turn # None => tn[wk[w].turn].worker = w /\ (wk[w].proc = "live" => ac.turn = wk[w].turn)
    BY <2>1, <2>3 DEF MarksAt
  <2> QED
    BY <2>1, <2>2, <2>4 DEF MarksAt
<1> QED
  BY <1>2, <1>3, <1>4 DEF Owned

(* The prompts of a queue with a command taken off, or added.              *)
LEMMA PromptsTail ==
  ASSUME NEW q \in Queues, q # <<>>, NEW w, NEW tn, PromptsAt(q, w, tn)
  PROVE  /\ PromptsAt(Tail(q), w, tn)
         /\ Head(q).kind = "prompt" => Head(q).turn \in Turn /\ tn[Head(q).turn].worker = w
<1>1. /\ DOMAIN Tail(q) = 1..(Len(q) - 1) /\ DOMAIN q = 1..Len(q)
      /\ \A i \in 1..(Len(q) - 1) : Tail(q)[i] = q[i + 1]
      /\ Head(q) = q[1] /\ Len(q) \in Nat \ {0}
  BY DEF Queues
<1>2. \A i \in DOMAIN Tail(q) : i + 1 \in DOMAIN q /\ Tail(q)[i] = q[i + 1]
  BY <1>1
<1>3. 1 \in DOMAIN q
  BY <1>1
<1> QED
  BY <1>1, <1>2, <1>3 DEF PromptsAt

(* A prompt may be added that is for a turn of the worker.                 *)
LEMMA PromptsAppend ==
  ASSUME NEW q \in Queues, NEW w, NEW tn, PromptsAt(q, w, tn), NEW kind, NEW t,
         kind = "prompt" => t \in Turn /\ tn[t].worker = w
  PROVE  PromptsAt(Append(q, Command(kind, t)), w, tn)
<1> DEFINE new == Append(q, Command(kind, t))
<1>1. /\ DOMAIN new = 1..(Len(q) + 1) /\ DOMAIN q = 1..Len(q) /\ Len(q) \in Nat
      /\ \A i \in 1..Len(q) : new[i] = q[i]
      /\ new[Len(q) + 1] = Command(kind, t)
  BY DEF Queues
<1> HIDE DEF new
<1> SUFFICES ASSUME NEW i \in DOMAIN new, new[i].kind = "prompt"
             PROVE  new[i].turn \in Turn /\ tn[new[i].turn].worker = w
  BY DEF PromptsAt, new
<1>2. CASE i \in DOMAIN q
  BY <1>1, <1>2 DEF PromptsAt
<1>3. CASE i = Len(q) + 1
  BY <1>1, <1>3 DEF Command
<1> QED
  BY <1>1, <1>2, <1>3

(* After a terminal event nobody holds on to the turn it ends.             *)
LEMMA EventOwns ==
  ASSUME TypeOK, NEW t \in Turn, NEW tn \in [Turn -> TurnStates],
         NEW wk \in [Worker -> WorkerObjects], NEW cl,
         Owned(active, tn, wk, abort'), tn[t].worker # None,
         active.turn = t => active.worker # None, Known(active, wk) \/ active.turn = t,
         Terminal(t, tn, wk, cl)
  PROVE  Owns'
<1> DEFINE w == active.worker
<1> DEFINE obj == [wk[w] EXCEPT !.turn = None]
<1>0. active.turn \in Turn \cup {None} /\ w \in Worker \cup {None}
  BY DEF TypeOK, ActiveTurns
<1>1. /\ \A x \in Turn : turn'[x].worker = tn[x].worker
      /\ \A x \in Turn : x # t => turn'[x].ended = tn[x].ended
  <2>1. turn' = [tn EXCEPT ![t].ended = @ + 1]
    BY DEF Terminal
  <2> QED
    BY <2>1 DEF TurnStates
<1>2. active' = (IF active.turn = t /\ w # None THEN NoTurn ELSE active)
  BY DEF Terminal
<1>3. active'.turn # None => active' = active /\ active.turn # t
  BY <1>2, TurnLifecycleAssumption DEF NoTurn
<1>4. active'.turn # None => turn'[active'.turn].worker = active'.worker
  BY <1>0, <1>1, <1>3 DEF Owned
<1>5. \A x \in Turn : TurnAt(x, active', turn', abort')
  <2> SUFFICES ASSUME NEW x \in Turn PROVE TurnAt(x, active', turn', abort')
    OBVIOUS
  <2>1. TurnAt(x, active, tn, abort')
    BY DEF Owned
  <2>2. active'.turn = x => active.turn = x /\ x # t
    BY <1>3, TurnLifecycleAssumption
  <2> QED
    BY <1>1, <2>1, <2>2 DEF TurnAt
<1>6. ASSUME NEW u \in Worker
      PROVE  /\ PromptsAt(worker'[u].queue, u, turn')
             /\ MarksAt(worker'[u], u, active', turn', abort')
             /\ worker'[u].proc # "live" => worker'[u].queue = <<>>
  <2>0. /\ PromptsAt(wk[u].queue, u, tn) /\ MarksAt(wk[u], u, active, tn, abort')
        /\ wk[u].proc # "live" => wk[u].queue = <<>>
        /\ wk[u].turn \in Turn \cup {None} /\ wk[u].aborting \in Turn \cup {None}
    BY DEF Owned, WorkerObjects
  <2>1. \A q : PromptsAt(q, u, tn) => PromptsAt(q, u, turn')
    BY <1>1 DEF PromptsAt
  <2>2. CASE worker'[u] = wk[u] /\ (wk[u].turn # None /\ wk[u].proc = "live" => active' = active)
    <3>1. wk[u].turn # None => turn'[wk[u].turn].worker = u
                               /\ (wk[u].proc = "live" => active'.turn = wk[u].turn)
      BY <1>1, <2>0, <2>2 DEF MarksAt
    <3>2. wk[u].aborting # None => /\ turn'[wk[u].aborting].worker = u
                                   /\ abort'[wk[u].aborting].pc \in {"sent", "settling"}
      BY <1>1, <2>0 DEF MarksAt
    <3> QED
      BY <2>0, <2>1, <2>2, <3>1, <3>2 DEF MarksAt
  <2>3. CASE active' # active /\ u # w
    <3>1. worker'[u] = wk[u]
      BY <2>3 DEF Terminal
    <3>2. active.turn = t /\ tn[t].worker = w
      BY <1>2, <2>3, TurnLifecycleAssumption DEF Owned
    <3>3. ~(wk[u].turn # None /\ wk[u].proc = "live")
      BY <2>0, <2>3, <3>2 DEF MarksAt
    <3> QED
      BY <2>2, <3>1, <3>3
  <2>4. CASE active' # active /\ u = w /\ wk[w].proc = "live"
    <3>1. obj \in WorkerObjects /\ obj.queue = wk[u].queue /\ obj.turn = None
          /\ obj.aborting = wk[u].aborting /\ obj.proc = "live"
      BY <2>4 DEF WorkerObjects
    <3>2. worker' = [wk EXCEPT ![w] = Enqueue(obj, "state", None)]
      BY <1>2, <2>4 DEF Terminal
    <3>3. worker'[u] = Enqueue(obj, "state", None)
      BY <2>4, <3>2
    <3> HIDE DEF obj
    <3>4. /\ Enqueue(obj, "state", None).queue = Append(obj.queue, Command("state", None))
          /\ obj.queue \in Queues
      BY <3>1, Enqueued
    <3>5. /\ worker'[u].turn = None /\ worker'[u].aborting = wk[u].aborting
          /\ worker'[u].proc = "live"
      BY <3>1, <3>3 DEF Enqueue, WorkerObjects
    <3>6. PromptsAt(worker'[u].queue, u, tn)
      BY <2>0, <3>1, <3>3, <3>4, PromptsAppend
    <3>7. wk[u].aborting # None => /\ turn'[wk[u].aborting].worker = u
                                   /\ abort'[wk[u].aborting].pc \in {"sent", "settling"}
      BY <1>1, <2>0 DEF MarksAt
    <3> QED
      BY <2>1, <3>5, <3>6, <3>7 DEF MarksAt
  <2>5. CASE active' # active /\ u = w /\ wk[w].proc # "live"
    <3>1. worker'[u] = wk[u]
      BY <2>5 DEF Terminal
    <3> QED
      BY <2>2, <2>5, <3>1
  <2>6. CASE active' = active
    <3>1. ~(active.turn = t /\ w # None)
      BY <1>2, <2>6, TurnLifecycleAssumption DEF NoTurn
    <3>2. worker'[u] = wk[u]
      BY <3>1 DEF Terminal
    <3> QED
      BY <2>2, <2>6, <3>2
  <2> QED
    BY <2>3, <2>4, <2>5, <2>6
<1>7. Known(active', worker')
  <2>1. CASE active.turn = t
    BY <1>2, <2>1 DEF Known, NoTurn
  <2>2. CASE active.turn # t
    BY <2>2 DEF Known, Terminal
  <2> QED
    BY <2>1, <2>2
<1> QED
  BY <1>4, <1>5, <1>6, <1>7 DEF Owns, Owned

-----------------------------------------------------------------------------
(* Every step keeps Owns.                                                  *)

(* The worker objects as they are.                                         *)
LEMMA OwnsFacts ==
  ASSUME TypeOK, Owned(active, turn, worker, abort)
  PROVE  /\ active.turn \in Turn \cup {None}
         /\ active.turn = None => active = NoTurn
         /\ active.turn # None => turn[active.turn].worker = active.worker
         /\ \A t \in Turn : /\ abort[t].pc # "none" => turn[t].worker # None
                            /\ turn[t].worker \in Worker \cup {None}
                            /\ turn[t].ended > 0 => turn[t].worker # None /\ active.turn # t
         /\ \A w \in Worker :
              /\ worker[w].turn \in Turn \cup {None}
              /\ worker[w].aborting \in Turn \cup {None}
              /\ worker[w].queue \in Queues
              /\ PromptsAt(worker[w].queue, w, turn)
              /\ worker[w].proc # "live" => worker[w].queue = <<>>
              /\ worker[w].turn # None => /\ turn[worker[w].turn].worker = w
                                          /\ worker[w].proc = "live" => active.turn = worker[w].turn
              /\ worker[w].aborting # None =>
                   /\ turn[worker[w].aborting].worker = w
                   /\ abort[worker[w].aborting].pc \in {"sent", "settling"}
<1>1. active.turn \in Turn \cup {None} /\ (active.turn = None => active = NoTurn)
  BY DEF TypeOK, ActiveTurns
<1>2. ASSUME NEW t \in Turn
      PROVE  /\ abort[t].pc # "none" => turn[t].worker # None
             /\ turn[t].worker \in Worker \cup {None}
             /\ turn[t].ended > 0 => turn[t].worker # None /\ active.turn # t
  <2>1. TurnAt(t, active, turn, abort)
    BY DEF Owned
  <2> QED
    BY <2>1 DEF TurnAt, TypeOK, TurnStates
<1>3. ASSUME NEW w \in Worker
      PROVE  /\ worker[w].turn \in Turn \cup {None}
             /\ worker[w].aborting \in Turn \cup {None}
             /\ worker[w].queue \in Queues
             /\ PromptsAt(worker[w].queue, w, turn)
             /\ worker[w].proc # "live" => worker[w].queue = <<>>
             /\ worker[w].turn # None => /\ turn[worker[w].turn].worker = w
                                         /\ worker[w].proc = "live" => active.turn = worker[w].turn
             /\ worker[w].aborting # None =>
                  /\ turn[worker[w].aborting].worker = w
                  /\ abort[worker[w].aborting].pc \in {"sent", "settling"}
  <2>1. /\ worker[w].turn \in Turn \cup {None} /\ worker[w].aborting \in Turn \cup {None}
        /\ worker[w].queue \in Queues
    BY DEF TypeOK, WorkerObjects, Queues, Entries
  <2>2. /\ PromptsAt(worker[w].queue, w, turn) /\ MarksAt(worker[w], w, active, turn, abort)
        /\ worker[w].proc # "live" => worker[w].queue = <<>>
    BY DEF Owned
  <2> QED
    BY <2>1, <2>2 DEF MarksAt
<1> QED
  BY <1>1, <1>2, <1>3 DEF Owned

(* One worker's object changes.                                            *)
LEMMA OwnedAt ==
  ASSUME TypeOK, Owned(active, turn, worker, abort), NEW w \in Worker,
         NEW obj \in WorkerObjects,
         obj.turn = None \/ (obj.turn = worker[w].turn
                              /\ (obj.proc = "live" => worker[w].proc = "live")),
         obj.aborting = None \/ obj.aborting = worker[w].aborting,
         PromptsAt(obj.queue, w, turn), obj.proc # "live" => obj.queue = <<>>,
         NEW tn, \A t \in Turn : tn[t].worker = turn[t].worker /\ tn[t].ended = turn[t].ended
  PROVE  Owned(active, tn, [worker EXCEPT ![w] = obj], abort)
<1> DEFINE wk == [worker EXCEPT ![w] = obj]
<1>1. /\ wk \in [Worker -> WorkerObjects] /\ wk[w] = obj
      /\ \A u \in Worker : u # w => wk[u] = worker[u]
  BY DEF TypeOK
<1> HIDE DEF wk
<1>2. ASSUME NEW u \in Worker
      PROVE  /\ wk[u].turn = None \/ (wk[u].turn = worker[u].turn
                                      /\ (wk[u].proc = "live" => worker[u].proc = "live"))
             /\ wk[u].aborting # None => /\ turn[wk[u].aborting].worker = u
                                         /\ abort[wk[u].aborting].pc \in {"sent", "settling"}
             /\ PromptsAt(wk[u].queue, u, turn)
             /\ wk[u].proc # "live" => wk[u].queue = <<>>
  <2>1. CASE u = w
    BY <1>1, <2>1, OwnsFacts
  <2>2. CASE u # w
    BY <1>1, <2>2, OwnsFacts
  <2> QED
    BY <2>1, <2>2
<1>3. Owned(active, tn, wk, abort)
  BY SMTT(30), <1>1, <1>2, OwnsFacts, OwnedKept
<1> QED
  BY <1>3 DEF wk

(* A worker with one command less.                                         *)
LEMMA OwnedAnswered ==
  ASSUME TypeOK, Owns, NEW w \in Worker, worker[w].queue # <<>>,
         NEW tn, \A t \in Turn : tn[t].worker = turn[t].worker /\ tn[t].ended = turn[t].ended
  PROVE  /\ Owned(active, tn, Answered(w), abort) /\ Known(active, Answered(w))
         /\ Answered(w) \in [Worker -> WorkerObjects]
         /\ worker[w].proc = "live" /\ Answered(w)[w].proc = "live"
         /\ Answered(w)[w].turn = worker[w].turn
         /\ Head(worker[w].queue).kind = "prompt" =>
              Head(worker[w].queue).turn \in Turn /\ turn[Head(worker[w].queue).turn].worker = w
<1> DEFINE obj == [worker[w] EXCEPT !.queue = Tail(worker[w].queue)]
<1>1. worker \in [Worker -> WorkerObjects] /\ Owned(active, turn, worker, abort)
  BY DEF TypeOK, Owns
<1>2. /\ Answered(w) \in [Worker -> WorkerObjects]
      /\ worker[w].queue \in Queues
  BY <1>1, AnsweredTyped
<1>3. Answered(w) = [worker EXCEPT ![w] = obj]
  BY DEF Answered
<1>4. obj \in WorkerObjects
  BY <1>1, <1>2, <1>3
<1>5. /\ obj.queue = Tail(worker[w].queue) /\ obj.turn = worker[w].turn
      /\ obj.proc = worker[w].proc /\ obj.aborting = worker[w].aborting
  BY <1>1 DEF WorkerObjects
<1>6. worker[w].proc = "live" /\ PromptsAt(worker[w].queue, w, turn)
  BY <1>1, OwnsFacts
<1>7. /\ PromptsAt(Tail(worker[w].queue), w, turn)
      /\ Head(worker[w].queue).kind = "prompt" =>
           Head(worker[w].queue).turn \in Turn /\ turn[Head(worker[w].queue).turn].worker = w
  BY <1>2, <1>6, PromptsTail
<1>8. /\ Answered(w)[w] = obj
      /\ \A u \in Worker : u # w => Answered(w)[u] = worker[u]
  BY <1>1, <1>3
<1> HIDE DEF obj
<1>9. Owned(active, tn, Answered(w), abort)
  BY ZenonT(60), <1>1, <1>3, <1>4, <1>5, <1>6, <1>7, OwnedAt
<1>10. Known(active, Answered(w))
  <2>1. active.worker \in Worker \cup {None}
    BY DEF TypeOK, ActiveTurns
  <2> QED
    BY <1>5, <1>8, <2>1 DEF Owns, Known
<1> QED
  BY <1>2, <1>5, <1>6, <1>7, <1>8, <1>9, <1>10

(* A live worker gets a command that is no prompt.                         *)
LEMMA OwnedEnqueued ==
  ASSUME TypeOK, Owned(active, turn, worker, abort), NEW w \in Worker, NEW obj \in WorkerObjects,
         obj.proc = "live", obj.aborting = None \/ obj.aborting = worker[w].aborting,
         PromptsAt(obj.queue, w, turn),
         obj.turn = None \/ (obj.turn = worker[w].turn /\ worker[w].proc = "live"),
         NEW kind \in {"read", "mutate", "state"}
  PROVE  Owned(active, turn, [worker EXCEPT ![w] = Enqueue(obj, kind, None)], abort)
<1> DEFINE more == Enqueue(obj, kind, None)
<1>1. /\ more \in WorkerObjects /\ more.queue = Append(obj.queue, Command(kind, None))
      /\ obj.queue \in Queues
  BY Enqueued
<1>2. more.proc = "live" /\ more.turn = obj.turn /\ more.aborting = obj.aborting
  BY DEF Enqueue, WorkerObjects
<1>3. PromptsAt(more.queue, w, turn)
  BY <1>1, PromptsAppend
<1> HIDE DEF more
<1>4. Owned(active, turn, [worker EXCEPT ![w] = more], abort)
  BY <1>1, <1>2, <1>3, OwnedAt
<1> QED
  BY <1>4 DEF more

(* Admission, and what the pool does with idle workers.                    *)
LEMMA AdmissionOwns ==
  ASSUME IInv, Owns, \/ \E t \in Turn : Send(t) \/ Accept(t) \/ SendFails(t)
                     \/ Mutate
                     \/ \E w \in Worker : QueueRead(w) \/ Reassign(w)
  PROVE  Owns'
<1> USE TurnLifecycleAssumption
<1>0. TypeOK /\ Owned(active, turn, worker, abort) /\ Known(active, worker)
      /\ worker \in [Worker -> WorkerObjects] /\ turn \in [Turn -> TurnStates]
      /\ active.worker \in Worker \cup {None}
  BY DEF IInv, Owns, TypeOK, ActiveTurns
<1>1. ASSUME NEW t \in Turn, Send(t) PROVE Owns'
  <2>1. active = NoTurn /\ turn[t].worker = None
    BY <1>1, Zenon DEF Send, Admits
  <2>2. active' = [turn |-> t, worker |-> None, ran |-> FALSE]
        /\ turn' = turn /\ worker' = worker /\ abort' = abort
    BY <1>1 DEF Send
  <2>3. active.turn = None
    BY <2>1 DEF NoTurn
  <2>4. active'.turn = t /\ active'.worker = None
    BY <2>2
  <2>5. ASSUME NEW x \in Turn PROVE TurnAt(x, active', turn, abort)
    <3>1. turn[x].ended > 0 => turn[x].worker # None
      BY <1>0, OwnsFacts
    <3>2. abort[x].pc # "none" => turn[x].worker # None
      BY <1>0, OwnsFacts
    <3> QED
      BY <2>1, <2>4, <3>1, <3>2 DEF TurnAt
  <2>6. ASSUME NEW w \in Worker PROVE MarksAt(worker[w], w, active', turn, abort)
    BY <1>0, <2>3, OwnsFacts DEF MarksAt
  <2>7. \A w \in Worker : /\ PromptsAt(worker[w].queue, w, turn)
                          /\ worker[w].proc # "live" => worker[w].queue = <<>>
    BY <1>0 DEF Owned
  <2>8. Owned(active', turn, worker, abort)
    BY <2>1, <2>4, <2>5, <2>6, <2>7 DEF Owned
  <2>9. Owns' <=> Owned(active', turn, worker, abort) /\ Known(active', worker)
    BY <2>2 DEF Owns
  <2> QED
    BY <2>4, <2>8, <2>9 DEF Known
<1>2. ASSUME NEW t \in Turn, Accept(t) PROVE Owns'
  <2>1. PICK w \in Worker :
          /\ worker[w].turn = None
          /\ worker' = [worker EXCEPT ![w] =
                          Enqueue([worker[w] EXCEPT !.proc = "live", !.turn = t], "prompt", t)]
          /\ turn' = [turn EXCEPT ![t].worker = w, ![t].prompt = "queued"]
          /\ active' = [active EXCEPT !.worker = w]
    BY <1>2, Zenon DEF Accept
  <2>2. active.turn = t /\ active.worker = None /\ abort' = abort
    BY <1>2 DEF Accept
  <2> DEFINE obj == [worker[w] EXCEPT !.proc = "live", !.turn = t]
  <2>3. /\ obj \in WorkerObjects /\ obj.queue = worker[w].queue /\ obj.proc = "live"
        /\ obj.turn = t /\ obj.aborting = worker[w].aborting
    BY <1>0 DEF WorkerObjects
  <2>4. worker'[w] = Enqueue(obj, "prompt", t) /\ \A u \in Worker : u # w => worker'[u] = worker[u]
    BY <1>0, <2>1
  <2> HIDE DEF obj
  <2>5. /\ Enqueue(obj, "prompt", t).queue = Append(obj.queue, Command("prompt", t))
        /\ Enqueue(obj, "prompt", t) \in WorkerObjects
    BY <2>3, Enqueued
  <2>6. /\ worker'[w].queue = Append(worker[w].queue, Command("prompt", t))
        /\ worker'[w].proc = "live" /\ worker'[w].turn = t
        /\ worker'[w].aborting = worker[w].aborting
    BY <2>3, <2>5, <2>4 DEF Enqueue, WorkerObjects
  <2>7. active'.turn = t /\ active'.worker = w
    BY <1>0, <2>1, <2>2 DEF TypeOK, ActiveTurns
  <2>8. /\ turn'[t].worker = w /\ turn'[t].ended = turn[t].ended
        /\ \A x \in Turn : x # t => turn'[x] = turn[x]
    BY <1>0, <2>1 DEF TurnStates
  <2>9. turn[t].worker = None
    BY <1>0, <2>2, OwnsFacts
  <2>10. ASSUME NEW x \in Turn PROVE TurnAt(x, active', turn', abort')
    <3>1. /\ turn[x].ended > 0 => turn[x].worker # None /\ active.turn # x
          /\ abort[x].pc # "none" => turn[x].worker # None
      BY <1>0, OwnsFacts
    <3>2. CASE x = t
      BY <2>2, <2>8, <2>9, <3>1, <3>2 DEF TurnAt
    <3>3. CASE x # t
      BY <2>2, <2>7, <2>8, <3>1, <3>3 DEF TurnAt
    <3> QED
      BY <3>2, <3>3
  <2>11. ASSUME NEW u \in Worker
         PROVE  /\ PromptsAt(worker'[u].queue, u, turn')
                /\ MarksAt(worker'[u], u, active', turn', abort')
                /\ worker'[u].proc # "live" => worker'[u].queue = <<>>
    <3>0. /\ worker[u].turn \in Turn \cup {None}
          /\ worker[u].aborting \in Turn \cup {None}
          /\ worker[u].queue \in Queues
          /\ PromptsAt(worker[u].queue, u, turn)
          /\ worker[u].proc # "live" => worker[u].queue = <<>>
          /\ worker[u].turn # None => /\ turn[worker[u].turn].worker = u
                                      /\ worker[u].proc = "live" => active.turn = worker[u].turn
          /\ worker[u].aborting # None => /\ turn[worker[u].aborting].worker = u
                                          /\ abort[worker[u].aborting].pc \in {"sent", "settling"}
      BY <1>0, OwnsFacts
    <3>1. PromptsAt(worker[u].queue, u, turn')
      BY <2>8, <2>9, <3>0 DEF PromptsAt
    <3>2. /\ worker[u].turn # None => turn'[worker[u].turn].worker = u
          /\ worker[u].aborting # None => turn'[worker[u].aborting].worker = u
      BY <2>8, <2>9, <3>0
    <3>3. CASE u = w
      <4>1. PromptsAt(worker'[u].queue, u, turn')
        <5>1. worker[u].queue \in Queues /\ turn'[t].worker = u
          BY <2>8, <3>0, <3>3
        <5>2. PromptsAt(Append(worker[u].queue, Command("prompt", t)), u, turn')
          BY <3>1, <5>1, PromptsAppend
        <5> QED
          BY <2>6, <3>3, <5>2
      <4>2. MarksAt(worker'[u], u, active', turn', abort')
        BY <2>2, <2>6, <2>7, <2>8, <3>0, <3>2, <3>3 DEF MarksAt
      <4> QED
        BY <2>6, <3>3, <4>1, <4>2
    <3>4. CASE u # w
      <4>1. MarksAt(worker[u], u, active', turn', abort')
        BY <2>2, <2>7, <3>0, <3>2 DEF MarksAt
      <4> QED
        BY <2>4, <3>0, <3>1, <3>4, <4>1
    <3> QED
      BY <3>3, <3>4
  <2>12. Known(active', worker')
    BY <2>6, <2>7 DEF Known
  <2> QED
    BY <2>7, <2>8, <2>10, <2>11, <2>12 DEF Owns, Owned
<1>3. ASSUME NEW t \in Turn, SendFails(t) PROVE Owns'
  <2>1. active.turn = t /\ active.worker = None
    BY <1>3 DEF SendFails
  <2>2. active' = NoTurn /\ turn' = turn /\ worker' = worker /\ abort' = abort
    BY <1>3 DEF SendFails
  <2>3. active'.turn = None /\ active'.worker = None
    BY <2>2 DEF NoTurn
  <2>4. ASSUME NEW x \in Turn PROVE TurnAt(x, active', turn, abort)
    <3>1. /\ turn[x].ended > 0 => turn[x].worker # None
          /\ abort[x].pc # "none" => turn[x].worker # None
      BY <1>0, OwnsFacts
    <3> QED
      BY <2>3, <3>1 DEF TurnAt
  <2>5. ASSUME NEW w \in Worker PROVE MarksAt(worker[w], w, active', turn, abort)
    BY <1>0, <2>1, OwnsFacts DEF MarksAt
  <2>6. \A w \in Worker : /\ PromptsAt(worker[w].queue, w, turn)
                          /\ worker[w].proc # "live" => worker[w].queue = <<>>
    BY <1>0 DEF Owned
  <2>7. Owned(active', turn, worker, abort)
    BY <2>3, <2>4, <2>5, <2>6 DEF Owned
  <2>8. Owns' <=> Owned(active', turn, worker, abort) /\ Known(active', worker)
    BY <2>2 DEF Owns
  <2> QED
    BY <2>3, <2>7, <2>8 DEF Known
<1>4. CASE Mutate
  <2>1. PICK w \in Worker :
          /\ worker[w].turn = None
          /\ worker' = [worker EXCEPT ![w] =
                          Enqueue([worker[w] EXCEPT !.proc = "live"], "mutate", None)]
    BY <1>4, Zenon DEF Mutate
  <2>2. active' = active /\ turn' = turn /\ abort' = abort /\ active = NoTurn
    BY <1>4 DEF Mutate, Admits
  <2> DEFINE obj == [worker[w] EXCEPT !.proc = "live"]
  <2>3. obj \in WorkerObjects /\ obj.queue = worker[w].queue /\ obj.proc = "live"
        /\ obj.turn = None /\ obj.aborting = worker[w].aborting
    BY ZenonT(60), <1>0, <2>1 DEF WorkerObjects
  <2>4. PromptsAt(obj.queue, w, turn)
    BY <1>0, <2>3 DEF Owned
  <2>5. worker' = [worker EXCEPT ![w] = Enqueue(obj, "mutate", None)]
    BY <2>1
  <2> HIDE DEF obj
  <2>6. Owned(active, turn, worker', abort)
    BY <1>0, <2>3, <2>4, <2>5, OwnedEnqueued
  <2>7. Owns' <=> Owned(active, turn, worker', abort) /\ Known(active, worker')
    BY <2>2 DEF Owns
  <2> QED
    BY <2>2, <2>6, <2>7 DEF Known, NoTurn
<1>5. ASSUME NEW w \in Worker, QueueRead(w) PROVE Owns'
  <2>1. worker' = [worker EXCEPT ![w] = Enqueue(worker[w], "read", None)]
        /\ active' = active /\ turn' = turn /\ abort' = abort /\ worker[w].proc = "live"
    BY <1>5 DEF QueueRead
  <2>2. Owned(active, turn, worker', abort)
    BY <1>0, <2>1, OwnsFacts, OwnedEnqueued
  <2>3. \A u \in Worker : worker'[u].turn = worker[u].turn
    BY <1>0, <2>1 DEF Enqueue, WorkerObjects
  <2>4. Owns' <=> Owned(active, turn, worker', abort) /\ Known(active, worker')
    BY <2>1 DEF Owns
  <2> QED
    BY <1>0, <2>2, <2>3, <2>4 DEF Known
<1>6. ASSUME NEW w \in Worker, Reassign(w) PROVE Owns'
  <2>1. worker' = [worker EXCEPT ![w] = NoWorker]
        /\ active' = active /\ turn' = turn /\ abort' = abort /\ active.turn = None
    BY <1>6 DEF Reassign
  <2>2. /\ NoWorker \in WorkerObjects /\ NoWorker.queue = <<>> /\ NoWorker.turn = None
        /\ NoWorker.aborting = None
    BY DEF NoWorker, WorkerObjects
  <2>3. PromptsAt(NoWorker.queue, w, turn)
    BY <2>2 DEF PromptsAt
  <2>4. Owned(active, turn, worker', abort)
    BY <1>0, <2>1, <2>2, <2>3, OwnedAt
  <2>5. active = NoTurn
    BY <1>0, <2>1, OwnsFacts
  <2>6. Owns' <=> Owned(active, turn, worker', abort) /\ Known(active, worker')
    BY <2>1 DEF Owns
  <2> QED
    BY <2>4, <2>5, <2>6 DEF Known, NoTurn
<1> QED
  BY <1>1, <1>2, <1>3, <1>4, <1>5, <1>6

(* The command at the head of a queue is answered.                         *)
LEMMA AnswersOwn ==
  ASSUME IInv, Owns, NEW w \in Worker, Answers(w)
  PROVE  Owns'
<1> USE TurnLifecycleAssumption
<1>0. /\ TypeOK /\ Owned(active, turn, worker, abort) /\ Known(active, worker)
      /\ worker \in [Worker -> WorkerObjects] /\ turn \in [Turn -> TurnStates]
      /\ worker[w].queue # <<>>
  BY DEF IInv, Owns, TypeOK, Answers, PromptAnswered, PromptFails, ReadAnswered, MutateAnswered,
    StateAnswered, Heads
<1> DEFINE t == Head(worker[w].queue).turn
<1>1. ASSUME NEW tn, \A x \in Turn : tn[x].worker = turn[x].worker /\ tn[x].ended = turn[x].ended
      PROVE  Owned(active, tn, Answered(w), abort)
  BY <1>0, <1>1, OwnedAnswered
<1>2. /\ Known(active, Answered(w)) /\ Answered(w) \in [Worker -> WorkerObjects]
      /\ Answered(w)[w].proc = "live" /\ Answered(w)[w].turn = worker[w].turn
      /\ Head(worker[w].queue).kind = "prompt" => t \in Turn /\ turn[t].worker = w
  BY <1>0, OwnedAnswered
<1>3. ASSUME PromptAnswered(w) \/ PromptFails(w) PROVE Owns'
  <2>1. Head(worker[w].queue).kind = "prompt" /\ abort' = abort
    BY <1>3 DEF PromptAnswered, PromptFails, Heads
  <2>2. t \in Turn /\ turn[t].worker = w
    BY <1>2, <2>1
  <2>3. PICK p \in {"none", "queued", "due", "running", "over"} :
          LET tn == [turn EXCEPT ![t].prompt = p]
          IN \/ StillActive(t) /\ Terminal(t, tn, Answered(w), cleanup)
             \/ Quiet(tn, Answered(w), cleanup)
    <3>1. turn[t].prompt \in {"none", "queued", "due", "running", "over"}
      BY <1>0, <2>2 DEF TurnStates
    <3>2. turn = [turn EXCEPT ![t].prompt = turn[t].prompt]
      BY <1>0, <2>2 DEF TurnStates
    <3>3. CASE PromptAnswered(w)
      BY ZenonT(60), <3>1, <3>2, <3>3 DEF PromptAnswered, Completes
    <3>4. CASE PromptFails(w)
      BY <3>4 DEF PromptFails
    <3> QED
      BY <1>3, <3>3, <3>4
  <2> DEFINE tn == [turn EXCEPT ![t].prompt = p]
  <2>4. /\ tn \in [Turn -> TurnStates]
        /\ \A x \in Turn : tn[x].worker = turn[x].worker /\ tn[x].ended = turn[x].ended
    BY <1>0, <2>2 DEF TurnStates
  <2>5. \/ StillActive(t) /\ Terminal(t, tn, Answered(w), cleanup)
        \/ Quiet(tn, Answered(w), cleanup)
    BY <2>3
  <2> HIDE DEF tn, t
  <2>6. Owned(active, tn, Answered(w), abort')
    BY <1>1, <2>1, <2>4
  <2>7. ASSUME StillActive(t), Terminal(t, tn, Answered(w), cleanup) PROVE Owns'
    <3>1. active.turn = t /\ active.worker = w
      BY <1>0, <2>2, <2>7, OwnsFacts DEF StillActive
    <3>2. tn[t].worker # None
      BY <2>2, <2>4
    <3> QED
      BY <1>0, <1>2, <2>2, <2>4, <2>6, <2>7, <3>1, <3>2, EventOwns
  <2>8. CASE Quiet(tn, Answered(w), cleanup)
    BY <1>2, <2>6, <2>8 DEF Owns, Quiet
  <2> QED
    BY <2>5, <2>7, <2>8
<1>4. ASSUME ReadAnswered(w) \/ StateAnswered(w) PROVE Owns'
  <2>1. worker' = Answered(w) /\ active' = active /\ turn' = turn /\ abort' = abort
    BY <1>4 DEF ReadAnswered, StateAnswered
  <2>2. Owned(active, turn, Answered(w), abort)
    BY <1>1
  <2> QED
    BY <1>2, <2>1, <2>2 DEF Owns
<1>5. CASE MutateAnswered(w)
  <2>1. worker' = [Answered(w) EXCEPT ![w] = Enqueue(Answered(w)[w], "state", None)]
        /\ active' = active /\ turn' = turn /\ abort' = abort
    BY <1>5 DEF MutateAnswered
  <2> DEFINE obj == Answered(w)[w]
  <2>2. obj \in WorkerObjects /\ obj.queue = Tail(worker[w].queue)
    BY <1>0, <1>2, AnsweredTyped
  <2>3. obj.aborting = worker[w].aborting
    BY <1>0 DEF Answered, WorkerObjects
  <2>4. PromptsAt(obj.queue, w, turn) /\ worker[w].proc = "live"
    <3>1. Owned(active, turn, Answered(w), abort)
      BY <1>1
    <3> QED
      BY <1>0, <3>1, OwnedAnswered DEF Owned
  <2>5. worker' = [worker EXCEPT ![w] = Enqueue(obj, "state", None)]
    BY <1>0, <2>1 DEF Answered
  <2>6. obj.turn = worker[w].turn /\ obj.proc = "live"
    BY <1>2
  <2>7. worker'[w].turn = worker[w].turn /\ \A u \in Worker : u # w => worker'[u] = worker[u]
    BY <1>0, <2>2, <2>5, <2>6 DEF Enqueue, WorkerObjects
  <2> HIDE DEF obj
  <2>8. Owned(active, turn, worker', abort)
    BY <1>0, <2>2, <2>3, <2>4, <2>5, <2>6, OwnedEnqueued
  <2>9. Known(active, worker')
    BY <1>0, <2>7 DEF Known, TypeOK, ActiveTurns
  <2> QED
    BY <2>1, <2>8, <2>9 DEF Owns
<1> QED
  BY <1>3, <1>4, <1>5 DEF Answers

(* thread/abort marks the active turn's worker, and unmarks it.            *)
LEMMA AbortsOwn ==
  ASSUME IInv, Owns, NEW t \in Turn, Abort(t) \/ AbortAnswered(t) \/ FinishAbort(t)
  PROVE  Owns'
<1> USE TurnLifecycleAssumption
<1>0. /\ TypeOK /\ Owned(active, turn, worker, abort) /\ Known(active, worker)
      /\ worker \in [Worker -> WorkerObjects] /\ turn \in [Turn -> TurnStates]
      /\ abort \in [Turn -> AbortStates]
  BY DEF IInv, Owns, TypeOK, AbortStates
<1>1. CASE Abort(t)
  <2> DEFINE w == active.worker
  <2>1. /\ active.turn = t /\ w \in Worker /\ worker[w].proc = "live"
        /\ abort' = [abort EXCEPT ![t].pc = "sent"]
        /\ worker' = [worker EXCEPT ![w].aborting = t]
        /\ active' = active /\ turn' = turn
    BY <1>1 DEF Abort, Owner
  <2>2. turn[t].worker = w
    BY <1>0, <2>1, OwnsFacts
  <2>3. abort'[t].pc = "sent" /\ \A x \in Turn : x # t => abort'[x] = abort[x]
    BY <1>0, <2>1 DEF AbortStates
  <2>4. /\ worker'[w].aborting = t /\ worker'[w].turn = worker[w].turn
        /\ worker'[w].queue = worker[w].queue /\ worker'[w].proc = worker[w].proc
        /\ \A u \in Worker : u # w => worker'[u] = worker[u]
    BY <1>0, <2>1 DEF WorkerObjects
  <2>5. worker' \in [Worker -> WorkerObjects]
    BY ZenonT(60), <1>0, <2>1 DEF WorkerObjects
  <2> HIDE DEF w
  <2>6. ASSUME NEW u \in Worker
        PROVE  /\ worker'[u].turn = worker[u].turn /\ worker'[u].proc = worker[u].proc
               /\ worker'[u].aborting # None => /\ turn[worker'[u].aborting].worker = u
                                                /\ abort'[worker'[u].aborting].pc \in {"sent", "settling"}
               /\ PromptsAt(worker'[u].queue, u, turn)
               /\ worker'[u].proc # "live" => worker'[u].queue = <<>>
    <3>0. /\ worker[u].aborting \in Turn \cup {None}
          /\ PromptsAt(worker[u].queue, u, turn)
          /\ worker[u].proc # "live" => worker[u].queue = <<>>
          /\ worker[u].aborting # None => /\ turn[worker[u].aborting].worker = u
                                          /\ abort[worker[u].aborting].pc \in {"sent", "settling"}
      BY <1>0, OwnsFacts
    <3>1. CASE u = w
      BY <2>2, <2>3, <2>4, <3>0, <3>1
    <3>2. CASE u # w
      <4>1. worker'[u] = worker[u]
        BY <2>4, <3>2
      <4> QED
        BY <2>3, <3>0, <4>1
    <3> QED
      BY <3>1, <3>2
  <2>7. \A x \in Turn : abort'[x].pc # "none" => turn[x].worker # None
    BY <1>0, <2>1, <2>2, <2>3, OwnsFacts
  <2>8. Owned(active, turn, worker', abort')
    BY <1>0, <2>5, <2>6, <2>7, OwnedKept
  <2>9. Known(active, worker')
    BY <1>0, <2>6 DEF Known, TypeOK, ActiveTurns
  <2> QED
    BY <2>1, <2>8, <2>9 DEF Owns
<1>2. CASE AbortAnswered(t)
  <2>1. /\ abort[t].pc = "sent"
        /\ \/ StillActive(t) /\ Terminal(t, turn, worker, cleanup)
           \/ Quiet(turn, worker, cleanup)
        /\ abort' = [abort EXCEPT ![t] = [pc |-> "settling", awaits |-> cleanup'.turn]]
    BY <1>2 DEF AbortAnswered
  <2>2. abort'[t].pc = "settling" /\ \A x \in Turn : x # t => abort'[x] = abort[x]
    BY <1>0, <2>1
  <2>3. turn[t].worker # None
    BY <1>0, <2>1, OwnsFacts
  <2>4. ASSUME NEW u \in Worker
        PROVE  /\ worker[u].aborting # None => /\ turn[worker[u].aborting].worker = u
                                               /\ abort'[worker[u].aborting].pc \in {"sent", "settling"}
               /\ PromptsAt(worker[u].queue, u, turn)
               /\ worker[u].proc # "live" => worker[u].queue = <<>>
    <3>0. /\ worker[u].aborting \in Turn \cup {None}
          /\ PromptsAt(worker[u].queue, u, turn)
          /\ worker[u].proc # "live" => worker[u].queue = <<>>
          /\ worker[u].aborting # None => /\ turn[worker[u].aborting].worker = u
                                          /\ abort[worker[u].aborting].pc \in {"sent", "settling"}
      BY <1>0, OwnsFacts
    <3> QED
      BY <2>2, <3>0
  <2>5. \A x \in Turn : abort'[x].pc # "none" => turn[x].worker # None
    BY <1>0, <2>2, <2>3, OwnsFacts
  <2>6. Owned(active, turn, worker, abort')
    BY <1>0, <2>4, <2>5, OwnedKept
  <2>7. ASSUME StillActive(t), Terminal(t, turn, worker, cleanup) PROVE Owns'
    <3>1. active.turn = t /\ active.worker # None
      BY <1>0, <2>3, <2>7, OwnsFacts DEF StillActive
    <3> QED
      BY <1>0, <2>3, <2>6, <2>7, <3>1, EventOwns
  <2>8. CASE Quiet(turn, worker, cleanup)
    BY <1>0, <2>6, <2>8 DEF Owns, Quiet
  <2> QED
    BY <2>1, <2>7, <2>8
<1>3. CASE FinishAbort(t)
  <2> DEFINE w == turn[t].worker
  <2>1. /\ abort[t].pc = "settling" /\ abort' = [abort EXCEPT ![t].pc = "over"]
        /\ worker' = [worker EXCEPT ![w].aborting = IF @ = t THEN None ELSE @]
        /\ active' = active /\ turn' = turn
    BY <1>3 DEF FinishAbort, CleanedUp
  <2>2. w \in Worker
    BY <1>0, <2>1, OwnsFacts
  <2>3. /\ worker'[w].aborting = (IF worker[w].aborting = t THEN None ELSE worker[w].aborting)
        /\ worker'[w].turn = worker[w].turn
        /\ worker'[w].queue = worker[w].queue /\ worker'[w].proc = worker[w].proc
        /\ \A u \in Worker : u # w => worker'[u] = worker[u]
    BY <1>0, <2>1, <2>2 DEF WorkerObjects
  <2>4. worker' \in [Worker -> WorkerObjects]
    BY ZenonT(60), <1>0, <2>1, <2>2 DEF WorkerObjects
  <2>5. abort'[t].pc = "over" /\ \A x \in Turn : x # t => abort'[x] = abort[x]
    BY <1>0, <2>1 DEF AbortStates
  <2> HIDE DEF w
  <2>6. ASSUME NEW u \in Worker
        PROVE  /\ worker'[u].turn = worker[u].turn /\ worker'[u].proc = worker[u].proc
               /\ worker'[u].aborting # None => /\ turn[worker'[u].aborting].worker = u
                                                /\ abort'[worker'[u].aborting].pc \in {"sent", "settling"}
               /\ PromptsAt(worker'[u].queue, u, turn)
               /\ worker'[u].proc # "live" => worker'[u].queue = <<>>
    <3>0. /\ worker[u].aborting \in Turn \cup {None}
          /\ PromptsAt(worker[u].queue, u, turn)
          /\ worker[u].proc # "live" => worker[u].queue = <<>>
          /\ worker[u].aborting # None => /\ turn[worker[u].aborting].worker = u
                                          /\ abort[worker[u].aborting].pc \in {"sent", "settling"}
      BY <1>0, OwnsFacts
    <3>1. CASE u = w
      BY <2>3, <2>5, <3>0, <3>1
    <3>2. CASE u # w
      <4>1. worker'[u] = worker[u]
        BY <2>3, <3>2
      <4>2. worker[u].aborting # t
        BY <3>0, <3>2 DEF w
      <4> QED
        BY <2>5, <3>0, <4>1, <4>2
    <3> QED
      BY <3>1, <3>2
  <2>7. \A x \in Turn : abort'[x].pc # "none" => turn[x].worker # None
    BY <1>0, <2>1, <2>5, OwnsFacts
  <2>8. Owned(active, turn, worker', abort')
    BY <1>0, <2>4, <2>6, <2>7, OwnedKept
  <2>9. Known(active, worker')
    BY <1>0, <2>6 DEF Known, TypeOK, ActiveTurns
  <2> QED
    BY <2>1, <2>8, <2>9 DEF Owns
<1> QED
  BY <1>1, <1>2, <1>3

(* A run that settles ends the turn that its worker names.                 *)
LEMMA RunsOwn ==
  ASSUME IInv, Owns, \/ \E w \in Worker, t \in Turn : RunStarts(w, t) \/ RunSettles(w, t)
                     \/ \E w \in Worker : PiWrites(w)
                     \/ OwnedRefreshed
  PROVE  Owns'
<1> USE TurnLifecycleAssumption
<1>0. /\ TypeOK /\ Owned(active, turn, worker, abort) /\ Known(active, worker)
      /\ worker \in [Worker -> WorkerObjects] /\ turn \in [Turn -> TurnStates]
  BY DEF IInv, Owns, TypeOK
<1>1. ASSUME NEW w \in Worker, NEW t \in Turn, RunStarts(w, t) PROVE Owns'
  <2>1. /\ turn' = [turn EXCEPT ![t].prompt = "running"] /\ worker' = worker /\ abort' = abort
        /\ \E b : active' = [active EXCEPT !.ran = b]
    BY <1>1 DEF RunStarts
  <2>2. \A x \in Turn : turn'[x].worker = turn[x].worker /\ turn'[x].ended = turn[x].ended
    BY <1>0, <2>1 DEF TurnStates
  <2>3. active'.turn = active.turn /\ active'.worker = active.worker
    BY <1>0, <2>1 DEF TypeOK, ActiveTurns
  <2>4. Owned(active', turn', worker, abort)
    BY <1>0, <2>2, <2>3, OwnsFacts, OwnedKept
  <2> QED
    BY <1>0, <2>1, <2>3, <2>4 DEF Owns, Known
<1>2. ASSUME NEW w \in Worker, NEW t \in Turn, RunSettles(w, t) PROVE Owns'
  <2> DEFINE reported == worker[w].turn
  <2> DEFINE tn == [turn EXCEPT ![t].prompt = "over"]
  <2> DEFINE wk == [worker EXCEPT ![w].aborting = IF @ = reported THEN None ELSE @]
  <2>1. /\ tn \in [Turn -> TurnStates]
        /\ \A x \in Turn : tn[x].worker = turn[x].worker /\ tn[x].ended = turn[x].ended
    BY <1>0 DEF TurnStates
  <2> DEFINE obj == [worker[w] EXCEPT !.aborting = IF @ = reported THEN None ELSE @]
  <2>2. /\ obj \in WorkerObjects /\ obj.queue = worker[w].queue /\ obj.proc = worker[w].proc
        /\ obj.turn = worker[w].turn
        /\ obj.aborting = None \/ obj.aborting = worker[w].aborting
    BY <1>0 DEF WorkerObjects
  <2>3. wk = [worker EXCEPT ![w] = obj]
    BY <1>0
  <2>4. wk \in [Worker -> WorkerObjects] /\ \A u \in Worker : wk[u].turn = worker[u].turn
    BY <1>0, <2>2, <2>3
  <2>5. /\ worker[w].proc = "live" /\ abort' = abort
        /\ \/ reported = None /\ Quiet(tn, worker, cleanup)
           \/ reported # None /\ Terminal(reported, tn, wk, cleanup)
    BY <1>2 DEF RunSettles
  <2>6. reported \in Turn \cup {None} /\ PromptsAt(worker[w].queue, w, turn)
    BY <1>0, OwnsFacts
  <2>7. reported # None => turn[reported].worker = w /\ active.turn = reported /\ active.worker = w
    BY <1>0, <2>5, OwnsFacts
  <2> HIDE DEF obj, tn
  <2>8. Owned(active, tn, wk, abort)
    BY <1>0, <2>1, <2>2, <2>3, <2>5, <2>6, OwnedAt
  <2>9. Owned(active, tn, worker, abort)
    BY <1>0, <2>1, OwnsFacts, OwnedKept
  <2> HIDE DEF wk, reported
  <2>10. ASSUME reported # None, Terminal(reported, tn, wk, cleanup) PROVE Owns'
    <3>1. reported \in Turn /\ tn[reported].worker # None /\ Owned(active, tn, wk, abort')
      BY <2>1, <2>5, <2>6, <2>7, <2>8, <2>10
    <3>2. active.turn = reported /\ active.worker # None
      BY <2>7, <2>10
    <3> QED
      BY <1>0, <2>1, <2>4, <2>10, <3>1, <3>2, EventOwns
  <2>11. CASE Quiet(tn, worker, cleanup)
    BY <1>0, <2>5, <2>9, <2>11 DEF Owns, Quiet
  <2> QED
    BY <2>5, <2>10, <2>11
<1>3. ASSUME (\E w \in Worker : PiWrites(w)) \/ OwnedRefreshed PROVE Owns'
  BY <1>0, <1>3 DEF PiWrites, OwnedRefreshed, Owns
<1> QED
  BY <1>1, <1>2, <1>3

(* A worker that goes ends the turn whose prompt it had, or that it names. *)
LEMMA LossOwns ==
  ASSUME IInv, Owns, NEW w \in Worker, TimesOut(w) \/ Close(w)
  PROVE  Owns'
<1> USE TurnLifecycleAssumption
<1> DEFINE tn == TurnsLost(w)
<1> DEFINE cl == CleanupLost(w)
<1>0. /\ TypeOK /\ Owned(active, turn, worker, abort) /\ Known(active, worker)
      /\ worker \in [Worker -> WorkerObjects] /\ turn \in [Turn -> TurnStates]
      /\ abort \in [Turn -> AbortStates]
  BY DEF IInv, Owns, TypeOK, AbortStates
<1>1. /\ tn \in [Turn -> TurnStates]
      /\ \A x \in Turn : tn[x].worker = turn[x].worker /\ tn[x].ended = turn[x].ended
  BY <1>0 DEF TurnsLost, TurnStates
<1>2. /\ \A x \in Turn : abort'[x].pc # "none" => abort[x].pc # "none"
      /\ \A x \in Turn : turn[x].worker # w => abort'[x] = abort[x]
  <2>1. abort' = AbortsLost(w)
    BY DEF TimesOut, Close
  <2> QED
    BY <1>0, <2>1 DEF AbortsLost, AbortStates
<1>3. ASSUME NEW wk \in [Worker -> WorkerObjects], \A u \in Worker : u # w => wk[u] = worker[u],
             wk[w].proc # "live", wk[w].aborting = None, wk[w].queue = <<>>,
             wk[w].turn = None \/ wk[w].turn = worker[w].turn
      PROVE  Owned(active, tn, wk, abort')
  <2>1. ASSUME NEW u \in Worker
        PROVE  /\ wk[u].turn = None \/ (wk[u].turn = worker[u].turn
                                        /\ (wk[u].proc = "live" => worker[u].proc = "live"))
               /\ wk[u].aborting # None => /\ turn[wk[u].aborting].worker = u
                                           /\ abort'[wk[u].aborting].pc \in {"sent", "settling"}
               /\ PromptsAt(wk[u].queue, u, turn)
               /\ wk[u].proc # "live" => wk[u].queue = <<>>
    <3>1. CASE u = w
      BY <1>3, <3>1 DEF PromptsAt
    <3>2. CASE u # w
      <4>1. wk[u] = worker[u]
        BY <1>3, <3>2
      <4>2. worker[u].aborting # None =>
              abort'[worker[u].aborting] = abort[worker[u].aborting]
        BY <1>0, <1>2, <3>2, OwnsFacts
      <4> QED
        BY <1>0, <4>1, <4>2, OwnsFacts
    <3> QED
      BY <3>1, <3>2
  <2>2. \A x \in Turn : abort'[x].pc # "none" => turn[x].worker # None
    BY <1>0, <1>2, OwnsFacts
  <2> QED
    BY <1>0, <1>1, <2>1, <2>2, OwnedKept
<1>4. CASE TimesOut(w)
  <2> DEFINE obj == [worker[w] EXCEPT !.proc = "killed", !.queue = <<>>, !.aborting = None]
  <2> DEFINE wk == [worker EXCEPT ![w] = obj]
  <2>0. <<>> \in Queues
    BY DEF Queues
  <2>1. obj \in WorkerObjects /\ obj.queue = <<>> /\ obj.proc = "killed" /\ obj.aborting = None
        /\ obj.turn = worker[w].turn
    BY ZenonT(60), <1>0, <2>0 DEF WorkerObjects, Queues, Entries
  <2>2. \/ Unanswered(w) /\ Terminal(active.turn, tn, wk, cl)
        \/ Quiet(tn, wk, cl)
    BY <1>4 DEF TimesOut
  <2> HIDE DEF obj
  <2>3. wk \in [Worker -> WorkerObjects] /\ wk[w] = obj
        /\ \A u \in Worker : u # w => wk[u] = worker[u]
    BY <1>0, <2>1
  <2> HIDE DEF wk, tn, cl
  <2>4. Owned(active, tn, wk, abort')
    BY <1>3, <2>1, <2>3
  <2>5. Known(active, wk)
    BY <1>0, <2>1, <2>3 DEF Known, TypeOK, ActiveTurns
  <2>6. ASSUME Unanswered(w), Terminal(active.turn, tn, wk, cl) PROVE Owns'
    <3>1. PICK i \in DOMAIN worker[w].queue : worker[w].queue[i] = Command("prompt", active.turn)
      BY <2>6 DEF Unanswered
    <3>2. PromptsAt(worker[w].queue, w, turn)
      BY <1>0, OwnsFacts
    <3>3. active.turn \in Turn /\ turn[active.turn].worker = w
      BY <3>1, <3>2 DEF PromptsAt, Command
    <3>4. active.worker = w /\ tn[active.turn].worker # None
      BY <1>0, <1>1, <3>3, OwnsFacts
    <3>5. active.worker # None
      BY <3>4
    <3> QED
      BY <1>0, <1>1, <2>3, <2>4, <2>5, <2>6, <3>3, <3>4, <3>5, EventOwns
  <2>7. CASE Quiet(tn, wk, cl)
    BY <2>4, <2>5, <2>7 DEF Owns, Quiet
  <2> QED
    BY <2>2, <2>6, <2>7
<1>5. CASE Close(w)
  <2> DEFINE wk == [worker EXCEPT ![w] = NoWorker]
  <2>1. NoWorker \in WorkerObjects /\ NoWorker.queue = <<>> /\ NoWorker.turn = None
        /\ NoWorker.aborting = None /\ NoWorker.proc # "live"
    BY DEF NoWorker, WorkerObjects
  <2>2. \/ worker[w].turn # None /\ Terminal(worker[w].turn, tn, wk, cl)
        \/ worker[w].turn = None /\ Quiet(tn, wk, cl)
    BY <1>5 DEF Close
  <2>3. wk \in [Worker -> WorkerObjects] /\ wk[w] = NoWorker
        /\ \A u \in Worker : u # w => wk[u] = worker[u]
    BY <1>0, <2>1
  <2> HIDE DEF wk, tn, cl
  <2>4. Owned(active, tn, wk, abort')
    BY <1>3, <2>1, <2>3
  <2>5. Known(active, wk) \/ (active.worker = w /\ worker[w].turn = active.turn)
    BY <1>0, <2>3 DEF Known, TypeOK, ActiveTurns
  <2>6. active.worker = w => active.turn # None
    BY <1>0, OwnsFacts DEF NoTurn
  <2>7. ASSUME worker[w].turn # None, Terminal(worker[w].turn, tn, wk, cl) PROVE Owns'
    <3> DEFINE t == worker[w].turn
    <3>1. t \in Turn /\ turn[t].worker = w
      BY <1>0, <2>7, OwnsFacts
    <3>2. tn[t].worker # None
      BY <1>1, <3>1
    <3>3. active.turn = t => active.worker # None
      BY <1>0, <3>1, OwnsFacts
    <3>4. Known(active, wk) \/ active.turn = t
      BY <2>5
    <3>5. Terminal(t, tn, wk, cl)
      BY <2>7
    <3> HIDE DEF t
    <3> QED
      BY <1>0, <1>1, <2>3, <2>4, <3>1, <3>2, <3>3, <3>4, <3>5, EventOwns
  <2>8. ASSUME worker[w].turn = None, Quiet(tn, wk, cl) PROVE Owns'
    BY <2>4, <2>5, <2>6, <2>8 DEF Owns, Quiet
  <2> QED
    BY <2>2, <2>7, <2>8
<1> QED
  BY <1>4, <1>5

(* Owns is inductive, given IInv.                                          *)
LEMMA OwnsInductive == ASSUME IInv, Owns, [Next]_vars PROVE Owns'
<1>1. CASE UNCHANGED vars
  BY <1>1 DEF vars, Owns
<1>2. CASE Next
  <2>1. ASSUME NEW w \in Worker, Answers(w) PROVE Owns'
    BY <2>1, AnswersOwn
  <2>2. ASSUME NEW w \in Worker, TimesOut(w) \/ Close(w) PROVE Owns'
    BY <2>2, LossOwns
  <2>3. ASSUME NEW t \in Turn, Abort(t) \/ AbortAnswered(t) \/ FinishAbort(t) PROVE Owns'
    BY <2>3, AbortsOwn
  <2> QED
    BY <1>2, <2>1, <2>2, <2>3, AdmissionOwns, RunsOwn DEF Next
<1> QED
  BY <1>1, <1>2

(* Owns holds in the beginning, and so for ever.                           *)
LEMMA OwnsInvariant == Spec => [](IInv /\ Owns)
<1>1. ASSUME Init PROVE Owns
  <2>1. ASSUME NEW w \in Worker
        PROVE  /\ PromptsAt(worker[w].queue, w, turn)
               /\ MarksAt(worker[w], w, active, turn, abort)
               /\ worker[w].proc # "live" => worker[w].queue = <<>>
    BY <1>1 DEF Init, NoWorker, PromptsAt, MarksAt
  <2>2. ASSUME NEW t \in Turn PROVE TurnAt(t, active, turn, abort)
    <3>1. turn[t].ended = 0 /\ abort[t].pc = "none"
      BY <1>1 DEF Init, NoAbort
    <3> QED
      BY <3>1 DEF TurnAt
  <2> QED
    BY <1>1, <2>1, <2>2 DEF Init, NoTurn, Owns, Owned, Known
<1>2. IInv /\ Owns /\ [Next]_vars => Owns'
  BY OwnsInductive
<1> QED
  BY <1>1, <1>2, Invariant, PTL DEF Spec

-----------------------------------------------------------------------------
(* Without timeouts a turn ends once.                                      *)

NoneKilled == \A w \in Worker : worker[w].proc # "killed"

(* A terminal event of the active turn is its first.                       *)
LEMMA EventOnce ==
  ASSUME TypeOK, Owns, TerminalOnce, NEW t \in Turn,
         NEW tn \in [Turn -> TurnStates], \A x \in Turn : tn[x].ended = turn[x].ended,
         NEW wk \in [Worker -> WorkerObjects], \A w \in Worker : wk[w].proc # "killed", NEW cl,
         (Terminal(t, tn, wk, cl) /\ active.turn = t) \/ Quiet(tn, wk, cl)
  PROVE  NoneKilled' /\ TerminalOnce'
<1>1. CASE Quiet(tn, wk, cl)
  BY <1>1 DEF Quiet, NoneKilled, TerminalOnce
<1>2. CASE Terminal(t, tn, wk, cl) /\ active.turn = t
  <2>1. turn' = [tn EXCEPT ![t].ended = @ + 1]
    BY <1>2 DEF Terminal
  <2>2. turn[t].ended = 0 /\ tn[t].ended = 0
    <3>1. ~(turn[t].ended > 0) /\ turn[t].ended \in Nat
      BY <1>2, OwnsFacts DEF Owns, TypeOK, TurnStates
    <3> QED
      BY <3>1
  <2>3. turn'[t].ended = 1 /\ \A x \in Turn : x # t => turn'[x].ended = tn[x].ended
    BY <2>1, <2>2 DEF TurnStates
  <2>4. TerminalOnce'
    BY <2>3 DEF TerminalOnce
  <2> DEFINE w == active.worker
  <2> DEFINE obj == [wk[w] EXCEPT !.turn = None]
  <2>5. CASE worker' = wk
    BY <2>4, <2>5 DEF NoneKilled
  <2>6. CASE worker' # wk
    <3>1. w # None /\ worker' = [wk EXCEPT ![w] = Enqueue(obj, "state", None)]
      BY <1>2, <2>6 DEF Terminal
    <3>2. w \in Worker
      BY <3>1 DEF TypeOK, ActiveTurns
    <3>3. obj \in WorkerObjects /\ obj.proc = wk[w].proc
      BY <3>2 DEF WorkerObjects
    <3> HIDE DEF obj
    <3>4. Enqueue(obj, "state", None).proc = obj.proc
      BY <3>3 DEF Enqueue, WorkerObjects
    <3> QED
      BY <2>4, <3>1, <3>2, <3>3, <3>4 DEF NoneKilled
  <2> QED
    BY <2>5, <2>6
<1> QED
  BY <1>1, <1>2

(* Only a command that times out leaves a dead worker with a turn: without *)
(* one, every terminal event is of the active turn.                        *)
LEMMA OnceInductive ==
  ASSUME IInv, Owns, NoneKilled, TerminalOnce, Next, \A w \in Worker : ~TimesOut(w)
  PROVE  NoneKilled' /\ TerminalOnce'
<1> USE TurnLifecycleAssumption
<1>0. /\ TypeOK /\ worker \in [Worker -> WorkerObjects] /\ turn \in [Turn -> TurnStates]
      /\ Owned(active, turn, worker, abort)
  BY DEF IInv, TypeOK, Owns
<1>1. ASSUME NEW w \in Worker, NEW obj \in WorkerObjects, obj.proc # "killed",
             worker' = [worker EXCEPT ![w] = obj], turn' = turn
      PROVE  NoneKilled' /\ TerminalOnce'
  BY <1>0, <1>1 DEF NoneKilled, TerminalOnce
<1>2. ASSUME NEW t \in Turn, Send(t) \/ SendFails(t) PROVE NoneKilled' /\ TerminalOnce'
  BY <1>2 DEF Send, SendFails, NoneKilled, TerminalOnce
<1>3. ASSUME NEW t \in Turn, Accept(t) PROVE NoneKilled' /\ TerminalOnce'
  <2>1. PICK w \in Worker :
          /\ worker' = [worker EXCEPT ![w] =
                          Enqueue([worker[w] EXCEPT !.proc = "live", !.turn = t], "prompt", t)]
          /\ turn' = [turn EXCEPT ![t].worker = w, ![t].prompt = "queued"]
    BY <1>3, Zenon DEF Accept
  <2> DEFINE obj == [worker[w] EXCEPT !.proc = "live", !.turn = t]
  <2>2. obj \in WorkerObjects /\ obj.proc = "live"
    BY <1>0 DEF WorkerObjects
  <2> HIDE DEF obj
  <2>3. Enqueue(obj, "prompt", t).proc = "live"
    BY <2>2 DEF Enqueue, WorkerObjects
  <2>4. \A x \in Turn : turn'[x].ended = turn[x].ended
    BY <1>0, <2>1 DEF TurnStates
  <2>5. worker' = [worker EXCEPT ![w] = Enqueue(obj, "prompt", t)]
    BY <2>1 DEF obj
  <2> QED
    BY <1>0, <2>3, <2>4, <2>5 DEF NoneKilled, TerminalOnce
<1>4. CASE Mutate
  <2>1. PICK w \in Worker :
          worker' = [worker EXCEPT ![w] = Enqueue([worker[w] EXCEPT !.proc = "live"], "mutate", None)]
    BY <1>4, Zenon DEF Mutate
  <2> DEFINE obj == [worker[w] EXCEPT !.proc = "live"]
  <2>2. obj \in WorkerObjects /\ obj.proc = "live"
    BY <1>0 DEF WorkerObjects
  <2>3. worker' = [worker EXCEPT ![w] = Enqueue(obj, "mutate", None)] /\ turn' = turn
    BY <1>4, <2>1 DEF Mutate
  <2> HIDE DEF obj
  <2>4. Enqueue(obj, "mutate", None) \in WorkerObjects
    BY <2>2, Enqueued
  <2>5. Enqueue(obj, "mutate", None).proc = "live"
    BY <2>2 DEF Enqueue, WorkerObjects
  <2> QED
    BY <1>1, <2>3, <2>4, <2>5
<1>5. ASSUME NEW w \in Worker, QueueRead(w) \/ Reassign(w) PROVE NoneKilled' /\ TerminalOnce'
  <2>1. NoWorker \in WorkerObjects /\ NoWorker.proc # "killed"
    BY DEF NoWorker, WorkerObjects
  <2> DEFINE more == Enqueue(worker[w], "read", None)
  <2>2. more \in WorkerObjects /\ (worker[w].proc = "live" => more.proc = "live")
    <3>1. worker[w] \in WorkerObjects
      BY <1>0
    <3>2. more \in WorkerObjects
      BY <3>1, Enqueued
    <3> QED
      BY <3>1, <3>2 DEF Enqueue, WorkerObjects
  <2>3. CASE QueueRead(w)
    <3>1. /\ worker[w].proc = "live" /\ turn' = turn
          /\ worker' = [worker EXCEPT ![w] = Enqueue(worker[w], "read", None)]
      BY <2>3 DEF QueueRead
    <3> QED
      BY <1>1, <2>2, <3>1
  <2>4. CASE Reassign(w)
    <3>1. turn' = turn /\ worker' = [worker EXCEPT ![w] = NoWorker]
      BY <2>4 DEF Reassign
    <3> QED
      BY <1>1, <2>1, <3>1
  <2> QED
    BY <1>5, <2>3, <2>4
<1>6. ASSUME NEW w \in Worker, Answers(w) PROVE NoneKilled' /\ TerminalOnce'
  <2>0. worker[w].queue # <<>>
    BY <1>6 DEF Answers, PromptAnswered, PromptFails, ReadAnswered, MutateAnswered, StateAnswered, Heads
  <2>1. Answered(w) \in [Worker -> WorkerObjects] /\ Answered(w)[w].proc = "live"
    BY <1>0, <2>0, OwnedAnswered
  <2>2. \A u \in Worker : Answered(w)[u].proc # "killed"
    BY <1>0, <2>0, <2>1, AnsweredTyped DEF NoneKilled
  <2> DEFINE t == Head(worker[w].queue).turn
  <2>3. CASE PromptAnswered(w) \/ PromptFails(w)
    <3>1. t \in Turn
      BY ZenonT(60), <1>0, <2>0, <2>3, OwnedAnswered DEF PromptAnswered, PromptFails, Heads
    <3>2. PICK tn :
            /\ tn = turn \/ \E p \in {"due", "over"} : tn = [turn EXCEPT ![t].prompt = p]
            /\ \/ StillActive(t) /\ Terminal(t, tn, Answered(w), cleanup)
               \/ Quiet(tn, Answered(w), cleanup)
      <4>1. CASE PromptAnswered(w)
        BY <4>1 DEF PromptAnswered, Completes
      <4>2. CASE PromptFails(w)
        BY <4>2 DEF PromptFails
      <4> QED
        BY ZenonT(60), <2>3, <4>1, <4>2
    <3> HIDE DEF t
    <3>3. tn \in [Turn -> TurnStates] /\ \A x \in Turn : tn[x].ended = turn[x].ended
      BY <1>0, <3>1, <3>2 DEF TurnStates
    <3> QED
      BY <1>0, <2>1, <2>2, <3>1, <3>2, <3>3, EventOnce DEF StillActive
  <2>4. CASE ReadAnswered(w) \/ StateAnswered(w)
    BY <2>2, <2>4 DEF ReadAnswered, StateAnswered, NoneKilled, TerminalOnce
  <2>5. CASE MutateAnswered(w)
    <3>1. worker' = [Answered(w) EXCEPT ![w] = Enqueue(Answered(w)[w], "state", None)] /\ turn' = turn
      BY <2>5 DEF MutateAnswered
    <3>2. Enqueue(Answered(w)[w], "state", None).proc = "live"
      BY <2>1 DEF Enqueue, WorkerObjects
    <3> QED
      BY <2>1, <2>2, <3>1, <3>2 DEF NoneKilled, TerminalOnce
  <2> QED
    BY <1>6, <2>3, <2>4, <2>5 DEF Answers
<1>7. ASSUME NEW t \in Turn, Abort(t) \/ AbortAnswered(t) \/ FinishAbort(t)
      PROVE  NoneKilled' /\ TerminalOnce'
  <2>1. CASE AbortAnswered(t)
    <3>1. \/ StillActive(t) /\ Terminal(t, turn, worker, cleanup)
          \/ Quiet(turn, worker, cleanup)
      BY <2>1 DEF AbortAnswered
    <3> QED
      BY <1>0, <3>1, EventOnce DEF StillActive, NoneKilled
  <2>2. CASE Abort(t) \/ FinishAbort(t)
    <3>1. turn' = turn /\ \E u, x : worker' = [worker EXCEPT ![u].aborting = x]
      BY <2>2 DEF Abort, FinishAbort
    <3>2. \A u \in Worker : worker'[u].proc = worker[u].proc
      BY <1>0, <3>1 DEF WorkerObjects
    <3> QED
      BY <3>1, <3>2 DEF NoneKilled, TerminalOnce
  <2> QED
    BY <1>7, <2>1, <2>2
<1>8. ASSUME NEW w \in Worker, NEW t \in Turn, RunStarts(w, t) PROVE NoneKilled' /\ TerminalOnce'
  <2>1. turn' = [turn EXCEPT ![t].prompt = "running"] /\ worker' = worker
    BY <1>8 DEF RunStarts
  <2>2. \A x \in Turn : turn'[x].ended = turn[x].ended
    BY <1>0, <2>1 DEF TurnStates
  <2> QED
    BY <2>1, <2>2 DEF NoneKilled, TerminalOnce
<1>9. ASSUME NEW w \in Worker, NEW t \in Turn, RunSettles(w, t) PROVE NoneKilled' /\ TerminalOnce'
  <2> DEFINE reported == worker[w].turn
  <2> DEFINE tn == [turn EXCEPT ![t].prompt = "over"]
  <2> DEFINE wk == [worker EXCEPT ![w].aborting = IF @ = reported THEN None ELSE @]
  <2>1. /\ tn \in [Turn -> TurnStates] /\ \A x \in Turn : tn[x].ended = turn[x].ended
    BY <1>0 DEF TurnStates
  <2>2. wk \in [Worker -> WorkerObjects] /\ \A u \in Worker : wk[u].proc = worker[u].proc
    BY ZenonT(60), <1>0 DEF WorkerObjects
  <2>3. /\ worker[w].proc = "live"
        /\ \/ reported = None /\ Quiet(tn, worker, cleanup)
           \/ reported # None /\ Terminal(reported, tn, wk, cleanup)
    BY <1>9 DEF RunSettles
  <2>4. reported \in Turn \cup {None} /\ (reported # None => active.turn = reported)
    BY <1>0, <2>3, OwnsFacts
  <2> HIDE DEF reported, tn, wk
  <2>5. CASE reported # None /\ Terminal(reported, tn, wk, cleanup)
    <3>1. reported \in Turn /\ active.turn = reported /\ \A u \in Worker : wk[u].proc # "killed"
      BY <2>2, <2>4, <2>5 DEF NoneKilled
    <3> QED
      BY <1>0, <2>1, <2>2, <2>5, <3>1, EventOnce
  <2>6. CASE Quiet(tn, worker, cleanup)
    BY <2>1, <2>6 DEF Quiet, NoneKilled, TerminalOnce
  <2> QED
    BY <2>3, <2>5, <2>6
<1>10. ASSUME NEW w \in Worker, PiWrites(w) PROVE NoneKilled' /\ TerminalOnce'
  BY <1>10 DEF PiWrites, NoneKilled, TerminalOnce
<1>11. CASE OwnedRefreshed
  BY <1>11 DEF OwnedRefreshed, NoneKilled, TerminalOnce
<1>12. ASSUME NEW w \in Worker, TimesOut(w) \/ Close(w) PROVE NoneKilled' /\ TerminalOnce'
  <2> DEFINE t == worker[w].turn
  <2> DEFINE tn == TurnsLost(w)
  <2> DEFINE wk == [worker EXCEPT ![w] = NoWorker]
  <2>1. /\ worker[w].proc # "none"
        /\ \/ t # None /\ Terminal(t, tn, wk, CleanupLost(w))
           \/ t = None /\ Quiet(tn, wk, CleanupLost(w))
    BY <1>12 DEF Close
  <2>2. worker[w].proc = "live"
    BY <1>0, <2>1 DEF NoneKilled, WorkerObjects
  <2>3. t \in Turn \cup {None} /\ (t # None => active.turn = t)
    BY <1>0, <2>2, OwnsFacts
  <2>4. tn \in [Turn -> TurnStates] /\ \A x \in Turn : tn[x].ended = turn[x].ended
    BY <1>0 DEF TurnsLost, TurnStates
  <2>5. NoWorker \in WorkerObjects /\ NoWorker.proc = "none"
    BY DEF NoWorker, WorkerObjects
  <2>6. wk \in [Worker -> WorkerObjects] /\ \A u \in Worker : wk[u].proc # "killed"
    BY <1>0, <2>5 DEF NoneKilled
  <2> HIDE DEF t, tn, wk
  <2>7. CASE t # None /\ Terminal(t, tn, wk, CleanupLost(w))
    <3>1. t \in Turn /\ active.turn = t
      BY <2>3, <2>7
    <3> QED
      BY <1>0, <2>4, <2>6, <2>7, <3>1, EventOnce
  <2>8. CASE Quiet(tn, wk, CleanupLost(w))
    BY <2>4, <2>6, <2>8 DEF Quiet, NoneKilled, TerminalOnce
  <2> QED
    BY <2>1, <2>7, <2>8
<1> QED
  BY <1>2, <1>3, <1>4, <1>5, <1>6, <1>7, <1>8, <1>9, <1>10, <1>11, <1>12 DEF Next

-----------------------------------------------------------------------------
(* Without other commands in the queues, a prompt is the first in its      *)
(* queue, and Pi works on prompts of the active turn only.                 *)

Working == {"queued", "due", "running"}

WorkAt(t, ac, tn) ==
  /\ tn[t].prompt \in Working => ac.turn = t /\ tn[t].worker # None
  /\ tn[t].prompt = "running" => ac.ran

FirstAt(q, w, ac, tn, cl) ==
  \A i \in DOMAIN q :
    /\ q[i].kind # "read"
    /\ q[i].kind = "prompt" => /\ i = 1
                               /\ ac.worker = w \/ cl.worker = w
                               /\ q[i].turn \in Turn /\ tn[q[i].turn].prompt # "due"

WaitsAt(t, tn, wk) ==
  tn[t].prompt = "queued" =>
    LET q == wk[tn[t].worker].queue IN q # <<>> /\ q[1] = Command("prompt", t)

InOrder(ac, tn, wk, cl) ==
  /\ \A t \in Turn : WorkAt(t, ac, tn) /\ WaitsAt(t, tn, wk)
  /\ \A w \in Worker : FirstAt(wk[w].queue, w, ac, tn, cl)

Order == InOrder(active, turn, worker, cleanup)

(* A queue with neither prompts nor reads.                                 *)
Bare(q) == \A i \in DOMAIN q : q[i].kind \notin {"prompt", "read"}

Undone(tn) == \A t \in Turn : tn[t].prompt \notin Working

(* Behind the first command there is no prompt, and nowhere a read.        *)
LEMMA FirstTail ==
  ASSUME NEW q \in Queues, q # <<>>, NEW w, NEW ac, NEW tn, NEW cl, FirstAt(q, w, ac, tn, cl)
  PROVE  Bare(Tail(q))
<1>1. /\ DOMAIN Tail(q) = 1..(Len(q) - 1) /\ DOMAIN q = 1..Len(q) /\ Len(q) \in Nat \ {0}
      /\ \A i \in 1..(Len(q) - 1) : Tail(q)[i] = q[i + 1]
  BY DEF Queues
<1> SUFFICES ASSUME NEW i \in DOMAIN Tail(q) PROVE Tail(q)[i].kind \notin {"prompt", "read"}
  BY DEF Bare
<1>2. i + 1 \in DOMAIN q /\ i + 1 # 1 /\ Tail(q)[i] = q[i + 1]
  BY <1>1
<1> QED
  BY <1>2 DEF FirstAt

(* A mutation or a refresh may be added.                                   *)
LEMMA FirstAppend ==
  ASSUME NEW q \in Queues, NEW w, NEW ac, NEW tn, NEW cl, FirstAt(q, w, ac, tn, cl),
         NEW kind, kind \notin {"prompt", "read"}, NEW t
  PROVE  FirstAt(Append(q, Command(kind, t)), w, ac, tn, cl)
<1> DEFINE new == Append(q, Command(kind, t))
<1>1. /\ DOMAIN new = 1..(Len(q) + 1) /\ DOMAIN q = 1..Len(q) /\ Len(q) \in Nat
      /\ \A i \in 1..Len(q) : new[i] = q[i]
      /\ new[Len(q) + 1].kind = kind
  BY Appended
<1> HIDE DEF new
<1>2. ASSUME NEW i \in DOMAIN new
      PROVE  /\ new[i].kind # "read"
             /\ new[i].kind = "prompt" => /\ i = 1
                                          /\ ac.worker = w \/ cl.worker = w
                                          /\ new[i].turn \in Turn /\ tn[new[i].turn].prompt # "due"
  <2>1. CASE i \in DOMAIN q
    BY <1>1, <2>1 DEF FirstAt
  <2>2. CASE i = Len(q) + 1
    BY <1>1, <2>2
  <2> QED
    BY <1>1, <2>1, <2>2
<1>3. FirstAt(new, w, ac, tn, cl)
  BY <1>2 DEF FirstAt
<1> QED
  BY <1>3 DEF new

(* A terminal event of the active turn comes when the prompts are done.    *)
LEMMA EventOrder ==
  ASSUME TypeOK, NEW t \in Turn, NEW tn \in [Turn -> TurnStates],
         NEW wk \in [Worker -> WorkerObjects], NEW cl \in Cleanups,
         InOrder(active, tn, wk, cl), active = NoTurn \/ cl = NoRefresh,
         \A w \in Worker : wk[w].proc # "live" => wk[w].queue = <<>>,
         active.turn = t /\ active.worker # None => Undone(tn),
         Terminal(t, tn, wk, cl)
  PROVE  Order'
<1> USE TurnLifecycleAssumption
<1> DEFINE w == active.worker
<1>1. \A x \in Turn : turn'[x].prompt = tn[x].prompt /\ turn'[x].worker = tn[x].worker
  <2>1. turn' = [tn EXCEPT ![t].ended = @ + 1]
    BY DEF Terminal
  <2> QED
    BY <2>1 DEF TurnStates
<1>2. \A x \in Turn : WorkAt(x, active, tn) /\ WaitsAt(x, tn, wk)
  BY DEF InOrder
<1>3. \A u \in Worker : FirstAt(wk[u].queue, u, active, tn, cl) /\ wk[u].queue \in Queues
  BY DEF InOrder, WorkerObjects, Queues, Entries
<1>4. CASE ~(active.turn = t /\ w # None)
  <2>1. active' = active /\ worker' = wk /\ cleanup' = cl
    BY <1>4 DEF Terminal
  <2>2. ASSUME NEW x \in Turn PROVE WorkAt(x, active, turn') /\ WaitsAt(x, turn', wk)
    BY <1>1, <1>2 DEF WorkAt, WaitsAt
  <2>3. ASSUME NEW u \in Worker PROVE FirstAt(wk[u].queue, u, active, turn', cl)
    <3>1. FirstAt(wk[u].queue, u, active, tn, cl)
      BY <1>3
    <3> QED
      BY <1>1, <3>1 DEF FirstAt
  <2>4. InOrder(active, turn', wk, cl)
    BY <2>2, <2>3 DEF InOrder
  <2> QED
    BY <2>1, <2>4 DEF Order
<1>5. CASE active.turn = t /\ w # None
  <2>1. active' = NoTurn /\ Undone(tn) /\ w \in Worker
    BY <1>5 DEF Terminal, TypeOK, ActiveTurns
  <2>2. cl.worker = None
    BY <1>5 DEF NoTurn, NoRefresh
  <2>3. ASSUME NEW x \in Turn PROVE WorkAt(x, active', turn') /\ WaitsAt(x, turn', worker')
    BY <1>1, <2>1 DEF WorkAt, WaitsAt, Undone, Working
  <2>4. ASSUME NEW u \in Worker, u # w PROVE FirstAt(worker'[u].queue, u, active', turn', cleanup')
    <3>1. worker'[u] = wk[u]
      BY <2>4 DEF Terminal
    <3>2. FirstAt(wk[u].queue, u, active, tn, cl)
      BY <1>3
    <3> QED
      BY <2>2, <2>4, <3>1, <3>2 DEF FirstAt
  <2>5. FirstAt(worker'[w].queue, w, active', turn', cleanup')
    <3>1. CASE wk[w].proc = "live"
      <4> DEFINE obj == [wk[w] EXCEPT !.turn = None]
      <4>1. obj \in WorkerObjects /\ obj.queue = wk[w].queue
        BY ZenonT(60), <2>1 DEF WorkerObjects
      <4>2. worker' = [wk EXCEPT ![w] = Enqueue(obj, "state", None)]
            /\ cleanup' = [pc |-> "refresh", worker |-> w, turn |-> t]
        BY <1>5, <3>1 DEF Terminal
      <4>3. worker'[w] = Enqueue(obj, "state", None) /\ cleanup'.worker = w
        BY <2>1, <4>2
      <4> HIDE DEF obj
      <4>4. Enqueue(obj, "state", None).queue = Append(obj.queue, Command("state", None))
        BY <4>1, Enqueued
      <4>5. FirstAt(wk[w].queue, w, active, tn, cl) /\ wk[w].queue \in Queues
        BY <1>3, <2>1
      <4>6. FirstAt(wk[w].queue, w, active', turn', cleanup')
        BY <1>1, <4>3, <4>5 DEF FirstAt
      <4>7. FirstAt(Append(wk[w].queue, Command("state", None)), w, active', turn', cleanup')
        BY <4>5, <4>6, FirstAppend
      <4> QED
        BY <4>1, <4>3, <4>4, <4>7
    <3>2. CASE wk[w].proc # "live"
      <4>1. worker' = wk
        BY <3>2 DEF Terminal
      <4>2. worker'[w].queue = <<>>
        BY <2>1, <3>2, <4>1
      <4> QED
        BY <4>2 DEF FirstAt
    <3> QED
      BY <3>1, <3>2
  <2>6. InOrder(active', turn', worker', cleanup')
    BY <2>3, <2>4, <2>5 DEF InOrder
  <2> QED
    BY <2>6 DEF Order
<1> QED
  BY <1>4, <1>5

(* A queue without prompts and reads is in order whatever else changes.    *)
LEMMA BareFirst ==
  ASSUME NEW q, Bare(q), NEW w, NEW ac, NEW tn, NEW cl
  PROVE  FirstAt(q, w, ac, tn, cl)
  BY DEF Bare, FirstAt

(* What follows from Order about the active turn.                          *)
LEMMA OrderFacts ==
  ASSUME IInv, Owns, Order
  PROVE  /\ \A t \in Turn : turn[t].prompt \in Working =>
              /\ active.turn = t /\ active.worker = turn[t].worker
              /\ active.worker \in Worker /\ worker[active.worker].turn = t
         /\ \A t \in Turn : turn[t].prompt = "running" => active.ran
         /\ \A t \in Turn : turn[t].prompt = "queued" =>
              LET q == worker[turn[t].worker].queue IN q # <<>> /\ q[1] = Command("prompt", t)
         /\ \A w \in Worker : FirstAt(worker[w].queue, w, active, turn, cleanup)
         /\ active.worker = None => Undone(turn)
         /\ active # NoTurn => cleanup = NoRefresh /\ mutation = NoRefresh
<1>1. ASSUME NEW t \in Turn, turn[t].prompt \in Working
      PROVE  /\ active.turn = t /\ active.worker = turn[t].worker
             /\ active.worker \in Worker /\ worker[active.worker].turn = t
  <2>1. active.turn = t /\ turn[t].worker # None
    BY <1>1 DEF Order, InOrder, WorkAt
  <2>2. active.worker = turn[t].worker /\ active.worker \in Worker
    BY <2>1, TurnLifecycleAssumption DEF Owns, Owned, IInv, TypeOK, ActiveTurns
  <2> QED
    BY <2>1, <2>2 DEF Owns, Known
<1>2. \A t \in Turn : turn[t].prompt = "running" => active.ran
  BY DEF Order, InOrder, WorkAt
<1>3. \A t \in Turn : turn[t].prompt = "queued" =>
        LET q == worker[turn[t].worker].queue IN q # <<>> /\ q[1] = Command("prompt", t)
  BY DEF Order, InOrder, WaitsAt
<1>4. active.worker = None => Undone(turn)
  BY <1>1, TurnLifecycleAssumption DEF Undone
<1>5. \A w \in Worker : FirstAt(worker[w].queue, w, active, turn, cleanup)
  BY DEF Order, InOrder
<1>6. active # NoTurn => cleanup = NoRefresh /\ mutation = NoRefresh
  BY DEF IInv, WritersExclusive
<1> QED
  BY <1>1, <1>2, <1>3, <1>4, <1>5, <1>6

(* Without prompts under way there is only the order of the queues.        *)
LEMMA UndoneOrder ==
  ASSUME NEW ac, NEW tn, Undone(tn), NEW wk, NEW cl,
         \A w \in Worker : FirstAt(wk[w].queue, w, ac, tn, cl)
  PROVE  InOrder(ac, tn, wk, cl)
<1> USE DEF Undone, Working
<1>1. ASSUME NEW t \in Turn PROVE WorkAt(t, ac, tn) /\ WaitsAt(t, tn, wk)
  BY DEF WorkAt, WaitsAt
<1> QED
  BY <1>1 DEF InOrder

(* The commands of a queue, and the queue without any.                     *)
LEMMA QueueEntries ==
  ASSUME NEW q \in Queues
  PROVE  /\ \A i \in DOMAIN q : q[i].kind \in {"prompt", "read", "mutate", "state"}
         /\ (\A i \in DOMAIN q : FALSE) => q = <<>>
<1>1. Len(q) \in Nat /\ DOMAIN q = 1..Len(q)
  BY DEF Queues
<1>2. ASSUME NEW i \in DOMAIN q PROVE q[i].kind \in {"prompt", "read", "mutate", "state"}
  <2>1. q[i] \in Entries
    BY <1>1, <1>2 DEF Queues
  <2> QED
    BY <2>1 DEF Entries
<1>3. ASSUME \A i \in DOMAIN q : FALSE PROVE q = <<>>
  <2>1. Len(q) = 0
    BY <1>1, <1>3
  <2> QED
    BY <2>1 DEF Queues
<1> QED
  BY <1>2, <1>3

(* A prompt is accepted only on an empty queue: the thread is reserved, and *)
(* all other users of the queue are done.                                  *)
LEMMA AdmissionOrder ==
  ASSUME ~QueuedReads, IInv, Owns, Order,
         \/ \E t \in Turn : Send(t) \/ Accept(t) \/ SendFails(t)
         \/ Mutate
         \/ \E w \in Worker : QueueRead(w) \/ Reassign(w)
  PROVE  Order'
<1> USE TurnLifecycleAssumption
<1>0. /\ TypeOK /\ Owned(active, turn, worker, abort)
      /\ worker \in [Worker -> WorkerObjects] /\ turn \in [Turn -> TurnStates]
      /\ active \in ActiveTurns
  BY DEF IInv, Owns, TypeOK
<1>1. ASSUME NEW t \in Turn, Send(t) PROVE Order'
  <2>1. active = NoTurn /\ cleanup = NoRefresh
    BY <1>1, Zenon DEF Send, Admits
  <2>2. turn' = turn /\ worker' = worker /\ cleanup' = cleanup
    BY <1>1 DEF Send
  <2>3. Undone(turn)
    BY <2>1, OrderFacts DEF NoTurn
  <2>4. active.worker = None /\ cleanup.worker = None
    BY <2>1 DEF NoTurn, NoRefresh
  <2>5. ASSUME NEW w \in Worker PROVE FirstAt(worker[w].queue, w, active', turn, cleanup)
    <3>1. FirstAt(worker[w].queue, w, active, turn, cleanup)
      BY OrderFacts
    <3> QED
      BY <2>4, <3>1 DEF FirstAt
  <2>6. InOrder(active', turn, worker, cleanup)
    BY <2>3, <2>5, UndoneOrder
  <2> QED
    BY <2>2, <2>6 DEF Order
<1>2. ASSUME NEW t \in Turn, Accept(t) PROVE Order'
  <2>1. PICK w \in Worker :
          /\ worker' = [worker EXCEPT ![w] =
                          Enqueue([worker[w] EXCEPT !.proc = "live", !.turn = t], "prompt", t)]
          /\ turn' = [turn EXCEPT ![t].worker = w, ![t].prompt = "queued"]
          /\ active' = [active EXCEPT !.worker = w]
    BY <1>2, Zenon DEF Accept
  <2>2. active.turn = t /\ active.worker = None /\ cleanup' = cleanup
    BY <1>2 DEF Accept
  <2>3. cleanup = NoRefresh /\ mutation = NoRefresh
    BY <2>2, OrderFacts DEF NoTurn
  <2>4. ASSUME NEW u \in Worker PROVE worker[u].queue = <<>>
    <3>1. Unmarked(worker[u].queue)
      BY <2>3, NoneMarked DEF IInv, Commands
    <3>2. FirstAt(worker[u].queue, u, active, turn, cleanup) /\ cleanup.worker = None
      BY <2>3, OrderFacts DEF NoRefresh
    <3>3. worker[u].queue \in Queues
      BY <1>0 DEF WorkerObjects, Queues, Entries
    <3>4. \A i \in DOMAIN worker[u].queue : FALSE
      <4> SUFFICES ASSUME NEW i \in DOMAIN worker[u].queue PROVE FALSE
        OBVIOUS
      <4>1. worker[u].queue[i].kind \in {"prompt", "read", "mutate", "state"}
        BY <3>3, QueueEntries
      <4>2. worker[u].queue[i].kind \notin {"mutate", "state"}
        BY <3>1 DEF Unmarked, Marked
      <4>3. worker[u].queue[i].kind # "read" /\ worker[u].queue[i].kind # "prompt"
        BY <2>2, <3>2 DEF FirstAt
      <4> QED
        BY <4>1, <4>2, <4>3
    <3> QED
      BY <3>3, <3>4, QueueEntries
  <2> DEFINE obj == [worker[w] EXCEPT !.proc = "live", !.turn = t]
  <2>5. obj \in WorkerObjects /\ obj.queue = worker[w].queue
    BY <1>0 DEF WorkerObjects
  <2>6. worker'[w] = Enqueue(obj, "prompt", t) /\ \A u \in Worker : u # w => worker'[u] = worker[u]
    BY <1>0, <2>1
  <2> HIDE DEF obj
  <2>7. Enqueue(obj, "prompt", t).queue = Append(obj.queue, Command("prompt", t))
    BY <2>5, Enqueued
  <2>8. worker'[w].queue = <<Command("prompt", t)>>
    BY <2>4, <2>5, <2>6, <2>7
  <2>9. active'.turn = t /\ active'.worker = w
    BY <1>0, <2>1, <2>2 DEF ActiveTurns
  <2>10. /\ turn'[t].worker = w /\ turn'[t].prompt = "queued"
         /\ \A x \in Turn : x # t => turn'[x] = turn[x]
    BY <1>0, <2>1 DEF TurnStates
  <2>11. Undone(turn)
    BY <2>2, OrderFacts
  <2>12. ASSUME NEW x \in Turn PROVE WorkAt(x, active', turn') /\ WaitsAt(x, turn', worker')
    <3>1. CASE x = t
      <4>1. WorkAt(t, active', turn')
        BY <2>9, <2>10 DEF WorkAt
      <4>2. worker'[w].queue # <<>> /\ worker'[w].queue[1] = Command("prompt", t)
        BY <2>8
      <4> QED
        BY <2>10, <3>1, <4>1, <4>2 DEF WaitsAt
    <3>2. CASE x # t
      BY <2>10, <2>11, <3>2 DEF WorkAt, WaitsAt, Undone, Working
    <3> QED
      BY <3>1, <3>2
  <2>13. ASSUME NEW u \in Worker PROVE FirstAt(worker'[u].queue, u, active', turn', cleanup')
    <3>1. CASE u = w
      BY <2>8, <2>9, <2>10, <3>1 DEF FirstAt, Command
    <3>2. CASE u # w
      BY <2>4, <2>6, <3>2 DEF FirstAt
    <3> QED
      BY <3>1, <3>2
  <2> QED
    BY <2>12, <2>13 DEF Order, InOrder
<1>3. ASSUME NEW t \in Turn, SendFails(t) PROVE Order'
  <2>1. active.worker = None /\ turn' = turn /\ worker' = worker /\ cleanup' = cleanup
    BY <1>3 DEF SendFails
  <2>2. Undone(turn)
    BY <2>1, OrderFacts
  <2>3. ASSUME NEW w \in Worker PROVE FirstAt(worker[w].queue, w, active', turn, cleanup)
    <3>1. FirstAt(worker[w].queue, w, active, turn, cleanup)
      BY OrderFacts
    <3> QED
      BY <2>1, <3>1 DEF FirstAt
  <2>4. InOrder(active', turn, worker, cleanup)
    BY <2>2, <2>3, UndoneOrder
  <2> QED
    BY <2>1, <2>4 DEF Order
<1>4. CASE Mutate
  <2>1. PICK w \in Worker :
          worker' = [worker EXCEPT ![w] = Enqueue([worker[w] EXCEPT !.proc = "live"], "mutate", None)]
    BY <1>4, Zenon DEF Mutate
  <2>2. active' = active /\ turn' = turn /\ cleanup' = cleanup /\ active = NoTurn
    BY <1>4 DEF Mutate, Admits
  <2>3. Undone(turn)
    BY <2>2, OrderFacts DEF NoTurn
  <2> DEFINE obj == [worker[w] EXCEPT !.proc = "live"]
  <2>4. obj \in WorkerObjects /\ obj.queue = worker[w].queue
    BY <1>0 DEF WorkerObjects
  <2>5. worker'[w] = Enqueue(obj, "mutate", None) /\ \A u \in Worker : u # w => worker'[u] = worker[u]
    BY <1>0, <2>1
  <2> HIDE DEF obj
  <2>6. /\ Enqueue(obj, "mutate", None).queue = Append(obj.queue, Command("mutate", None))
        /\ obj.queue \in Queues
    BY <2>4, Enqueued
  <2>7. ASSUME NEW u \in Worker PROVE FirstAt(worker'[u].queue, u, active, turn, cleanup)
    <3>1. FirstAt(worker[u].queue, u, active, turn, cleanup)
      BY OrderFacts
    <3>2. CASE u = w
      <4>1. FirstAt(Append(worker[u].queue, Command("mutate", None)), u, active, turn, cleanup)
        BY <2>4, <2>6, <3>1, <3>2, FirstAppend
      <4> QED
        BY <2>4, <2>6, <2>5, <3>2, <4>1
    <3>3. CASE u # w
      BY <2>5, <3>1, <3>3
    <3> QED
      BY <3>2, <3>3
  <2>8. InOrder(active, turn, worker', cleanup)
    BY <2>3, <2>7, UndoneOrder
  <2> QED
    BY <2>2, <2>8 DEF Order
<1>5. ASSUME NEW w \in Worker, QueueRead(w) PROVE Order'
  BY <1>5 DEF QueueRead
<1>6. ASSUME NEW w \in Worker, Reassign(w) PROVE Order'
  <2>1. /\ worker' = [worker EXCEPT ![w] = NoWorker] /\ active.turn = None
        /\ active' = active /\ turn' = turn /\ cleanup' = cleanup
    BY <1>6 DEF Reassign
  <2>2. Undone(turn)
    BY <1>0, <2>1, OrderFacts, OwnsFacts DEF NoTurn
  <2>3. ASSUME NEW u \in Worker PROVE FirstAt(worker'[u].queue, u, active, turn, cleanup)
    <3>1. CASE u = w
      BY <1>0, <2>1, <3>1 DEF NoWorker, FirstAt
    <3>2. CASE u # w
      BY <1>0, <2>1, <3>2, OrderFacts
    <3> QED
      BY <3>1, <3>2
  <2>4. InOrder(active, turn, worker', cleanup)
    BY <2>2, <2>3, UndoneOrder
  <2> QED
    BY <2>1, <2>4 DEF Order
<1> QED
  BY <1>1, <1>2, <1>3, <1>4, <1>5, <1>6

(* An answered prompt ends its turn only if no run of it is still to come. *)
LEMMA AnswersOrder ==
  ASSUME ~QueuedReads, IInv, Owns, Order, NEW w \in Worker, Answers(w)
  PROVE  Order'
<1> USE TurnLifecycleAssumption
<1> DEFINE q == worker[w].queue
<1> DEFINE t == Head(q).turn
<1>0. /\ TypeOK /\ Owned(active, turn, worker, abort) /\ q # <<>>
      /\ worker \in [Worker -> WorkerObjects] /\ turn \in [Turn -> TurnStates]
  BY DEF IInv, Owns, TypeOK, Answers, PromptAnswered, PromptFails, ReadAnswered, MutateAnswered,
    StateAnswered, Heads
<1>1. /\ Answered(w) \in [Worker -> WorkerObjects] /\ Answered(w)[w].queue = Tail(q)
      /\ \A u \in Worker : u # w => Answered(w)[u] = worker[u]
      /\ q \in Queues
  BY <1>0, AnsweredTyped
<1>2. Head(q) = q[1] /\ 1 \in DOMAIN q /\ FirstAt(q, w, active, turn, cleanup)
  BY <1>0, <1>1, HeadTyped, OrderFacts
<1>3. Bare(Answered(w)[w].queue)
  BY <1>0, <1>1, <1>2, FirstTail
<1>4. CASE PromptAnswered(w) \/ PromptFails(w)
  <2>1. Head(q).kind = "prompt" /\ t \in Turn /\ turn[t].worker = w
    BY <1>0, <1>4, OwnedAnswered DEF PromptAnswered, PromptFails, Heads
  <2>2. turn[t].prompt # "due"
    BY <1>2, <2>1 DEF FirstAt
  <2>3. PICK tn :
          /\ \/ tn = turn /\ turn[t].prompt # "queued"
             \/ \E p \in {"due", "over"} : tn = [turn EXCEPT ![t].prompt = p] /\ turn[t].prompt = "queued"
          /\ \/ /\ StillActive(t) /\ tn[t].prompt \notin {"due", "running"}
                /\ Terminal(t, tn, Answered(w), cleanup)
             \/ Quiet(tn, Answered(w), cleanup)
    <3>1. CASE PromptFails(w)
      BY ZenonT(60), <1>0, <2>1, <3>1 DEF PromptFails, TurnStates
    <3>2. CASE PromptAnswered(w)
      <4>1. PICK d \in {"started", "handled"} :
              LET tn == IF turn[t].prompt # "queued" THEN turn
                        ELSE [turn EXCEPT ![t].prompt = IF d = "started" THEN "due" ELSE "over"]
              IN IF Completes(t, d)
                 THEN Terminal(t, tn, Answered(w), cleanup)
                 ELSE Quiet(tn, Answered(w), cleanup)
        BY <3>2 DEF PromptAnswered
      <4> DEFINE tn == IF turn[t].prompt # "queued" THEN turn
                       ELSE [turn EXCEPT ![t].prompt = IF d = "started" THEN "due" ELSE "over"]
      <4>2. Completes(t, d) => StillActive(t) /\ tn[t].prompt \notin {"due", "running"}
        <5> SUFFICES ASSUME Completes(t, d) PROVE StillActive(t) /\ tn[t].prompt \notin {"due", "running"}
          OBVIOUS
        <5>1. StillActive(t) /\ d = "handled" /\ ~active.ran
          BY DEF Completes
        <5>2. turn[t].prompt # "running"
          BY <2>1, <5>1, OrderFacts
        <5>3. CASE turn[t].prompt # "queued"
          BY <2>2, <5>1, <5>2, <5>3
        <5>4. CASE turn[t].prompt = "queued"
          BY <1>0, <2>1, <5>1, <5>4 DEF TurnStates
        <5> QED
          BY <5>3, <5>4
      <4>3. \/ tn = turn /\ turn[t].prompt # "queued"
            \/ \E p \in {"due", "over"} : tn = [turn EXCEPT ![t].prompt = p] /\ turn[t].prompt = "queued"
        BY ZenonT(60)
      <4>4. \/ /\ StillActive(t) /\ tn[t].prompt \notin {"due", "running"}
               /\ Terminal(t, tn, Answered(w), cleanup)
            \/ Quiet(tn, Answered(w), cleanup)
        BY <4>1, <4>2
      <4> QED
        BY <4>3, <4>4
    <3> QED
      BY <1>4, <3>1, <3>2
  <2> HIDE DEF t, q
  <2>4. /\ tn \in [Turn -> TurnStates] /\ \A x \in Turn : x # t => tn[x] = turn[x]
        /\ tn[t].worker = w /\ tn[t].prompt # "queued"
        /\ tn[t].prompt \in Working => turn[t].prompt \in Working
        /\ tn[t].prompt = "running" => turn[t].prompt = "running"
    BY SMTT(30), <1>0, <2>1, <2>3 DEF TurnStates, Working
  <2>5. ASSUME NEW x \in Turn PROVE WorkAt(x, active, tn) /\ WaitsAt(x, tn, Answered(w))
    <3>0. WorkAt(x, active, turn) /\ WaitsAt(x, turn, worker)
      BY DEF Order, InOrder
    <3>1. CASE x = t
      BY <2>1, <2>4, <3>0, <3>1 DEF WorkAt, WaitsAt
    <3>2. CASE x # t
      <4>1. WorkAt(x, active, tn)
        BY <2>4, <3>0, <3>2 DEF WorkAt
      <4>2. ASSUME tn[x].prompt = "queued"
            PROVE  LET r == Answered(w)[tn[x].worker].queue
                   IN r # <<>> /\ r[1] = Command("prompt", x)
        <5>1. turn[x].prompt = "queued" /\ tn[x].worker = turn[x].worker
          BY <2>4, <3>2, <4>2
        <5>2. turn[x].worker \in Worker /\ worker[turn[x].worker].queue # <<>>
              /\ worker[turn[x].worker].queue[1] = Command("prompt", x)
          BY <5>1, OrderFacts DEF Working
        <5>3. turn[x].worker # w
          BY <1>2, <3>2, <5>2 DEF t, q, Command
        <5> QED
          BY <1>1, <5>1, <5>2, <5>3
      <4> QED
        BY <4>1, <4>2 DEF WaitsAt
    <3> QED
      BY <3>1, <3>2
  <2>6. ASSUME NEW u \in Worker PROVE FirstAt(Answered(w)[u].queue, u, active, tn, cleanup)
    <3>1. CASE u = w
      BY <1>3, <3>1, BareFirst
    <3>2. CASE u # w
      <4>1. FirstAt(worker[u].queue, u, active, turn, cleanup)
        BY OrderFacts
      <4>2. PromptsAt(worker[u].queue, u, turn)
        BY <1>0, OwnsFacts
      <4>3. Answered(w)[u] = worker[u]
        BY <1>1, <3>2
      <4> QED
        BY <2>1, <2>4, <3>2, <4>1, <4>2, <4>3 DEF FirstAt, PromptsAt
    <3> QED
      BY <3>1, <3>2
  <2>7. InOrder(active, tn, Answered(w), cleanup)
    BY <2>5, <2>6 DEF InOrder
  <2>8. CASE Quiet(tn, Answered(w), cleanup)
    BY <2>7, <2>8 DEF Quiet, Order
  <2>9. ASSUME StillActive(t), tn[t].prompt \notin {"due", "running"},
               Terminal(t, tn, Answered(w), cleanup)
        PROVE  Order'
    <3>1. active.turn = t
      BY <2>9 DEF StillActive
    <3>2. Undone(tn)
      <4> SUFFICES ASSUME NEW x \in Turn PROVE tn[x].prompt \notin Working
        BY DEF Undone
      <4>1. WorkAt(x, active, tn)
        BY <2>5
      <4> QED
        BY <2>4, <2>9, <3>1, <4>1 DEF WorkAt, Working
    <3>3. cleanup \in Cleanups /\ (active = NoTurn \/ cleanup = NoRefresh)
      BY <1>0, OrderFacts DEF TypeOK
    <3>4. \A u \in Worker : Answered(w)[u].proc # "live" => Answered(w)[u].queue = <<>>
      BY <1>0, <1>1, OwnedAnswered, OwnsFacts DEF q
    <3> QED
      BY <1>0, <1>1, <2>1, <2>4, <2>7, <2>9, <3>2, <3>3, <3>4, EventOrder
  <2> QED
    BY <2>3, <2>8, <2>9
<1>5. CASE ReadAnswered(w)
  BY <1>2, <1>5 DEF ReadAnswered, Heads, FirstAt
<1>6. ASSUME ~(Head(q).kind = "prompt")
      PROVE  /\ \A x \in Turn : WorkAt(x, active, turn) /\ WaitsAt(x, turn, Answered(w))
             /\ \A x \in Turn : turn[x].prompt = "queued" => turn[x].worker # w
  <2> SUFFICES ASSUME NEW x \in Turn
               PROVE  /\ WorkAt(x, active, turn) /\ WaitsAt(x, turn, Answered(w))
                      /\ turn[x].prompt = "queued" => turn[x].worker # w
    OBVIOUS
  <2>1. WorkAt(x, active, turn) /\ WaitsAt(x, turn, worker)
    BY DEF Order, InOrder
  <2>2. turn[x].prompt = "queued" =>
          /\ turn[x].worker \in Worker /\ turn[x].worker # w
          /\ worker[turn[x].worker].queue # <<>>
          /\ worker[turn[x].worker].queue[1] = Command("prompt", x)
    BY <1>2, <1>6, OrderFacts DEF Working, Command
  <2> QED
    BY <1>1, <2>1, <2>2 DEF WaitsAt
<1>7. CASE StateAnswered(w)
  <2>1. /\ Head(q).kind = "state" /\ worker' = Answered(w) /\ active' = active /\ turn' = turn
        /\ \/ cleanup.worker = w /\ cleanup' = NoRefresh
           \/ cleanup' = cleanup
    BY <1>7 DEF StateAnswered, Heads
  <2>2. ASSUME NEW u \in Worker PROVE FirstAt(Answered(w)[u].queue, u, active, turn, cleanup')
    <3>1. CASE u = w
      BY <1>3, <3>1, BareFirst
    <3>2. CASE u # w
      <4>1. FirstAt(worker[u].queue, u, active, turn, cleanup)
        BY OrderFacts
      <4>2. cleanup.worker = u => cleanup'.worker = u
        BY <2>1, <3>2
      <4> QED
        BY <1>1, <3>2, <4>1, <4>2 DEF FirstAt
    <3> QED
      BY <3>1, <3>2
  <2>3. \A x \in Turn : WorkAt(x, active, turn) /\ WaitsAt(x, turn, Answered(w))
    BY <1>6, <2>1
  <2> QED
    BY <2>1, <2>2, <2>3 DEF Order, InOrder
<1>8. CASE MutateAnswered(w)
  <2>1. /\ Head(q).kind = "mutate" /\ active' = active /\ turn' = turn /\ cleanup' = cleanup
        /\ worker' = [Answered(w) EXCEPT ![w] = Enqueue(Answered(w)[w], "state", None)]
    BY <1>8 DEF MutateAnswered, Heads
  <2>2. mutation.pc = "mutating"
    BY <1>2, <2>1 DEF IInv, Commands, CommandsOf, CommandsAt
  <2>3. Undone(turn)
    BY <2>2, OrderFacts DEF NoRefresh, NoTurn
  <2> DEFINE obj == Answered(w)[w]
  <2>4. obj \in WorkerObjects
    BY <1>1
  <2>5. /\ Enqueue(obj, "state", None).queue = Append(obj.queue, Command("state", None))
        /\ obj.queue \in Queues
    BY <2>4, Enqueued
  <2>6. worker'[w] = Enqueue(obj, "state", None) /\ \A u \in Worker : u # w => worker'[u] = worker[u]
    BY <1>1, <2>1
  <2> HIDE DEF obj
  <2>7. ASSUME NEW u \in Worker PROVE FirstAt(worker'[u].queue, u, active, turn, cleanup)
    <3>1. CASE u = w
      <4>1. FirstAt(obj.queue, w, active, turn, cleanup)
        BY <1>3, BareFirst DEF obj
      <4>2. FirstAt(Append(obj.queue, Command("state", None)), w, active, turn, cleanup)
        BY <2>5, <4>1, FirstAppend
      <4> QED
        BY <2>5, <2>6, <3>1, <4>2
    <3>2. CASE u # w
      BY <2>6, <3>2, OrderFacts
    <3> QED
      BY <3>1, <3>2
  <2>8. InOrder(active, turn, worker', cleanup)
    BY <2>3, <2>7, UndoneOrder
  <2> QED
    BY <2>1, <2>8 DEF Order
<1> QED
  BY <1>4, <1>5, <1>7, <1>8 DEF Answers

(* Pi answers an abort when it has no prompt left, the active turn's       *)
(* neither: a queued prompt would be the one it works on.                  *)
LEMMA AbortsOrder ==
  ASSUME ~QueuedReads, IInv, Owns, Order, NEW t \in Turn,
         Abort(t) \/ AbortAnswered(t) \/ FinishAbort(t)
  PROVE  Order'
<1> USE TurnLifecycleAssumption
<1>0. /\ TypeOK /\ Owned(active, turn, worker, abort)
      /\ worker \in [Worker -> WorkerObjects] /\ turn \in [Turn -> TurnStates]
      /\ cleanup \in Cleanups
  BY DEF IInv, Owns, TypeOK
<1>1. CASE Abort(t) \/ FinishAbort(t)
  <2>1. /\ active' = active /\ turn' = turn /\ cleanup' = cleanup
        /\ \E u, x : worker' = [worker EXCEPT ![u].aborting = x]
    BY <1>1 DEF Abort, FinishAbort
  <2>2. \A u \in Worker : worker'[u].queue = worker[u].queue
    BY <1>0, <2>1 DEF WorkerObjects
  <2>3. ASSUME NEW x \in Turn PROVE WorkAt(x, active, turn) /\ WaitsAt(x, turn, worker')
    <3>1. WorkAt(x, active, turn) /\ WaitsAt(x, turn, worker)
      BY DEF Order, InOrder
    <3>2. turn[x].prompt = "queued" => turn[x].worker \in Worker
      BY OrderFacts DEF Working
    <3> QED
      BY <2>2, <3>1, <3>2 DEF WaitsAt
  <2>4. \A u \in Worker : FirstAt(worker'[u].queue, u, active, turn, cleanup)
    BY <2>2, OrderFacts
  <2> QED
    BY <2>1, <2>3, <2>4 DEF Order, InOrder
<1>2. CASE AbortAnswered(t)
  <2>1. /\ InPi(turn[t].worker) = {}
        /\ \/ StillActive(t) /\ Terminal(t, turn, worker, cleanup)
           \/ Quiet(turn, worker, cleanup)
    BY <1>2 DEF AbortAnswered
  <2>2. CASE Quiet(turn, worker, cleanup)
    BY <2>2 DEF Quiet, Order
  <2>3. ASSUME StillActive(t), Terminal(t, turn, worker, cleanup) PROVE Order'
    <3>1. active.turn = t /\ active # NoTurn
      BY <2>3 DEF StillActive, NoTurn
    <3>2. Undone(turn)
      <4> SUFFICES ASSUME NEW x \in Turn, turn[x].prompt \in Working PROVE FALSE
        BY DEF Undone
      <4>1. x = t
        BY <3>1, OrderFacts
      <4>2. CASE turn[x].prompt \in {"due", "running"}
        BY <2>1, <4>1, <4>2 DEF InPi
      <4>3. CASE turn[x].prompt = "queued"
        <5> DEFINE q == worker[turn[t].worker].queue
        <5>1. q # <<>> /\ q[1] = Command("prompt", t) /\ turn[t].worker \in Worker
          BY <4>1, <4>3, OrderFacts DEF Working
        <5>2. Head(q).kind = "prompt" /\ Head(q).turn = t
          BY <1>0, <5>1, HeadTyped, OwnsFacts DEF Command
        <5> QED
          BY <2>1, <5>1, <5>2 DEF InPi, Heads
      <4> QED
        BY <4>2, <4>3 DEF Working
    <3>3. cleanup = NoRefresh /\ \A u \in Worker : worker[u].proc # "live" => worker[u].queue = <<>>
      BY <1>0, <3>1, OrderFacts, OwnsFacts
    <3>4. InOrder(active, turn, worker, cleanup)
      BY DEF Order
    <3> QED
      BY <1>0, <2>3, <3>2, <3>3, <3>4, EventOrder
  <2> QED
    BY <2>1, <2>2, <2>3
<1> QED
  BY <1>1, <1>2

(* Runs start and settle for the active turn only.                         *)
LEMMA RunsOrder ==
  ASSUME ~QueuedReads, IInv, Owns, Order,
         \/ \E w \in Worker, t \in Turn : RunStarts(w, t) \/ RunSettles(w, t)
         \/ \E w \in Worker : PiWrites(w)
         \/ OwnedRefreshed
  PROVE  Order'
<1> USE TurnLifecycleAssumption
<1>0. /\ TypeOK /\ Owned(active, turn, worker, abort)
      /\ worker \in [Worker -> WorkerObjects] /\ turn \in [Turn -> TurnStates]
      /\ active \in ActiveTurns /\ cleanup \in Cleanups
  BY DEF IInv, Owns, TypeOK
<1>1. ASSUME NEW w \in Worker, NEW t \in Turn, RunStarts(w, t) PROVE Order'
  <2> DEFINE started == active.worker # None /\ active.turn = worker[w].turn
  <2>1. /\ t \in InPi(w) /\ turn[t].prompt \in Working
        /\ turn' = [turn EXCEPT ![t].prompt = "running"] /\ worker' = worker /\ cleanup' = cleanup
        /\ active' = [active EXCEPT !.ran = @ \/ started]
    BY <1>1 DEF RunStarts, Working
  <2>2. /\ turn'[t].prompt = "running" /\ turn'[t].worker = turn[t].worker
        /\ \A x \in Turn : x # t => turn'[x] = turn[x]
    BY <1>0, <2>1 DEF TurnStates
  <2>3. active.turn = t /\ active.worker = turn[t].worker /\ active.worker \in Worker
        /\ worker[active.worker].turn = t
    BY <2>1, OrderFacts
  <2>4. turn[t].worker = w
    BY <2>1 DEF InPi
  <2>5. started
    BY <2>3, <2>4
  <2>6. active'.turn = t /\ active'.worker = active.worker /\ active'.ran = TRUE
    <3>1. (active.ran \/ started) = TRUE
      BY <2>5, Zenon
    <3> HIDE DEF started
    <3> QED
      BY <1>0, <2>1, <2>3, <3>1 DEF ActiveTurns
  <2>7. ASSUME NEW x \in Turn PROVE WorkAt(x, active', turn') /\ WaitsAt(x, turn', worker)
    <3>1. WorkAt(x, active, turn) /\ WaitsAt(x, turn, worker)
      BY DEF Order, InOrder
    <3>2. CASE x = t
      BY <2>2, <2>3, <2>4, <2>6, <3>2 DEF WorkAt, WaitsAt
    <3>3. CASE x # t
      BY <2>2, <2>3, <2>6, <3>1, <3>3 DEF WorkAt, WaitsAt
    <3> QED
      BY <3>2, <3>3
  <2>8. ASSUME NEW u \in Worker PROVE FirstAt(worker[u].queue, u, active', turn', cleanup)
    <3>1. FirstAt(worker[u].queue, u, active, turn, cleanup)
      BY OrderFacts
    <3>2. \A x \in Turn : turn[x].prompt # "due" => turn'[x].prompt # "due"
      BY <2>2
    <3> QED
      BY <2>6, <3>1, <3>2 DEF FirstAt
  <2>9. InOrder(active', turn', worker, cleanup)
    BY <2>7, <2>8 DEF InOrder
  <2> QED
    BY <2>1, <2>9 DEF Order
<1>2. ASSUME NEW w \in Worker, NEW t \in Turn, RunSettles(w, t) PROVE Order'
  <2> DEFINE tn == [turn EXCEPT ![t].prompt = "over"]
  <2> DEFINE wk == [worker EXCEPT ![w].aborting = IF @ = worker[w].turn THEN None ELSE @]
  <2>1. /\ turn[t].worker = w /\ turn[t].prompt = "running"
        /\ \/ worker[w].turn = None /\ Quiet(tn, worker, cleanup)
           \/ worker[w].turn # None /\ Terminal(worker[w].turn, tn, wk, cleanup)
    BY <1>2 DEF RunSettles
  <2>2. active.turn = t /\ active.worker = w /\ worker[w].turn = t
    BY <2>1, OrderFacts DEF Working
  <2>3. Terminal(t, tn, wk, cleanup)
    BY <2>1, <2>2
  <2>4. /\ tn \in [Turn -> TurnStates] /\ tn[t].prompt = "over"
        /\ \A x \in Turn : x # t => tn[x] = turn[x]
    BY <1>0 DEF TurnStates
  <2>5. /\ wk \in [Worker -> WorkerObjects]
        /\ \A u \in Worker : wk[u].queue = worker[u].queue /\ wk[u].proc = worker[u].proc
    BY ZenonT(60), <1>0 DEF WorkerObjects
  <2> HIDE DEF tn, wk
  <2>6. Undone(tn)
    <3> SUFFICES ASSUME NEW x \in Turn, tn[x].prompt \in Working PROVE FALSE
      BY DEF Undone
    <3>1. x # t
      BY <2>4 DEF Working
    <3>2. turn[x].prompt \in Working
      BY <2>4, <3>1
    <3> QED
      BY <2>2, <3>1, <3>2, OrderFacts
  <2>7. ASSUME NEW u \in Worker PROVE FirstAt(wk[u].queue, u, active, tn, cleanup)
    <3>1. FirstAt(worker[u].queue, u, active, turn, cleanup)
      BY OrderFacts
    <3>2. \A x \in Turn : tn[x].prompt # "due"
      BY <2>6 DEF Undone, Working
    <3> QED
      BY <2>5, <3>1, <3>2 DEF FirstAt
  <2>8. InOrder(active, tn, wk, cleanup)
    BY <2>6, <2>7, UndoneOrder
  <2>9. cleanup = NoRefresh /\ \A u \in Worker : wk[u].proc # "live" => wk[u].queue = <<>>
    BY <1>0, <2>2, <2>5, OrderFacts, OwnsFacts DEF NoTurn
  <2> QED
    BY <1>0, <2>3, <2>4, <2>5, <2>6, <2>8, <2>9, EventOrder
<1>3. ASSUME NEW w \in Worker, PiWrites(w) PROVE Order'
  BY <1>3 DEF PiWrites, Order
<1>4. CASE OwnedRefreshed
  <2>1. /\ active' = active /\ turn' = turn /\ worker' = worker
        /\ cleanup' = cleanup \/ cleanup.worker = None
    BY <1>0, <1>4 DEF OwnedRefreshed, Cleanups
  <2>2. ASSUME NEW u \in Worker PROVE FirstAt(worker[u].queue, u, active, turn, cleanup')
    <3>1. FirstAt(worker[u].queue, u, active, turn, cleanup)
      BY OrderFacts
    <3> QED
      BY <2>1, <3>1 DEF FirstAt
  <2> QED
    BY <2>1, <2>2 DEF Order, InOrder
<1> QED
  BY <1>1, <1>2, <1>3, <1>4

(* The prompts of a worker that goes are over.                             *)
LEMMA LossOrder ==
  ASSUME ~QueuedReads, IInv, Owns, Order, NEW w \in Worker, TimesOut(w) \/ Close(w)
  PROVE  Order'
<1> USE TurnLifecycleAssumption
<1> DEFINE tn == TurnsLost(w)
<1> DEFINE cl == CleanupLost(w)
<1>0. /\ TypeOK /\ Owned(active, turn, worker, abort)
      /\ worker \in [Worker -> WorkerObjects] /\ turn \in [Turn -> TurnStates]
      /\ cleanup \in Cleanups
  BY DEF IInv, Owns, TypeOK
<1>1. /\ tn \in [Turn -> TurnStates]
      /\ \A x \in Turn : turn[x].worker = w => tn[x].prompt = "over"
      /\ \A x \in Turn : turn[x].worker # w => tn[x] = turn[x]
      /\ \A x \in Turn : tn[x].worker = turn[x].worker
  BY <1>0 DEF TurnsLost, TurnStates
<1>2. /\ cl \in Cleanups /\ (cleanup = NoRefresh => cl = NoRefresh)
      /\ \A u \in Worker : u # w /\ cleanup.worker = u => cl.worker = u
  BY <1>0 DEF CleanupLost, Cleanups, NoRefresh
<1>3. ASSUME NEW wk \in [Worker -> WorkerObjects], \A u \in Worker : u # w => wk[u] = worker[u],
             wk[w].queue = <<>>
      PROVE  InOrder(active, tn, wk, cl)
  <2>1. ASSUME NEW x \in Turn PROVE WorkAt(x, active, tn) /\ WaitsAt(x, tn, wk)
    <3>0. WorkAt(x, active, turn) /\ WaitsAt(x, turn, worker)
      BY DEF Order, InOrder
    <3>1. CASE turn[x].worker = w
      BY <1>1, <3>1 DEF WorkAt, WaitsAt, Working
    <3>2. CASE turn[x].worker # w
      <4>1. tn[x] = turn[x]
        BY <1>1, <3>2
      <4>2. turn[x].prompt = "queued" => turn[x].worker \in Worker
        BY OrderFacts DEF Working
      <4>3. turn[x].prompt = "queued" => wk[turn[x].worker] = worker[turn[x].worker]
        BY <1>3, <3>2, <4>2
      <4> QED
        BY <3>0, <4>1, <4>3 DEF WorkAt, WaitsAt
    <3> QED
      BY <3>1, <3>2
  <2>2. ASSUME NEW u \in Worker PROVE FirstAt(wk[u].queue, u, active, tn, cl)
    <3>1. CASE u = w
      BY <1>3, <3>1 DEF FirstAt
    <3>2. CASE u # w
      <4>1. FirstAt(worker[u].queue, u, active, turn, cleanup)
        BY OrderFacts
      <4>2. \A x \in Turn : turn[x].prompt # "due" => tn[x].prompt # "due"
        BY <1>1
      <4> QED
        BY <1>2, <1>3, <3>2, <4>1, <4>2 DEF FirstAt
    <3> QED
      BY <3>1, <3>2
  <2> QED
    BY <2>1, <2>2 DEF InOrder
<1>4. ASSUME NEW t \in Turn, turn[t].worker = w, active.turn = t PROVE Undone(tn)
  <2> SUFFICES ASSUME NEW x \in Turn, tn[x].prompt \in Working PROVE FALSE
    BY DEF Undone
  <2>1. turn[x].worker # w
    BY <1>1 DEF Working
  <2>2. turn[x].prompt \in Working
    BY <1>1, <2>1
  <2> QED
    BY <1>4, <2>1, <2>2, OrderFacts
<1>5. active = NoTurn \/ cl = NoRefresh
  BY <1>2, OrderFacts
<1>6. ASSUME NEW t \in Turn, turn[t].worker = w,
             NEW wk \in [Worker -> WorkerObjects], \A u \in Worker : u # w => wk[u] = worker[u],
             wk[w].queue = <<>>, Terminal(t, tn, wk, cl)
      PROVE  Order'
  <2>1. InOrder(active, tn, wk, cl)
    BY <1>3, <1>6
  <2>2. \A u \in Worker : wk[u].proc # "live" => wk[u].queue = <<>>
    BY <1>0, <1>6, OwnsFacts
  <2>3. active.turn = t => Undone(tn)
    BY <1>4, <1>6
  <2> HIDE DEF tn, cl
  <2> QED
    BY <1>0, <1>1, <1>2, <1>5, <1>6, <2>1, <2>2, <2>3, EventOrder
<1>7. CASE TimesOut(w)
  <2> DEFINE obj == [worker[w] EXCEPT !.proc = "killed", !.queue = <<>>, !.aborting = None]
  <2> DEFINE wk == [worker EXCEPT ![w] = obj]
  <2>0. <<>> \in Queues
    BY DEF Queues
  <2>1. obj \in WorkerObjects /\ obj.queue = <<>>
    BY <1>0, <2>0 DEF WorkerObjects, Queues, Entries
  <2>2. \/ Unanswered(w) /\ Terminal(active.turn, tn, wk, cl)
        \/ Quiet(tn, wk, cl)
    BY <1>7 DEF TimesOut
  <2> HIDE DEF obj
  <2>3. wk \in [Worker -> WorkerObjects] /\ wk[w].queue = <<>>
        /\ \A u \in Worker : u # w => wk[u] = worker[u]
    BY <1>0, <2>1
  <2> HIDE DEF wk, tn, cl
  <2>4. ASSUME Unanswered(w), Terminal(active.turn, tn, wk, cl) PROVE Order'
    <3>1. PICK i \in DOMAIN worker[w].queue : worker[w].queue[i] = Command("prompt", active.turn)
      BY <2>4 DEF Unanswered
    <3>2. PromptsAt(worker[w].queue, w, turn)
      BY <1>0, OwnsFacts
    <3>3. active.turn \in Turn /\ turn[active.turn].worker = w
      BY <3>1, <3>2 DEF PromptsAt, Command
    <3> QED
      BY <1>6, <2>3, <2>4, <3>3
  <2>5. CASE Quiet(tn, wk, cl)
    BY <1>3, <2>3, <2>5 DEF Order, Quiet
  <2> QED
    BY <2>2, <2>4, <2>5
<1>8. CASE Close(w)
  <2> DEFINE wk == [worker EXCEPT ![w] = NoWorker]
  <2>1. NoWorker \in WorkerObjects /\ NoWorker.queue = <<>>
    BY DEF NoWorker, WorkerObjects
  <2>2. \/ worker[w].turn # None /\ Terminal(worker[w].turn, tn, wk, cl)
        \/ Quiet(tn, wk, cl)
    BY <1>8 DEF Close
  <2>3. wk \in [Worker -> WorkerObjects] /\ wk[w].queue = <<>>
        /\ \A u \in Worker : u # w => wk[u] = worker[u]
    BY <1>0, <2>1
  <2> HIDE DEF wk, tn, cl
  <2>4. ASSUME worker[w].turn # None, Terminal(worker[w].turn, tn, wk, cl) PROVE Order'
    <3>1. worker[w].turn \in Turn /\ turn[worker[w].turn].worker = w
      BY <1>0, <2>4, OwnsFacts
    <3> QED
      BY <1>6, <2>3, <2>4, <3>1
  <2>5. CASE Quiet(tn, wk, cl)
    BY <1>3, <2>3, <2>5 DEF Order, Quiet
  <2> QED
    BY <2>2, <2>4, <2>5
<1> QED
  BY <1>7, <1>8

(* Order is inductive, given IInv and Owns.                                *)
LEMMA OrderInductive ==
  ASSUME ~QueuedReads, IInv, Owns, Order, [Next]_vars
  PROVE  Order'
<1>1. CASE UNCHANGED vars
  BY <1>1 DEF vars, Order
<1>2. CASE Next
  <2>1. ASSUME NEW w \in Worker, Answers(w) PROVE Order'
    BY <2>1, AnswersOrder
  <2>2. ASSUME NEW w \in Worker, TimesOut(w) \/ Close(w) PROVE Order'
    BY <2>2, LossOrder
  <2>3. ASSUME NEW t \in Turn, Abort(t) \/ AbortAnswered(t) \/ FinishAbort(t) PROVE Order'
    BY <2>3, AbortsOrder
  <2> QED
    BY <1>2, <2>1, <2>2, <2>3, AdmissionOrder, RunsOrder DEF Next
<1> QED
  BY <1>1, <1>2

-----------------------------------------------------------------------------
(* While no worker has failed, the file differs from its baseline only     *)
(* while someone has the thread, and is on a worker.                       *)

Held(ac, cl, m) == ac.worker # None \/ cl # NoRefresh \/ m # NoRefresh

Current == baseline /\ dirty => Held(active, cleanup, mutation)

Fresh == faults = 0 => NoneKilled /\ TerminalOnce /\ Current

(* A terminal event gives the thread on to the refresh that it starts.     *)
LEMMA EventHeld ==
  ASSUME NEW t \in Turn, NEW tn, NEW wk,
         Terminal(t, tn, wk, cleanup) \/ Quiet(tn, wk, cleanup), mutation' = mutation,
         Held(active, cleanup, mutation)
  PROVE  Held(active', cleanup', mutation')
<1>1. CASE active' = active /\ cleanup' = cleanup
  BY <1>1 DEF Held
<1>2. CASE ~(active' = active /\ cleanup' = cleanup)
  <2>1. cleanup'.pc \in {"refresh", "owned"}
    BY <1>2 DEF Terminal, Quiet
  <2> QED
    BY <2>1 DEF Held, NoRefresh
<1> QED
  BY <1>1, <1>2

(* Pi writes for the active turn or a mutation only, which end with a      *)
(* refresh; a get_state is answered when no turn is on its worker.         *)
LEMMA FreshInductive ==
  ASSUME ~QueuedReads, IInv, Owns, Order, Fresh, Next
  PROVE  Fresh'
<1> USE TurnLifecycleAssumption
<1> SUFFICES ASSUME faults' = 0 PROVE NoneKilled' /\ TerminalOnce' /\ Current'
  BY DEF Fresh
<1>0. /\ TypeOK /\ Owned(active, turn, worker, abort) /\ faults \in Nat
      /\ worker \in [Worker -> WorkerObjects] /\ turn \in [Turn -> TurnStates]
      /\ active \in ActiveTurns /\ cleanup \in Cleanups
  BY DEF IInv, Owns, TypeOK
<1>1. faults = 0 /\ \A w \in Worker : ~TimesOut(w)
  <2>1. ASSUME NEW w \in Worker, TimesOut(w) PROVE FALSE
    BY <1>0, <2>1 DEF TimesOut
  <2>2. ASSUME NEW w \in Worker, Close(w) PROVE faults = 0
    BY <1>0, <2>2 DEF Close
  <2>3. CASE faults' = faults
    BY <2>1, <2>3
  <2> QED
    BY ZenonT(60), <2>1, <2>2, <2>3
    DEF Next, Answers, Send, Accept, SendFails, Abort, AbortAnswered, FinishAbort,
      PromptAnswered, PromptFails, ReadAnswered, MutateAnswered, StateAnswered, QueueRead,
      Reassign, PiWrites, RunStarts, RunSettles, Mutate, OwnedRefreshed
<1>2. NoneKilled /\ TerminalOnce /\ Current
  BY <1>1 DEF Fresh
<1>3. NoneKilled' /\ TerminalOnce'
  BY <1>1, <1>2, OnceInductive
<1>4. ASSUME Held(active, cleanup, mutation) => Held(active', cleanup', mutation'),
             baseline' = baseline /\ dirty' = dirty
      PROVE  Current'
  BY <1>2, <1>4 DEF Current
<1>5. ASSUME NEW t \in Turn, Send(t) PROVE Current'
  BY <1>5 DEF Send, Admits, Current
<1>6. ASSUME NEW t \in Turn, Accept(t) PROVE Current'
  <2>1. PICK w \in Worker : active' = [active EXCEPT !.worker = w]
    BY <1>6, Zenon DEF Accept
  <2>2. active'.worker # None
    BY <1>0, <2>1 DEF ActiveTurns
  <2> QED
    BY <2>2 DEF Current, Held
<1>7. ASSUME NEW t \in Turn, SendFails(t) PROVE Current'
  <2>1. /\ active.worker = None /\ cleanup' = cleanup /\ mutation' = mutation
        /\ baseline' = baseline /\ dirty' = dirty
    BY <1>7 DEF SendFails
  <2> QED
    BY <1>4, <2>1 DEF Held
<1>8. ASSUME Mutate PROVE Current'
  <2>1. PICK w \in Worker : mutation' = [NoRefresh EXCEPT !.pc = "mutating", !.worker = w]
    BY <1>8, Zenon DEF Mutate
  <2>2. mutation'.pc = "mutating"
    BY <2>1 DEF NoRefresh
  <2>3. mutation' # NoRefresh
    BY <2>2 DEF NoRefresh
  <2> QED
    BY <2>3 DEF Current, Held
<1>9. ASSUME NEW w \in Worker, QueueRead(w) \/ Reassign(w) PROVE Current'
  BY <1>4, <1>9 DEF QueueRead, Reassign
<1>10. ASSUME NEW w \in Worker, Answers(w) PROVE Current'
  <2> DEFINE q == worker[w].queue
  <2>0. q # <<>>
    BY <1>10 DEF Answers, PromptAnswered, PromptFails, ReadAnswered, MutateAnswered, StateAnswered, Heads
  <2>1. q \in Queues /\ Head(q) = q[1] /\ 1 \in DOMAIN q
    BY <1>0, <2>0, HeadTyped, OwnsFacts
  <2>2. CASE PromptAnswered(w) \/ PromptFails(w)
    <3> DEFINE t == Head(q).turn
    <3>1. Heads(w, "prompt") /\ mutation' = mutation /\ baseline' = baseline /\ dirty' = dirty
      BY <2>2 DEF PromptAnswered, PromptFails
    <3>2. t \in Turn
      BY <1>0, <2>0, <3>1, OwnedAnswered DEF Heads
    <3>3. PICK tn : Terminal(t, tn, Answered(w), cleanup) \/ Quiet(tn, Answered(w), cleanup)
      <4>1. CASE PromptAnswered(w)
        BY <4>1 DEF PromptAnswered
      <4>2. CASE PromptFails(w)
        BY <4>2 DEF PromptFails
      <4> QED
        BY <2>2, <4>1, <4>2
    <3> HIDE DEF t
    <3>4. Held(active, cleanup, mutation) => Held(active', cleanup', mutation')
      BY <3>1, <3>2, <3>3, EventHeld
    <3> QED
      BY <1>4, <3>1, <3>4
  <2>3. CASE ReadAnswered(w)
    BY <1>4, <2>3 DEF ReadAnswered
  <2>4. CASE MutateAnswered(w)
    <3>1. mutation' = [mutation EXCEPT !.pc = "refresh"]
      BY <2>4 DEF MutateAnswered
    <3>2. mutation'.pc = "refresh"
      BY <1>0, <3>1 DEF TypeOK, Mutations
    <3> QED
      BY <3>2 DEF Current, Held, NoRefresh
  <2>5. CASE StateAnswered(w)
    <3>1. q[1].kind = "state"
      BY <2>1, <2>5 DEF StateAnswered, Heads
    <3>2. cleanup.worker = w \/ mutation.worker = w
      BY <2>1, <3>1 DEF IInv, Commands, CommandsOf, CommandsAt
    <3>3. active = NoTurn
      BY <3>2, OrderFacts DEF NoRefresh
    <3>4. worker[w].proc = "live"
      BY <1>0, <2>0, OwnsFacts
    <3>5. worker[w].turn = None
      BY <1>0, <3>3, <3>4, OwnsFacts DEF NoTurn
    <3>6. dirty' = FALSE
      BY <2>5, <3>5 DEF StateAnswered
    <3> QED
      BY <3>6 DEF Current
  <2> QED
    BY <1>10, <2>2, <2>3, <2>4, <2>5 DEF Answers
<1>11. ASSUME NEW t \in Turn, Abort(t) \/ AbortAnswered(t) \/ FinishAbort(t) PROVE Current'
  <2>1. mutation' = mutation /\ baseline' = baseline /\ dirty' = dirty
    BY <1>11 DEF Abort, AbortAnswered, FinishAbort
  <2>2. \/ active' = active /\ cleanup' = cleanup
        \/ Terminal(t, turn, worker, cleanup) \/ Quiet(turn, worker, cleanup)
    BY <1>11 DEF Abort, AbortAnswered, FinishAbort
  <2>3. Held(active, cleanup, mutation) => Held(active', cleanup', mutation')
    <3>1. CASE active' = active /\ cleanup' = cleanup
      BY <2>1, <3>1
    <3>2. CASE Terminal(t, turn, worker, cleanup) \/ Quiet(turn, worker, cleanup)
      BY <2>1, <3>2, EventHeld
    <3> QED
      BY <2>2, <3>1, <3>2
  <2> QED
    BY <1>4, <2>1, <2>3
<1>12. ASSUME NEW w \in Worker, NEW t \in Turn, RunStarts(w, t) PROVE Current'
  <2>1. /\ cleanup' = cleanup /\ mutation' = mutation /\ baseline' = baseline /\ dirty' = dirty
        /\ \E b : active' = [active EXCEPT !.ran = b]
    BY <1>12 DEF RunStarts
  <2>2. active'.worker = active.worker
    BY <1>0, <2>1 DEF ActiveTurns
  <2> QED
    BY <1>4, <2>1, <2>2 DEF Held
<1>13. ASSUME NEW w \in Worker, NEW t \in Turn, RunSettles(w, t) PROVE Current'
  <2>1. mutation' = mutation /\ baseline' = baseline /\ dirty' = dirty
    BY <1>13 DEF RunSettles
  <2>2. worker[w].turn \in Turn \cup {None}
    BY <1>0, OwnsFacts
  <2>3. PICK tn, wk : \/ worker[w].turn # None /\ Terminal(worker[w].turn, tn, wk, cleanup)
                      \/ Quiet(tn, wk, cleanup)
    BY <1>13 DEF RunSettles
  <2>4. CASE worker[w].turn # None /\ Terminal(worker[w].turn, tn, wk, cleanup)
    <3>1. Held(active, cleanup, mutation) => Held(active', cleanup', mutation')
      BY <2>1, <2>2, <2>4, EventHeld
    <3> QED
      BY <1>4, <2>1, <3>1
  <2>5. CASE Quiet(tn, wk, cleanup)
    BY <1>4, <2>1, <2>5 DEF Quiet
  <2> QED
    BY <2>3, <2>4, <2>5
<1>14. ASSUME NEW w \in Worker, PiWrites(w) PROVE Current'
  <2>1. /\ InPi(w) # {} \/ Heads(w, "mutate")
        /\ active' = active /\ cleanup' = cleanup /\ mutation' = mutation
    BY <1>14 DEF PiWrites
  <2>2. CASE Heads(w, "prompt") \/ Heads(w, "mutate")
    <3> DEFINE q == worker[w].queue
    <3>0. q # <<>> /\ Head(q).kind \in {"prompt", "mutate"}
      BY <2>2 DEF Heads
    <3>1. q \in Queues /\ Head(q) = q[1] /\ 1 \in DOMAIN q
      BY <1>0, <3>0, HeadTyped, OwnsFacts
    <3>2. q[1].kind = "mutate" => mutation.pc = "mutating"
      BY <3>1 DEF IInv, Commands, CommandsOf, CommandsAt
    <3>3. FirstAt(q, w, active, turn, cleanup)
      BY OrderFacts
    <3>4. q[1].kind = "prompt" => active.worker = w \/ cleanup.worker = w
      BY <3>1, <3>3 DEF FirstAt
    <3> QED
      BY <2>1, <3>0, <3>1, <3>2, <3>4 DEF Current, Held, NoRefresh
  <2>3. CASE ~Heads(w, "prompt") /\ InPi(w) # {}
    <3>1. PICK t \in Turn : turn[t].prompt \in {"due", "running"}
      BY <2>3 DEF InPi
    <3>2. active.worker \in Worker
      BY <3>1, OrderFacts DEF Working
    <3> QED
      BY <2>1, <3>2 DEF Current, Held
  <2> QED
    BY <2>1, <2>2, <2>3
<1>15. ASSUME OwnedRefreshed PROVE Current'
  <2>1. dirty' = FALSE
    BY <1>15 DEF OwnedRefreshed
  <2> QED
    BY <2>1 DEF Current
<1>16. ASSUME NEW w \in Worker, Close(w) PROVE Current'
  <2>1. worker[w].proc # "none" /\ worker[w].proc # "killed"
    BY <1>2, <1>16 DEF Close, NoneKilled
  <2>2. worker[w].proc = "live"
    BY <1>0, <2>1 DEF WorkerObjects
  <2> QED
    BY <1>1, <1>16, <2>2 DEF Close
<1>17. Current'
  <2>1. ASSUME NEW w \in Worker, TimesOut(w) PROVE Current'
    BY <1>1, <2>1
  <2> QED
    BY <1>5, <1>6, <1>7, <1>8, <1>9, <1>10, <1>11, <1>12, <1>13, <1>14, <1>15, <1>16, <2>1 DEF Next
<1> QED
  BY <1>3, <1>17

-----------------------------------------------------------------------------
(* The invariants of the turns, and what they give.                        *)

(* Both hold in the beginning, and so for ever.                            *)
LEMMA OnceInvariant == ASSUME ~Timeouts PROVE Spec => [](NoneKilled /\ TerminalOnce)
<1>1. Init => NoneKilled /\ TerminalOnce
  BY DEF Init, NoWorker, NoneKilled, TerminalOnce
<1>2. IInv /\ Owns /\ NoneKilled /\ TerminalOnce /\ [Next]_vars => NoneKilled' /\ TerminalOnce'
  <2>1. \A w \in Worker : ~TimesOut(w)
    BY DEF TimesOut
  <2>2. UNCHANGED vars /\ NoneKilled /\ TerminalOnce => NoneKilled' /\ TerminalOnce'
    BY DEF vars, NoneKilled, TerminalOnce
  <2> QED
    BY <2>1, <2>2, OnceInductive
<1> QED
  BY <1>1, <1>2, OwnsInvariant, PTL DEF Spec

(* So do Order and Fresh.                                                  *)
LEMMA OrderInvariant == ASSUME ~QueuedReads PROVE Spec => [](IInv /\ Owns /\ Order /\ Fresh)
<1>1. ASSUME Init PROVE Order /\ Fresh
  <2>1. Undone(turn)
    BY <1>1 DEF Init, Undone, Working
  <2>2. ASSUME NEW w \in Worker PROVE FirstAt(worker[w].queue, w, active, turn, cleanup)
    BY <1>1 DEF Init, NoWorker, FirstAt
  <2>3. Order
    BY <2>1, <2>2, UndoneOrder DEF Order
  <2>4. NoneKilled /\ TerminalOnce /\ Current
    BY <1>1 DEF Init, NoWorker, NoneKilled, TerminalOnce, Current
  <2> QED
    BY <2>3, <2>4 DEF Fresh
<1>2. IInv /\ Owns /\ Order /\ Fresh /\ [Next]_vars => Order' /\ Fresh'
  <2>1. UNCHANGED vars /\ Fresh => Fresh'
    BY DEF vars, Fresh, NoneKilled, TerminalOnce, Current
  <2> QED
    BY <2>1, OrderInductive, FreshInductive
<1> QED
  BY <1>1, <1>2, OwnsInvariant, PTL DEF Spec

-----------------------------------------------------------------------------
(* Whoever waits is attended to.                                           *)

Has(q, kind) == \E i \in DOMAIN q : q[i].kind = kind

HasPrompt(q, t) == \E i \in DOMAIN q : q[i] = Command("prompt", t)

(* A run of one of its turns is under way on w, or due.                    *)
RunsOn(w, tn) == \E t \in Turn : tn[t].worker = w /\ tn[t].prompt = "running"

DueOn(w, tn) == \E t \in Turn : tn[t].worker = w /\ tn[t].prompt = "due"

(* An active turn that waits for its worker has not run.  The worker of an *)
(* accepted one has its prompt, Pi not having started it, or a run; where  *)
(* the turn has seen a run, one that has not settled.                      *)
AheadOf(t, ran, w, obj, tn) ==
  /\ obj.proc # "none"
  /\ obj.proc = "live" =>
       /\ (tn[t].prompt = "queued" /\ HasPrompt(obj.queue, t)) \/ DueOn(w, tn) \/ RunsOn(w, tn)
       /\ ran => RunsOn(w, tn)

TurnAhead(ac, tn, wk) ==
  /\ ac.ran => ac.worker # None
  /\ ac.worker # None => AheadOf(ac.turn, ac.ran, ac.worker, wk[ac.worker], tn)

CommandsAhead(wk, cl, m) ==
  /\ cl.pc = "refresh" => Has(wk[cl.worker].queue, "state")
  /\ m.pc = "mutating" => Has(wk[m.worker].queue, "mutate")
  /\ m.pc = "refresh" => Has(wk[m.worker].queue, "state")

AbortsAhead(tn, wk, ab) == \A t \in Turn : ab[t].pc = "sent" => wk[tn[t].worker].proc = "live"

Ahead ==
  /\ TurnAhead(active, turn, worker)
  /\ CommandsAhead(worker, cleanup, mutation)
  /\ AbortsAhead(turn, worker, abort)

(* What a queue has it keeps when another command is added, and when one   *)
(* of another kind is taken off.                                           *)
LEMMA AppendHas ==
  ASSUME NEW q \in Queues, NEW kind, NEW t
  PROVE  /\ Has(Append(q, Command(kind, t)), kind)
         /\ kind = "prompt" => HasPrompt(Append(q, Command(kind, t)), t)
         /\ \A k : Has(q, k) => Has(Append(q, Command(kind, t)), k)
         /\ \A x : HasPrompt(q, x) => HasPrompt(Append(q, Command(kind, t)), x)
<1> DEFINE new == Append(q, Command(kind, t))
<1>1. /\ DOMAIN new = 1..(Len(q) + 1) /\ DOMAIN q = 1..Len(q) /\ Len(q) \in Nat
      /\ \A i \in 1..Len(q) : new[i] = q[i]
      /\ new[Len(q) + 1] = Command(kind, t)
  BY DEF Queues
<1>2. Len(q) + 1 \in DOMAIN new /\ \A i \in DOMAIN q : i \in DOMAIN new /\ new[i] = q[i]
  BY <1>1
<1> HIDE DEF new
<1>3. Has(new, kind) /\ (kind = "prompt" => HasPrompt(new, t))
  BY <1>1, <1>2 DEF Has, HasPrompt, Command
<1>4. /\ \A k : Has(q, k) => Has(new, k)
      /\ \A x : HasPrompt(q, x) => HasPrompt(new, x)
  BY <1>2 DEF Has, HasPrompt
<1> QED
  BY <1>3, <1>4 DEF new

LEMMA TailHas ==
  ASSUME NEW q \in Queues, q # <<>>
  PROVE  /\ \A k : Has(q, k) /\ Head(q).kind # k => Has(Tail(q), k)
         /\ \A x : HasPrompt(q, x) /\ (Head(q).kind = "prompt" => Head(q).turn # x)
                     => HasPrompt(Tail(q), x)
<1>1. /\ DOMAIN Tail(q) = 1..(Len(q) - 1) /\ DOMAIN q = 1..Len(q)
      /\ \A i \in 1..(Len(q) - 1) : Tail(q)[i] = q[i + 1]
      /\ Head(q) = q[1] /\ Len(q) \in Nat \ {0}
  BY DEF Queues
<1>2. \A i \in DOMAIN q : i # 1 => \E j \in DOMAIN Tail(q) : Tail(q)[j] = q[i]
  <2> SUFFICES ASSUME NEW i \in DOMAIN q, i # 1 PROVE i - 1 \in DOMAIN Tail(q) /\ Tail(q)[i - 1] = q[i]
    OBVIOUS
  <2> QED
    BY <1>1
<1>3. ASSUME NEW k, Has(q, k), Head(q).kind # k PROVE Has(Tail(q), k)
  <2>1. PICK i \in DOMAIN q : q[i].kind = k
    BY <1>3 DEF Has
  <2>2. PICK j \in DOMAIN Tail(q) : Tail(q)[j] = q[i]
    BY <1>1, <1>2, <1>3, <2>1
  <2> QED
    BY <2>1, <2>2 DEF Has
<1>4. ASSUME NEW x, HasPrompt(q, x), Head(q).kind = "prompt" => Head(q).turn # x
      PROVE  HasPrompt(Tail(q), x)
  <2>1. PICK i \in DOMAIN q : q[i] = Command("prompt", x)
    BY <1>4 DEF HasPrompt
  <2>2. i # 1
    BY <1>1, <1>4, <2>1 DEF Command
  <2>3. PICK j \in DOMAIN Tail(q) : Tail(q)[j] = q[i]
    BY <1>2, <2>2
  <2> QED
    BY <2>1, <2>3 DEF HasPrompt
<1> QED
  BY <1>3, <1>4

(* A terminal event leaves nobody waiting: that of the active turn takes   *)
(* the turn out and asks for the state, any other changes nothing of this. *)
LEMMA EventAhead ==
  ASSUME TypeOK, NEW t \in Turn \cup {None}, NEW tn \in [Turn -> TurnStates],
         NEW wk \in [Worker -> WorkerObjects], NEW cl \in Cleanups, NEW m \in Mutations,
         Exclusive(active, cl, m), mutation' = m,
         CommandsAhead(wk, cl, m), AbortsAhead(tn, wk, abort'),
         \/ Terminal(t, tn, wk, cl)
            /\ (TurnAhead(active, tn, wk) \/ (active.turn = t /\ active.worker # None))
         \/ Quiet(tn, wk, cl) /\ TurnAhead(active, tn, wk)
  PROVE  Ahead'
<1> DEFINE w == active.worker
<1> DEFINE mine == active.turn = t /\ w # None
<1> DEFINE found == mine /\ wk[w].proc = "live"
<1>1. CASE Quiet(tn, wk, cl) /\ TurnAhead(active, tn, wk)
  BY <1>1 DEF Quiet, Ahead
<1>2. ASSUME Terminal(t, tn, wk, cl)
      PROVE  \A x \in Turn : turn'[x].worker = tn[x].worker /\ turn'[x].prompt = tn[x].prompt
  <2>1. turn' = [tn EXCEPT ![t].ended = @ + 1]
    BY <1>2 DEF Terminal
  <2> QED
    BY <2>1 DEF TurnStates
<1>3. ASSUME Terminal(t, tn, wk, cl) PROVE AbortsAhead(turn', wk, abort')
  BY <1>2, <1>3 DEF AbortsAhead
<1>4. CASE Terminal(t, tn, wk, cl) /\ ~mine /\ TurnAhead(active, tn, wk)
  <2>1. active' = active /\ worker' = wk /\ cleanup' = cl
    BY <1>4 DEF Terminal
  <2>2. active.worker # None => active.turn \in Turn
    BY TurnLifecycleAssumption DEF TypeOK, ActiveTurns, NoTurn
  <2>3. TurnAhead(active, turn', wk)
    BY <1>2, <1>4, <2>2 DEF TurnAhead, AheadOf, DueOn, RunsOn
  <2> QED
    BY <1>3, <1>4, <2>1, <2>3 DEF Ahead
<1>5. CASE Terminal(t, tn, wk, cl) /\ mine
  <2>1. active # NoTurn /\ w \in Worker
    BY <1>5, TurnLifecycleAssumption DEF TypeOK, ActiveTurns, NoTurn
  <2>2. cl = NoRefresh /\ m = NoRefresh
    BY <2>1 DEF Exclusive
  <2>3. TurnAhead(active', turn', worker')
    BY <1>5 DEF Terminal, TurnAhead, NoTurn
  <2>4. m.pc = "none"
    BY <2>2 DEF NoRefresh
  <2>5. CASE found
    <3> DEFINE obj == [wk[w] EXCEPT !.turn = None]
    <3>1. cleanup' = [pc |-> "refresh", worker |-> w, turn |-> t]
          /\ worker' = [wk EXCEPT ![w] = Enqueue(obj, "state", None)]
      BY <1>5, <2>5 DEF Terminal
    <3>2. obj \in WorkerObjects /\ obj.proc = wk[w].proc
      BY <2>1 DEF WorkerObjects
    <3> HIDE DEF obj
    <3>3. /\ worker'[w] = Enqueue(obj, "state", None)
          /\ \A u \in Worker : u # w => worker'[u] = wk[u]
      BY <2>1, <3>1
    <3>4. worker'[w].queue = Append(obj.queue, Command("state", None)) /\ obj.queue \in Queues
      BY <3>2, <3>3, Enqueued
    <3>5. worker'[w].proc = "live"
      BY <2>5, <3>2, <3>3 DEF Enqueue, WorkerObjects
    <3>6. CommandsAhead(worker', cleanup', mutation')
      <4>1. Has(worker'[w].queue, "state")
        BY <3>4, AppendHas
      <4> QED
        BY <2>4, <3>1, <4>1 DEF CommandsAhead
    <3>7. AbortsAhead(turn', worker', abort')
      <4> SUFFICES ASSUME NEW x \in Turn, abort'[x].pc = "sent" PROVE worker'[turn'[x].worker].proc = "live"
        BY DEF AbortsAhead
      <4>1. wk[turn'[x].worker].proc = "live"
        BY <1>3, <1>5 DEF AbortsAhead
      <4>2. turn'[x].worker \in Worker \cup {None}
        BY <1>2, <1>5 DEF TurnStates
      <4>3. CASE turn'[x].worker = w
        BY <3>5, <4>3
      <4>4. CASE turn'[x].worker # w /\ turn'[x].worker \in Worker
        BY <3>3, <4>1, <4>4
      <4>5. CASE turn'[x].worker = None
        BY <3>1, <4>1, <4>5, TurnLifecycleAssumption
      <4> QED
        BY <4>2, <4>3, <4>4, <4>5
    <3> QED
      BY <2>3, <3>6, <3>7 DEF Ahead
  <2>6. CASE ~found
    <3>1. cleanup'.pc = "owned" /\ worker' = wk
      BY <1>5, <2>6 DEF Terminal
    <3>2. CommandsAhead(wk, cleanup', mutation')
      BY <2>4, <3>1 DEF CommandsAhead
    <3> QED
      BY <1>3, <1>5, <2>3, <3>1, <3>2 DEF Ahead
  <2> QED
    BY <2>5, <2>6
<1> QED
  BY <1>1, <1>4, <1>5

(* What does not disturb those who wait: queues keep their commands, the   *)
(* active turn's worker its process, and its turns their runs.             *)
LEMMA CommandsKept ==
  ASSUME NEW cl \in Cleanups, NEW m \in Mutations, CommandsAhead(worker, cl, m), NEW wk,
         \A u \in Worker : \A k \in Marked : Has(worker[u].queue, k) => Has(wk[u].queue, k)
  PROVE  CommandsAhead(wk, cl, m)
<1>1. /\ cl.pc = "refresh" => cl.worker \in Worker
      /\ m.pc \in {"mutating", "refresh"} => m.worker \in Worker
  BY DEF Cleanups, Mutations
<1> QED
  BY <1>1 DEF CommandsAhead, Marked

LEMMA TurnKept ==
  ASSUME TypeOK, Owned(active, turn, worker, abort), TurnAhead(active, turn, worker),
         NEW wk, NEW tn,
         active.worker # None =>
           LET w == active.worker IN
           /\ wk[w].proc = worker[w].proc
           /\ HasPrompt(worker[w].queue, active.turn) => HasPrompt(wk[w].queue, active.turn)
           /\ turn[active.turn].prompt = "queued" => tn[active.turn].prompt = "queued"
           /\ \A x \in Turn : turn[x].worker = w =>
                /\ tn[x].worker = w
                /\ turn[x].prompt \in {"due", "running"} => tn[x].prompt = turn[x].prompt
  PROVE  TurnAhead(active, tn, wk)
<1> DEFINE w == active.worker
<1>1. ASSUME w # None PROVE AheadOf(active.turn, active.ran, w, wk[w], tn)
  <2>1. AheadOf(active.turn, active.ran, w, worker[w], turn)
    BY <1>1 DEF TurnAhead
  <2>2. DueOn(w, turn) => DueOn(w, tn)
    BY <1>1 DEF DueOn
  <2>3. RunsOn(w, turn) => RunsOn(w, tn)
    BY <1>1 DEF RunsOn
  <2> HIDE DEF w
  <2> QED
    BY <1>1, <2>1, <2>2, <2>3 DEF AheadOf, w
<1> QED
  BY <1>1 DEF TurnAhead

LEMMA AbortsKept ==
  ASSUME TypeOK, Owned(active, turn, worker, abort), AbortsAhead(turn, worker, abort),
         NEW tn, \A x \in Turn : turn[x].worker # None => tn[x].worker = turn[x].worker,
         NEW ab, \A x \in Turn : ab[x].pc = "sent" => abort[x].pc = "sent",
         NEW wk, \A u \in Worker :
                   /\ worker[u].proc = "live"
                   /\ \E x \in Turn : turn[x].worker = u /\ ab[x].pc = "sent"
                   => wk[u].proc = "live"
  PROVE  AbortsAhead(tn, wk, ab)
<1> SUFFICES ASSUME NEW x \in Turn, ab[x].pc = "sent" PROVE wk[tn[x].worker].proc = "live"
  BY DEF AbortsAhead
<1>1. abort[x].pc = "sent"
  OBVIOUS
<1>2. turn[x].worker # None /\ turn[x].worker \in Worker
  BY <1>1, OwnsFacts
<1>3. worker[turn[x].worker].proc = "live"
  BY <1>1 DEF AbortsAhead
<1> QED
  BY <1>2, <1>3

(* Admission, and what the pool does with idle workers.                    *)
LEMMA AdmissionAhead ==
  ASSUME IInv, Owns, Ahead,
         \/ \E t \in Turn : Send(t) \/ Accept(t) \/ SendFails(t)
         \/ Mutate
         \/ \E w \in Worker : QueueRead(w) \/ Reassign(w)
  PROVE  Ahead'
<1> USE TurnLifecycleAssumption
<1>0. /\ TypeOK /\ Owned(active, turn, worker, abort)
      /\ TurnAhead(active, turn, worker) /\ CommandsAhead(worker, cleanup, mutation)
      /\ AbortsAhead(turn, worker, abort)
      /\ worker \in [Worker -> WorkerObjects] /\ turn \in [Turn -> TurnStates]
      /\ cleanup \in Cleanups /\ mutation \in Mutations
      /\ active.worker \in Worker \cup {None} /\ active.ran \in BOOLEAN
      /\ active.turn \in Turn \cup {None}
  BY DEF IInv, Owns, Ahead, TypeOK, ActiveTurns
<1>1. ASSUME NEW t \in Turn, Send(t) \/ SendFails(t) PROVE Ahead'
  <2>1. ~active'.ran /\ active'.worker = None
    BY <1>1 DEF Send, SendFails, NoTurn
  <2>2. worker' = worker /\ turn' = turn /\ cleanup' = cleanup /\ mutation' = mutation
        /\ abort' = abort
    BY <1>1 DEF Send, SendFails
  <2>3. TurnAhead(active', turn', worker')
    BY <2>1 DEF TurnAhead
  <2> QED
    BY <1>0, <2>2, <2>3 DEF Ahead
<1>2. ASSUME NEW t \in Turn, Accept(t) PROVE Ahead'
  <2>1. PICK w \in Worker :
          /\ worker[w].turn = None
          /\ worker' = [worker EXCEPT ![w] =
                          Enqueue([worker[w] EXCEPT !.proc = "live", !.turn = t], "prompt", t)]
          /\ turn' = [turn EXCEPT ![t].worker = w, ![t].prompt = "queued"]
          /\ active' = [active EXCEPT !.worker = w]
    BY <1>2, Zenon DEF Accept
  <2>2. active.turn = t /\ active.worker = None /\ abort' = abort /\ cleanup' = cleanup
        /\ mutation' = mutation
    BY <1>2 DEF Accept
  <2> DEFINE obj == [worker[w] EXCEPT !.proc = "live", !.turn = t]
  <2>3. obj \in WorkerObjects /\ obj.queue = worker[w].queue /\ obj.proc = "live"
    BY <1>0 DEF WorkerObjects
  <2>4. worker'[w] = Enqueue(obj, "prompt", t) /\ \A u \in Worker : u # w => worker'[u] = worker[u]
    BY <1>0, <2>1
  <2> HIDE DEF obj
  <2>5. /\ Enqueue(obj, "prompt", t).queue = Append(obj.queue, Command("prompt", t))
        /\ obj.queue \in Queues
    BY <2>3, Enqueued
  <2>6. worker'[w].proc = "live"
    BY <2>3, <2>4 DEF Enqueue, WorkerObjects
  <2>7. /\ HasPrompt(worker'[w].queue, t)
        /\ \A k : Has(worker[w].queue, k) => Has(worker'[w].queue, k)
    <3>1. worker'[w].queue = Append(worker[w].queue, Command("prompt", t))
      BY <2>3, <2>4, <2>5
    <3>2. worker[w].queue \in Queues
      BY <2>3, <2>5
    <3> QED
      BY <3>1, <3>2, AppendHas
  <2>8. active'.turn = t /\ active'.worker = w /\ active'.ran = active.ran
    BY <1>0, <2>1, <2>2 DEF TypeOK, ActiveTurns
  <2>9. /\ turn'[t].prompt = "queued"
        /\ \A x \in Turn : x # t => turn'[x] = turn[x]
    BY <1>0, <2>1 DEF TurnStates
  <2>10. turn[t].worker = None
    BY <1>0, <2>2, OwnsFacts
  <2>11. TurnAhead(active', turn', worker')
    <3>1. ~active'.ran
      BY <1>0, <2>2, <2>8 DEF TurnAhead
    <3> QED
      BY <2>6, <2>7, <2>8, <2>9, <3>1 DEF TurnAhead, AheadOf
  <2>12. CommandsAhead(worker', cleanup, mutation)
    BY <1>0, <2>4, <2>7, CommandsKept
  <2>13. AbortsAhead(turn', worker', abort)
    <3>1. \A x \in Turn : turn[x].worker # None => turn'[x].worker = turn[x].worker
      BY <2>9, <2>10
    <3>2. \A u \in Worker : worker[u].proc = "live" => worker'[u].proc = "live"
      BY <2>4, <2>6
    <3> QED
      BY <1>0, <3>1, <3>2, AbortsKept
  <2> QED
    BY <2>2, <2>11, <2>12, <2>13 DEF Ahead
<1>3. CASE Mutate
  <2>1. PICK w \in Worker :
          /\ worker' = [worker EXCEPT ![w] =
                          Enqueue([worker[w] EXCEPT !.proc = "live"], "mutate", None)]
          /\ mutation' = [NoRefresh EXCEPT !.pc = "mutating", !.worker = w]
    BY <1>3, Zenon DEF Mutate
  <2>2. active' = active /\ turn' = turn /\ abort' = abort /\ active = NoTurn
        /\ cleanup' = cleanup /\ cleanup = NoRefresh
    BY <1>3 DEF Mutate, Admits
  <2> DEFINE obj == [worker[w] EXCEPT !.proc = "live"]
  <2>3. obj \in WorkerObjects /\ obj.queue = worker[w].queue /\ obj.proc = "live"
    BY <1>0 DEF WorkerObjects
  <2>4. worker'[w] = Enqueue(obj, "mutate", None) /\ \A u \in Worker : u # w => worker'[u] = worker[u]
    BY <1>0, <2>1
  <2> HIDE DEF obj
  <2>5. /\ Enqueue(obj, "mutate", None).queue = Append(obj.queue, Command("mutate", None))
        /\ obj.queue \in Queues
    BY <2>3, Enqueued
  <2>6. worker'[w].proc = "live"
    BY <2>3, <2>4 DEF Enqueue, WorkerObjects
  <2>7. Has(worker'[w].queue, "mutate")
    <3>1. worker'[w].queue = Append(obj.queue, Command("mutate", None))
      BY <2>4, <2>5
    <3> QED
      BY <2>5, <3>1, AppendHas
  <2>8. TurnAhead(active', turn', worker')
    BY <2>2 DEF TurnAhead, NoTurn
  <2>9. CommandsAhead(worker', cleanup', mutation')
    BY <2>1, <2>2, <2>7 DEF CommandsAhead, NoRefresh
  <2>10. AbortsAhead(turn, worker', abort)
    <3>1. \A u \in Worker : worker[u].proc = "live" => worker'[u].proc = "live"
      BY <2>4, <2>6
    <3> QED
      BY <1>0, <3>1, AbortsKept
  <2> QED
    BY <2>2, <2>8, <2>9, <2>10 DEF Ahead
<1>4. ASSUME NEW w \in Worker, QueueRead(w) PROVE Ahead'
  <2>1. worker' = [worker EXCEPT ![w] = Enqueue(worker[w], "read", None)]
        /\ active' = active /\ turn' = turn /\ abort' = abort
        /\ cleanup' = cleanup /\ mutation' = mutation
    BY <1>4 DEF QueueRead
  <2>2. worker'[w] = Enqueue(worker[w], "read", None) /\ \A u \in Worker : u # w => worker'[u] = worker[u]
    BY <1>0, <2>1
  <2>3. /\ Enqueue(worker[w], "read", None).queue = Append(worker[w].queue, Command("read", None))
        /\ worker[w].queue \in Queues
    BY <1>0, Enqueued
  <2>4. \A u \in Worker : worker'[u].proc = worker[u].proc
    <3>1. Enqueue(worker[w], "read", None).proc = worker[w].proc
      BY <1>0 DEF Enqueue, WorkerObjects
    <3> QED
      BY <2>2, <3>1
  <2>5. \A u \in Worker : /\ \A k : Has(worker[u].queue, k) => Has(worker'[u].queue, k)
                          /\ \A x : HasPrompt(worker[u].queue, x) => HasPrompt(worker'[u].queue, x)
    <3>1. worker'[w].queue = Append(worker[w].queue, Command("read", None))
      BY <2>2, <2>3
    <3>2. /\ \A k : Has(worker[w].queue, k) => Has(worker'[w].queue, k)
          /\ \A x : HasPrompt(worker[w].queue, x) => HasPrompt(worker'[w].queue, x)
      BY <2>3, <3>1, AppendHas
    <3> QED
      BY <2>2, <3>2
  <2>6. TurnAhead(active, turn, worker')
    BY <1>0, <2>4, <2>5, TurnKept
  <2>7. CommandsAhead(worker', cleanup, mutation)
    BY <1>0, <2>5, CommandsKept
  <2>8. AbortsAhead(turn, worker', abort)
    BY <1>0, <2>4, AbortsKept
  <2> QED
    BY <2>1, <2>6, <2>7, <2>8 DEF Ahead
<1>5. ASSUME NEW w \in Worker, Reassign(w) PROVE Ahead'
  <2>1. worker' = [worker EXCEPT ![w] = NoWorker]
        /\ active' = active /\ turn' = turn /\ abort' = abort /\ active.turn = None
        /\ cleanup' = cleanup /\ mutation' = mutation
        /\ \A t \in Turn : turn[t].worker = w => abort[t].pc # "sent"
    BY <1>5 DEF Reassign
  <2>2. /\ worker'[w] = NoWorker /\ \A u \in Worker : u # w => worker'[u] = worker[u]
        /\ worker[w].queue = <<>>
    <3>1. worker[w].queue = <<>>
      <4> DEFINE idle == [NoWorker EXCEPT !.proc = "live"]
      <4>1. idle.queue = <<>>
        BY DEF NoWorker
      <4>2. worker[w] = idle
        BY <1>5, Zenon DEF Reassign
      <4> HIDE DEF idle
      <4> QED
        BY <4>1, <4>2
    <3>2. worker'[w] = NoWorker /\ \A u \in Worker : u # w => worker'[u] = worker[u]
      BY <1>0, <2>1
    <3> QED
      BY <3>1, <3>2
  <2>3. \A k : ~Has(worker[w].queue, k)
    BY <2>2 DEF Has
  <2>4. active = NoTurn
    BY <1>0, <2>1, OwnsFacts
  <2>5. TurnAhead(active, turn, worker')
    BY <2>4 DEF TurnAhead, NoTurn
  <2>6. CommandsAhead(worker', cleanup, mutation)
    BY <1>0, <2>2, <2>3, CommandsKept
  <2>7. AbortsAhead(turn, worker', abort)
    BY <1>0, <2>1, <2>2, AbortsKept
  <2> QED
    BY <2>1, <2>5, <2>6, <2>7 DEF Ahead
<1> QED
  BY <1>1, <1>2, <1>3, <1>4, <1>5

(* A command that Pi has answered: that of a refresh or a mutation ends    *)
(* its wait, a prompt ends its turn or leaves it a run.                    *)
LEMMA AnswersAhead ==
  ASSUME IInv, Owns, Ahead, NEW w \in Worker, Answers(w)
  PROVE  Ahead'
<1> USE TurnLifecycleAssumption
<1> DEFINE q == worker[w].queue
<1> DEFINE t == Head(q).turn
<1> DEFINE wk == Answered(w)
<1>0. /\ TypeOK /\ Owned(active, turn, worker, abort)
      /\ TurnAhead(active, turn, worker) /\ CommandsAhead(worker, cleanup, mutation)
      /\ AbortsAhead(turn, worker, abort)
      /\ worker \in [Worker -> WorkerObjects] /\ turn \in [Turn -> TurnStates]
      /\ cleanup \in Cleanups /\ mutation \in Mutations
      /\ active.worker \in Worker \cup {None} /\ active.turn \in Turn \cup {None}
      /\ Exclusive(active, cleanup, mutation)
      /\ q # <<>>
  BY DEF IInv, Owns, Ahead, TypeOK, ActiveTurns, WritersExclusive, Exclusive, Answers, PromptAnswered,
    PromptFails, ReadAnswered, MutateAnswered, StateAnswered, Heads
<1>1. /\ wk \in [Worker -> WorkerObjects] /\ wk[w].queue = Tail(q) /\ q \in Queues
      /\ \A u \in Worker : u # w => wk[u] = worker[u]
  BY <1>0, AnsweredTyped
<1>2. /\ worker[w].proc = "live" /\ wk[w].proc = "live"
      /\ Head(q).kind = "prompt" => t \in Turn /\ turn[t].worker = w
  BY <1>0, OwnedAnswered
<1>3. /\ \A k : Has(q, k) /\ Head(q).kind # k => Has(wk[w].queue, k)
      /\ \A x : HasPrompt(q, x) /\ (Head(q).kind = "prompt" => t # x) => HasPrompt(wk[w].queue, x)
  BY <1>0, <1>1, TailHas
<1> HIDE DEF q, t, wk
<1>4. AbortsAhead(turn, wk, abort)
  <2>1. \A u \in Worker : worker[u].proc = "live" => wk[u].proc = "live"
    BY <1>1, <1>2
  <2> QED
    BY <1>0, <2>1, AbortsKept
<1>5. ASSUME Head(q).kind \notin Marked PROVE CommandsAhead(wk, cleanup, mutation)
  <2>1. \A u \in Worker : \A k \in Marked : Has(worker[u].queue, k) => Has(wk[u].queue, k)
    BY <1>1, <1>3, <1>5 DEF q
  <2> QED
    BY <1>0, <2>1, CommandsKept
<1>6. ASSUME Head(q).kind # "prompt" PROVE TurnAhead(active, turn, wk)
  <2>1. \A u \in Worker : /\ wk[u].proc = worker[u].proc
                          /\ \A x : HasPrompt(worker[u].queue, x) => HasPrompt(wk[u].queue, x)
    BY <1>1, <1>2, <1>3, <1>6 DEF q
  <2> QED
    BY <1>0, <2>1, TurnKept
<1>7. ASSUME PromptAnswered(w) \/ PromptFails(w) PROVE Ahead'
  <2>1. /\ Head(q).kind = "prompt" /\ abort' = abort /\ mutation' = mutation
    BY <1>7 DEF PromptAnswered, PromptFails, Heads, q
  <2>2. t \in Turn /\ turn[t].worker = w
    BY <1>2, <2>1
  <2>3. ASSUME NEW p \in {"due", "over"}
        PROVE  LET tn == [turn EXCEPT ![t].prompt = p]
               IN /\ tn \in [Turn -> TurnStates] /\ tn[t].prompt = p
                  /\ \A x \in Turn : tn[x].worker = turn[x].worker
                  /\ \A x \in Turn : x # t => tn[x] = turn[x]
    BY <1>0, <2>2 DEF TurnStates
  <2>4. \E tn \in [Turn -> TurnStates] :
          /\ \A x \in Turn : tn[x].worker = turn[x].worker
          /\ \A x \in Turn : x # t \/ turn[x].prompt # "queued" => tn[x] = turn[x]
          /\ \/ StillActive(t) /\ Terminal(t, tn, wk, cleanup)
             \/ /\ Quiet(tn, wk, cleanup)
                /\ StillActive(t) => active.ran \/ (turn[t].prompt = "queued" => tn[t].prompt = "due")
    <3>1. CASE PromptAnswered(w)
      <4>1. PICK disposition \in {"started", "handled"} :
              LET tn == IF turn[t].prompt # "queued" THEN turn
                        ELSE [turn EXCEPT ![t].prompt = IF disposition = "started" THEN "due" ELSE "over"]
              IN IF Completes(t, disposition) THEN Terminal(t, tn, wk, cleanup)
                 ELSE Quiet(tn, wk, cleanup)
        BY <3>1, Zenon DEF PromptAnswered, t, q, wk
      <4> DEFINE p == IF disposition = "started" THEN "due" ELSE "over"
      <4> DEFINE tn == IF turn[t].prompt # "queued" THEN turn ELSE [turn EXCEPT ![t].prompt = p]
      <4>2. p \in {"due", "over"}
        OBVIOUS
      <4>3. IF Completes(t, disposition) THEN Terminal(t, tn, wk, cleanup) ELSE Quiet(tn, wk, cleanup)
        BY <4>1, Zenon
      <4>4. /\ tn \in [Turn -> TurnStates]
            /\ \A x \in Turn : tn[x].worker = turn[x].worker
            /\ \A x \in Turn : x # t \/ turn[x].prompt # "queued" => tn[x] = turn[x]
            /\ turn[t].prompt = "queued" => tn[t].prompt = p
        <5> HIDE DEF p
        <5> QED
          BY <1>0, <2>3, <4>2
      <4>5. Completes(t, disposition) => StillActive(t)
        BY DEF Completes
      <4>6. StillActive(t) /\ ~Completes(t, disposition) /\ ~active.ran => p = "due"
        BY DEF Completes
      <4> HIDE DEF tn, p
      <4> QED
        BY <4>3, <4>4, <4>5, <4>6
    <3>2. CASE PromptFails(w)
      <4> DEFINE tn == [turn EXCEPT ![t].prompt = "over"]
      <4>1. /\ turn[t].prompt = "queued"
            /\ IF StillActive(t) THEN Terminal(t, tn, wk, cleanup) ELSE Quiet(tn, wk, cleanup)
        BY <3>2, Zenon DEF PromptFails, t, q, wk
      <4>2. /\ tn \in [Turn -> TurnStates]
            /\ \A x \in Turn : tn[x].worker = turn[x].worker
            /\ \A x \in Turn : x # t \/ turn[x].prompt # "queued" => tn[x] = turn[x]
        BY <2>3, <4>1
      <4> HIDE DEF tn
      <4> QED
        BY <4>1, <4>2
    <3> QED
      BY <1>7, <3>1, <3>2
  <2>5. PICK tn \in [Turn -> TurnStates] :
          /\ \A x \in Turn : tn[x].worker = turn[x].worker
          /\ \A x \in Turn : x # t \/ turn[x].prompt # "queued" => tn[x] = turn[x]
          /\ \/ StillActive(t) /\ Terminal(t, tn, wk, cleanup)
             \/ /\ Quiet(tn, wk, cleanup)
                /\ StillActive(t) => active.ran \/ (turn[t].prompt = "queued" => tn[t].prompt = "due")
    BY <2>4
  <2>6. CommandsAhead(wk, cleanup, mutation) /\ AbortsAhead(tn, wk, abort')
    <3>1. \A x \in Turn : turn[x].worker # None => tn[x].worker = turn[x].worker
      BY <2>5
    <3> QED
      BY <1>4, <1>5, <2>1, <2>5 DEF Marked, AbortsAhead
  <2>7. StillActive(t) => active.turn = t /\ active.worker = w
    BY <1>0, <2>2, OwnsFacts DEF StillActive
  <2>8. CASE StillActive(t) /\ Terminal(t, tn, wk, cleanup)
    BY <1>0, <1>1, <2>1, <2>2, <2>6, <2>7, <2>8, EventAhead
  <2>9. CASE Quiet(tn, wk, cleanup) /\ ~StillActive(t)
    <3>1. active.turn # t
      BY <2>9 DEF StillActive
    <3>2. \A u \in Worker : /\ wk[u].proc = worker[u].proc
                            /\ HasPrompt(worker[u].queue, active.turn) => HasPrompt(wk[u].queue, active.turn)
      BY <1>1, <1>2, <1>3, <3>1 DEF q
    <3>3. active.worker # None => active.turn \in Turn
      BY <1>0, OwnsFacts DEF NoTurn
    <3>4. TurnAhead(active, tn, wk)
      BY <1>0, <2>5, <3>1, <3>2, <3>3, TurnKept
    <3> QED
      BY <1>0, <1>1, <2>1, <2>2, <2>6, <2>9, <3>4, EventAhead
  <2>10. CASE /\ Quiet(tn, wk, cleanup) /\ StillActive(t)
              /\ active.ran \/ (turn[t].prompt = "queued" => tn[t].prompt = "due")
    <3>1. AheadOf(t, active.ran, w, worker[w], turn)
      BY <1>0, <2>7, <2>10 DEF TurnAhead
    <3>2. RunsOn(w, turn) => RunsOn(w, tn)
      BY <2>5 DEF RunsOn
    <3>3. DueOn(w, turn) => DueOn(w, tn)
      BY <2>5 DEF DueOn
    <3>4. active.ran \/ DueOn(w, tn) \/ RunsOn(w, tn)
      <4>1. CASE turn[t].prompt = "queued" /\ ~active.ran
        BY <2>2, <2>5, <2>10, <4>1 DEF DueOn
      <4>2. CASE turn[t].prompt # "queued"
        BY <1>2, <3>1, <3>2, <3>3, <4>2 DEF AheadOf
      <4> QED
        BY <4>1, <4>2
    <3>5. TurnAhead(active, tn, wk)
      BY <1>2, <2>7, <2>10, <3>1, <3>2, <3>4 DEF TurnAhead, AheadOf
    <3> QED
      BY <1>0, <1>1, <2>1, <2>2, <2>6, <2>10, <3>5, EventAhead
  <2> QED
    BY <2>5, <2>8, <2>9, <2>10
<1>8. CASE ReadAnswered(w)
  <2>1. /\ worker' = wk /\ active' = active /\ turn' = turn /\ abort' = abort
        /\ cleanup' = cleanup /\ mutation' = mutation /\ Head(q).kind = "read"
    BY <1>8 DEF ReadAnswered, Heads, wk, q
  <2> QED
    BY <1>4, <1>5, <1>6, <2>1 DEF Ahead, Marked
<1>9. CASE MutateAnswered(w)
  <2>1. /\ worker' = [wk EXCEPT ![w] = Enqueue(wk[w], "state", None)]
        /\ mutation' = [mutation EXCEPT !.pc = "refresh"]
        /\ active' = active /\ turn' = turn /\ abort' = abort /\ cleanup' = cleanup
        /\ Head(q).kind = "mutate" /\ Head(q) = q[1] /\ 1 \in DOMAIN q
    BY <1>0, <1>1, <1>9, HeadTyped DEF MutateAnswered, Heads, wk, q
  <2>2. mutation.pc = "mutating" /\ mutation.worker = w
    BY <2>1 DEF IInv, Commands, CommandsOf, CommandsAt, q
  <2>3. mutation'.pc = "refresh" /\ mutation'.worker = w
    BY <1>0, <2>1, <2>2 DEF Mutations
  <2>4. worker'[w] = Enqueue(wk[w], "state", None) /\ \A u \in Worker : u # w => worker'[u] = wk[u]
    BY <1>1, <2>1
  <2>5. /\ Enqueue(wk[w], "state", None).queue = Append(wk[w].queue, Command("state", None))
        /\ wk[w].queue \in Queues /\ wk[w] \in WorkerObjects
    BY <1>1, Enqueued
  <2>6. worker'[w].proc = "live"
    <3>1. Enqueue(wk[w], "state", None).proc = wk[w].proc
      BY <2>5 DEF Enqueue, WorkerObjects
    <3> QED
      BY <1>2, <2>4, <3>1
  <2>7. Has(worker'[w].queue, "state")
    <3>1. worker'[w].queue = Append(wk[w].queue, Command("state", None))
      BY <2>4, <2>5
    <3> QED
      BY <2>5, <3>1, AppendHas
  <2>8. cleanup.pc = "none"
    BY <1>0, <2>2 DEF Exclusive, NoRefresh
  <2>9. CommandsAhead(worker', cleanup', mutation')
    BY <2>1, <2>3, <2>7, <2>8 DEF CommandsAhead
  <2>10. active = NoTurn
    BY <1>0, <2>2 DEF Exclusive, NoRefresh
  <2>11. TurnAhead(active', turn', worker')
    BY <2>1, <2>10 DEF TurnAhead, NoTurn
  <2>12. AbortsAhead(turn, worker', abort)
    <3>1. \A u \in Worker : worker[u].proc = "live" => worker'[u].proc = "live"
      BY <1>1, <2>4, <2>6
    <3> QED
      BY <1>0, <3>1, AbortsKept
  <2> QED
    BY <2>1, <2>9, <2>11, <2>12 DEF Ahead
<1>10. CASE StateAnswered(w)
  <2>1. /\ worker' = wk /\ active' = active /\ turn' = turn /\ abort' = abort
        /\ Head(q).kind = "state" /\ Head(q) = q[1] /\ 1 \in DOMAIN q
        /\ \/ cleanup.worker = w /\ cleanup' = NoRefresh /\ mutation' = mutation
           \/ cleanup.worker # w /\ mutation' = NoRefresh /\ cleanup' = cleanup
    BY <1>0, <1>1, <1>10, HeadTyped DEF StateAnswered, Heads, wk, q
  <2>2. cleanup.worker = w \/ (mutation.pc = "refresh" /\ mutation.worker = w)
    BY <2>1 DEF IInv, Commands, CommandsOf, CommandsAt, q
  <2>3. CASE cleanup.worker = w /\ cleanup' = NoRefresh /\ mutation' = mutation
    <3>1. mutation = NoRefresh
      BY <1>0, <2>3 DEF Exclusive, NoRefresh
    <3>2. CommandsAhead(wk, cleanup', mutation')
      BY <2>3, <3>1 DEF CommandsAhead, NoRefresh
    <3> QED
      BY <1>4, <1>6, <2>1, <3>2 DEF Ahead
  <2>4. CASE cleanup.worker # w /\ mutation' = NoRefresh /\ cleanup' = cleanup
    <3>1. cleanup = NoRefresh
      BY <1>0, <2>2, <2>4 DEF Exclusive, NoRefresh
    <3>2. CommandsAhead(wk, cleanup', mutation')
      BY <2>4, <3>1 DEF CommandsAhead, NoRefresh
    <3> QED
      BY <1>4, <1>6, <2>1, <3>2 DEF Ahead
  <2> QED
    BY <2>1, <2>3, <2>4
<1> QED
  BY <1>7, <1>8, <1>9, <1>10 DEF Answers

(* thread/abort and what Pi does: a run that starts on the active turn's   *)
(* worker is one that will settle, and to settle ends the worker's turn.   *)
LEMMA AbortsAheadKeep ==
  ASSUME IInv, Owns, Ahead, NEW t \in Turn, Abort(t) \/ AbortAnswered(t) \/ FinishAbort(t)
  PROVE  Ahead'
<1> USE TurnLifecycleAssumption
<1>0. /\ TypeOK /\ Owned(active, turn, worker, abort)
      /\ TurnAhead(active, turn, worker) /\ CommandsAhead(worker, cleanup, mutation)
      /\ AbortsAhead(turn, worker, abort)
      /\ worker \in [Worker -> WorkerObjects] /\ turn \in [Turn -> TurnStates]
      /\ cleanup \in Cleanups /\ mutation \in Mutations
      /\ abort \in [Turn -> AbortStates]
      /\ active.worker \in Worker \cup {None}
      /\ Exclusive(active, cleanup, mutation)
  BY DEF IInv, Owns, Ahead, TypeOK, ActiveTurns, WritersExclusive, Exclusive, AbortStates
<1>1. ASSUME NEW u \in Worker, NEW mark,
             worker' = [worker EXCEPT ![u].aborting = mark], UNCHANGED <<active, cleanup, mutation, turn>>
      PROVE  /\ \A v \in Worker : /\ worker'[v].proc = worker[v].proc
                                  /\ worker'[v].queue = worker[v].queue
             /\ TurnAhead(active', turn', worker') /\ CommandsAhead(worker', cleanup', mutation')
  <2>1. \A v \in Worker : worker'[v].proc = worker[v].proc /\ worker'[v].queue = worker[v].queue
    BY <1>0, <1>1 DEF WorkerObjects
  <2>2. TurnAhead(active, turn, worker')
    BY <1>0, <2>1, TurnKept
  <2>3. CommandsAhead(worker', cleanup, mutation)
    BY <1>0, <2>1, CommandsKept
  <2> QED
    BY <1>1, <2>1, <2>2, <2>3
<1>2. CASE Abort(t)
  <2> DEFINE w == active.worker
  <2>1. /\ active.turn = t /\ w \in Worker /\ worker[w].proc = "live"
        /\ abort' = [abort EXCEPT ![t].pc = "sent"]
        /\ worker' = [worker EXCEPT ![w].aborting = t]
        /\ UNCHANGED <<active, cleanup, mutation, turn>>
    BY <1>2 DEF Abort, Owner
  <2>2. turn[t].worker = w
    BY <1>0, <2>1, OwnsFacts
  <2>3. \A x \in Turn : x # t => abort'[x] = abort[x]
    BY <1>0, <2>1
  <2> HIDE DEF w
  <2>4. \A v \in Worker : worker'[v].proc = worker[v].proc
    BY <1>1, <2>1
  <2>5. AbortsAhead(turn, worker', abort')
    <3> SUFFICES ASSUME NEW x \in Turn, abort'[x].pc = "sent" PROVE worker'[turn[x].worker].proc = "live"
      BY DEF AbortsAhead
    <3>1. CASE x = t
      BY <2>1, <2>2, <2>4, <3>1
    <3>2. CASE x # t
      <4>1. abort[x].pc = "sent"
        BY <2>3, <3>2
      <4>2. turn[x].worker \in Worker /\ worker[turn[x].worker].proc = "live"
        BY <1>0, <4>1, OwnsFacts DEF AbortsAhead
      <4> QED
        BY <2>4, <4>2
    <3> QED
      BY <3>1, <3>2
  <2> QED
    BY <1>1, <2>1, <2>5 DEF Ahead
<1>3. CASE AbortAnswered(t)
  <2>1. /\ abort[t].pc = "sent" /\ mutation' = mutation
        /\ \/ StillActive(t) /\ Terminal(t, turn, worker, cleanup)
           \/ Quiet(turn, worker, cleanup)
        /\ abort' = [abort EXCEPT ![t] = [pc |-> "settling", awaits |-> cleanup'.turn]]
    BY <1>3 DEF AbortAnswered
  <2>2. abort'[t].pc = "settling" /\ \A x \in Turn : x # t => abort'[x] = abort[x]
    BY <1>0, <2>1
  <2>3. AbortsAhead(turn, worker, abort')
    BY <1>0, <2>2 DEF AbortsAhead
  <2> QED
    BY <1>0, <2>1, <2>3, EventAhead
<1>4. CASE FinishAbort(t)
  <2> DEFINE w == turn[t].worker
  <2> DEFINE mark == IF worker[w].aborting = t THEN None ELSE worker[w].aborting
  <2>1. /\ abort[t].pc = "settling" /\ abort' = [abort EXCEPT ![t].pc = "over"]
        /\ worker' = [worker EXCEPT ![w].aborting = mark]
        /\ UNCHANGED <<active, cleanup, mutation, turn>>
    BY <1>4 DEF FinishAbort, CleanedUp
  <2>2. w \in Worker
    BY <1>0, <2>1, OwnsFacts
  <2>3. abort'[t].pc = "over" /\ \A x \in Turn : x # t => abort'[x] = abort[x]
    BY <1>0, <2>1 DEF AbortStates
  <2> HIDE DEF w, mark
  <2>4. \A v \in Worker : worker'[v].proc = worker[v].proc
    BY <1>1, <2>1, <2>2
  <2>5. AbortsAhead(turn, worker', abort')
    <3>1. \A x \in Turn : abort'[x].pc = "sent" => abort[x].pc = "sent"
      BY <2>3
    <3> QED
      BY <1>0, <2>4, <3>1, AbortsKept
  <2> QED
    BY <1>1, <2>1, <2>2, <2>5 DEF Ahead
<1> QED
  BY <1>2, <1>3, <1>4

LEMMA RunsAhead ==
  ASSUME IInv, Owns, Ahead,
         \/ \E w \in Worker, t \in Turn : RunStarts(w, t) \/ RunSettles(w, t)
         \/ \E w \in Worker : PiWrites(w)
         \/ OwnedRefreshed
  PROVE  Ahead'
<1> USE TurnLifecycleAssumption
<1>0. /\ TypeOK /\ Owned(active, turn, worker, abort)
      /\ TurnAhead(active, turn, worker) /\ CommandsAhead(worker, cleanup, mutation)
      /\ AbortsAhead(turn, worker, abort)
      /\ worker \in [Worker -> WorkerObjects] /\ turn \in [Turn -> TurnStates]
      /\ cleanup \in Cleanups /\ mutation \in Mutations
      /\ active.worker \in Worker \cup {None} /\ active.turn \in Turn \cup {None}
      /\ active.ran \in BOOLEAN
      /\ Exclusive(active, cleanup, mutation)
  BY DEF IInv, Owns, Ahead, TypeOK, ActiveTurns, WritersExclusive, Exclusive
<1>1. ASSUME NEW w \in Worker, NEW t \in Turn, RunStarts(w, t) PROVE Ahead'
  <2>1. /\ turn' = [turn EXCEPT ![t].prompt = "running"] /\ worker' = worker /\ abort' = abort
        /\ cleanup' = cleanup /\ mutation' = mutation /\ turn[t].worker = w
        /\ worker[w].proc = "live"
    BY <1>1 DEF RunStarts, InPi
  <2>2. active' = [active EXCEPT !.ran = @ \/ (active.worker # None /\ active.turn = worker[w].turn)]
    BY <1>1 DEF RunStarts
  <2>3. /\ \A x \in Turn : turn'[x].worker = turn[x].worker
        /\ \A x \in Turn : x # t => turn'[x] = turn[x]
        /\ turn'[t].prompt = "running"
    BY <1>0, <2>1 DEF TurnStates
  <2>4. /\ active'.turn = active.turn /\ active'.worker = active.worker
        /\ active'.ran = (active.ran \/ (active.worker # None /\ active.turn = worker[w].turn))
    BY <1>0, <2>2 DEF TypeOK, ActiveTurns
  <2>5. CASE active.worker = None
    BY <1>0, <2>1, <2>4, <2>5 DEF TurnAhead, Ahead, AbortsAhead
  <2>6. CASE active.worker = w
    <3>1. RunsOn(w, turn')
      BY <2>1, <2>3 DEF RunsOn
    <3>2. TurnAhead(active', turn', worker')
      BY <1>0, <2>1, <2>4, <2>6, <3>1 DEF TurnAhead, AheadOf
    <3>3. AbortsAhead(turn', worker', abort')
      BY <1>0, <2>1, <2>3 DEF AbortsAhead
    <3> QED
      BY <1>0, <2>1, <3>2, <3>3 DEF Ahead
  <2>7. CASE active.worker # None /\ active.worker # w
    <3>1. active.turn # None /\ turn[active.turn].worker = active.worker
      BY <1>0, <2>7, OwnsFacts DEF NoTurn
    <3>2. active.turn # worker[w].turn
      BY <1>0, <2>7, <3>1, OwnsFacts
    <3>3. active'.ran = active.ran
      BY <1>0, <2>4, <3>2
    <3>4. active.turn # t
      BY <2>1, <2>7, <3>1
    <3>5. TurnAhead(active, turn', worker)
      BY <1>0, <2>1, <2>3, <2>7, <3>1, <3>4, TurnKept
    <3>6. TurnAhead(active', turn', worker')
      BY <2>1, <2>4, <3>3, <3>5 DEF TurnAhead
    <3>7. AbortsAhead(turn', worker', abort')
      BY <1>0, <2>1, <2>3 DEF AbortsAhead
    <3> QED
      BY <1>0, <2>1, <3>6, <3>7 DEF Ahead
  <2> QED
    BY <2>5, <2>6, <2>7
<1>2. ASSUME NEW w \in Worker, NEW t \in Turn, RunSettles(w, t) PROVE Ahead'
  <2> DEFINE reported == worker[w].turn
  <2> DEFINE tn == [turn EXCEPT ![t].prompt = "over"]
  <2> DEFINE obj == [worker[w] EXCEPT !.aborting = IF @ = reported THEN None ELSE @]
  <2> DEFINE wk == [worker EXCEPT ![w].aborting = IF @ = reported THEN None ELSE @]
  <2>1. /\ tn \in [Turn -> TurnStates]
        /\ \A x \in Turn : tn[x].worker = turn[x].worker
        /\ \A x \in Turn : x # t => tn[x] = turn[x]
    BY <1>0 DEF TurnStates
  <2>2. obj \in WorkerObjects /\ obj.queue = worker[w].queue /\ obj.proc = worker[w].proc
    BY <1>0 DEF WorkerObjects
  <2>3. wk = [worker EXCEPT ![w] = obj]
    BY <1>0
  <2>4. /\ wk \in [Worker -> WorkerObjects]
        /\ \A u \in Worker : wk[u].queue = worker[u].queue /\ wk[u].proc = worker[u].proc
    BY <1>0, <2>2, <2>3
  <2>5. /\ worker[w].proc = "live" /\ abort' = abort /\ mutation' = mutation /\ turn[t].worker = w
        /\ \/ reported = None /\ Quiet(tn, worker, cleanup)
           \/ reported # None /\ Terminal(reported, tn, wk, cleanup)
    BY <1>2 DEF RunSettles
  <2>6. reported \in Turn \cup {None}
    BY <1>0, OwnsFacts
  <2>7. reported # None => turn[reported].worker = w /\ active.turn = reported /\ active.worker = w
    BY <1>0, <2>5, OwnsFacts
  <2> HIDE DEF obj, tn
  <2>8. CommandsAhead(wk, cleanup, mutation)
    BY <1>0, <2>4, CommandsKept
  <2>9. AbortsAhead(tn, wk, abort) /\ AbortsAhead(tn, worker, abort)
    BY <1>0, <2>1, <2>4, AbortsKept
  <2> HIDE DEF wk
  <2>10. CASE reported # None /\ Terminal(reported, tn, wk, cleanup)
    BY <1>0, <2>1, <2>4, <2>5, <2>6, <2>7, <2>8, <2>9, <2>10, EventAhead
  <2>11. CASE reported = None /\ Quiet(tn, worker, cleanup)
    <3>1. active.worker # w
      BY <1>0, <2>11, OwnsFacts DEF Owns, Known, NoTurn
    <3>2. active.worker # None => active.turn # t
      BY <1>0, <2>5, <3>1, OwnsFacts DEF NoTurn
    <3>3. active.worker # None => active.turn \in Turn
      BY <1>0, OwnsFacts DEF NoTurn
    <3>4. TurnAhead(active, tn, worker)
      BY <1>0, <2>1, <2>5, <3>1, <3>2, <3>3, TurnKept
    <3> QED
      BY <1>0, <2>1, <2>5, <2>6, <2>9, <2>11, <3>4, EventAhead
  <2> QED
    BY <2>5, <2>10, <2>11
<1>3. ASSUME \E w \in Worker : PiWrites(w) PROVE Ahead'
  BY <1>0, <1>3 DEF PiWrites, Ahead
<1>4. CASE OwnedRefreshed
  <2>1. /\ active' = active /\ turn' = turn /\ worker' = worker /\ abort' = abort
        /\ \/ cleanup' = NoRefresh /\ mutation' = mutation
           \/ mutation' = NoRefresh /\ cleanup' = cleanup
    BY <1>4 DEF OwnedRefreshed
  <2>2. CommandsAhead(worker, cleanup', mutation')
    BY <1>0, <2>1 DEF CommandsAhead, NoRefresh
  <2> QED
    BY <1>0, <2>1, <2>2 DEF Ahead
<1> QED
  BY <1>1, <1>2, <1>3, <1>4

(* A worker that goes takes with it whoever waited for it.                 *)
LEMMA LossAhead ==
  ASSUME IInv, Owns, Ahead, NEW w \in Worker, TimesOut(w) \/ Close(w)
  PROVE  Ahead'
<1> USE TurnLifecycleAssumption
<1> DEFINE tn == TurnsLost(w)
<1> DEFINE cl == CleanupLost(w)
<1> DEFINE m == MutationLost(w)
<1>0. /\ TypeOK /\ Owned(active, turn, worker, abort) /\ Known(active, worker)
      /\ TurnAhead(active, turn, worker) /\ CommandsAhead(worker, cleanup, mutation)
      /\ AbortsAhead(turn, worker, abort)
      /\ worker \in [Worker -> WorkerObjects] /\ turn \in [Turn -> TurnStates]
      /\ cleanup \in Cleanups /\ mutation \in Mutations
      /\ abort \in [Turn -> AbortStates]
      /\ active.worker \in Worker \cup {None} /\ active.turn \in Turn \cup {None}
      /\ Exclusive(active, cleanup, mutation)
  BY DEF IInv, Owns, Ahead, TypeOK, ActiveTurns, WritersExclusive, Exclusive, AbortStates
<1>1. /\ tn \in [Turn -> TurnStates]
      /\ \A x \in Turn : tn[x].worker = turn[x].worker
      /\ \A x \in Turn : turn[x].worker # w => tn[x] = turn[x]
  BY <1>0 DEF TurnsLost, TurnStates
<1>2. abort' = AbortsLost(w) /\ mutation' = m
  BY DEF TimesOut, Close
<1>3. \A x \in Turn : abort'[x].pc = "sent" => abort[x].pc = "sent" /\ turn[x].worker # w
  BY <1>0, <1>2 DEF AbortsLost, AbortStates
<1>4. cl \in Cleanups /\ (cl = NoRefresh \/ (cl = cleanup /\ cleanup.worker # w))
  BY <1>0 DEF CleanupLost, NoRefresh, Cleanups
<1>5. /\ m \in Mutations /\ (m.pc \in {"none", "owned"} \/ (m = mutation /\ mutation.worker # w))
      /\ mutation = NoRefresh => m = NoRefresh
  BY <1>0 DEF MutationLost, NoRefresh, Mutations
<1> HIDE DEF tn, cl, m
<1>6. Exclusive(active, cl, m)
  BY <1>0, <1>4, <1>5 DEF Exclusive
<1>7. ASSUME NEW wk, \A u \in Worker : u # w => wk[u] = worker[u]
      PROVE  /\ CommandsAhead(wk, cl, m) /\ AbortsAhead(tn, wk, abort')
             /\ active.worker # w => TurnAhead(active, tn, wk)
  <2>1. CommandsAhead(wk, cl, m)
    <3>1. /\ cl.pc = "refresh" => cl = cleanup /\ cleanup.worker # w /\ cleanup.worker \in Worker
          /\ m.pc \in {"mutating", "refresh"} =>
               m = mutation /\ mutation.worker # w /\ mutation.worker \in Worker
      BY <1>0, <1>4, <1>5 DEF NoRefresh, Cleanups, Mutations
    <3> QED
      BY <1>0, <1>7, <3>1 DEF CommandsAhead
  <2>2. AbortsAhead(tn, wk, abort')
    <3>1. \A u \in Worker : worker[u].proc = "live"
                             /\ (\E x \in Turn : turn[x].worker = u /\ abort'[x].pc = "sent")
                             => wk[u].proc = "live"
      BY <1>3, <1>7
    <3> QED
      BY <1>0, <1>1, <1>3, <3>1, AbortsKept
  <2>3. ASSUME active.worker # w PROVE TurnAhead(active, tn, wk)
    <3>1. active.worker # None => active.turn \in Turn /\ turn[active.turn].worker = active.worker
      BY <1>0, OwnsFacts DEF NoTurn
    <3> QED
      BY <1>0, <1>1, <1>7, <2>3, <3>1, TurnKept
  <2> QED
    BY <2>1, <2>2, <2>3
<1>8. active.worker = w => active.turn \in Turn /\ worker[w].turn = active.turn
  BY <1>0, OwnsFacts DEF Known, NoTurn
<1>9. CASE TimesOut(w)
  <2> DEFINE obj == [worker[w] EXCEPT !.proc = "killed", !.queue = <<>>, !.aborting = None]
  <2> DEFINE wk == [worker EXCEPT ![w] = obj]
  <2>0. <<>> \in Queues
    BY DEF Queues
  <2>1. obj \in WorkerObjects /\ obj.proc = "killed"
    BY ZenonT(60), <1>0, <2>0 DEF WorkerObjects, Queues, Entries
  <2>2. \/ Unanswered(w) /\ Terminal(active.turn, tn, wk, cl)
        \/ ~Unanswered(w) /\ Quiet(tn, wk, cl)
    BY <1>9 DEF TimesOut, tn, cl
  <2> HIDE DEF obj
  <2>3. wk \in [Worker -> WorkerObjects] /\ wk[w] = obj
        /\ \A u \in Worker : u # w => wk[u] = worker[u]
    BY <1>0, <2>1
  <2> HIDE DEF wk
  <2>4. CommandsAhead(wk, cl, m) /\ AbortsAhead(tn, wk, abort')
    BY <1>7, <2>3
  <2>5. TurnAhead(active, tn, wk)
    <3>1. CASE active.worker = w
      BY <1>0, <2>1, <2>3, <3>1 DEF TurnAhead, AheadOf
    <3>2. CASE active.worker # w
      BY <1>7, <2>3, <3>2
    <3> QED
      BY <3>1, <3>2
  <2> QED
    BY <1>0, <1>1, <1>2, <1>4, <1>5, <1>6, <2>2, <2>3, <2>4, <2>5, EventAhead
<1>10. CASE Close(w)
  <2> DEFINE wk == [worker EXCEPT ![w] = NoWorker]
  <2>1. NoWorker \in WorkerObjects
    BY DEF NoWorker, WorkerObjects
  <2>2. \/ worker[w].turn # None /\ Terminal(worker[w].turn, tn, wk, cl)
        \/ worker[w].turn = None /\ Quiet(tn, wk, cl)
    BY <1>10 DEF Close, tn, cl
  <2>3. wk \in [Worker -> WorkerObjects] /\ \A u \in Worker : u # w => wk[u] = worker[u]
    BY <1>0, <2>1
  <2> HIDE DEF wk
  <2>4. CommandsAhead(wk, cl, m) /\ AbortsAhead(tn, wk, abort')
    BY <1>7, <2>3
  <2>5. worker[w].turn \in Turn \cup {None}
    BY <1>0, OwnsFacts
  <2>6. \/ TurnAhead(active, tn, wk)
        \/ active.turn = worker[w].turn /\ active.worker # None /\ worker[w].turn # None
    BY <1>7, <1>8, <2>3
  <2> QED
    BY <1>0, <1>1, <1>2, <1>4, <1>5, <1>6, <2>2, <2>3, <2>4, <2>5, <2>6, EventAhead
<1> QED
  BY <1>9, <1>10

(* Ahead is inductive, given IInv and Owns.                                *)
LEMMA AheadInductive == ASSUME IInv, Owns, Ahead, [Next]_vars PROVE Ahead'
<1>1. CASE UNCHANGED vars
  BY <1>1 DEF vars, Ahead
<1>2. CASE Next
  <2>1. ASSUME NEW w \in Worker, Answers(w) PROVE Ahead'
    BY <2>1, AnswersAhead
  <2>2. ASSUME NEW w \in Worker, TimesOut(w) \/ Close(w) PROVE Ahead'
    BY <2>2, LossAhead
  <2>3. ASSUME NEW t \in Turn, Abort(t) \/ AbortAnswered(t) \/ FinishAbort(t) PROVE Ahead'
    BY <2>3, AbortsAheadKeep
  <2> QED
    BY <1>2, <2>1, <2>2, <2>3, AdmissionAhead, RunsAhead DEF Next
<1> QED
  BY <1>1, <1>2

LEMMA AheadInvariant == Spec => [](IInv /\ Owns /\ Ahead)
<1>1. ASSUME Init PROVE Ahead
  <2>1. \A t \in Turn : abort[t].pc = "none"
    BY <1>1 DEF Init, NoAbort
  <2> QED
    BY <1>1, <2>1 DEF Init, NoTurn, NoRefresh, Ahead, TurnAhead, CommandsAhead, AbortsAhead
<1>2. IInv /\ Owns /\ Ahead /\ [Next]_vars => Ahead'
  BY AheadInductive
<1> QED
  BY <1>1, <1>2, OwnsInvariant, PTL DEF Spec

(* Nothing is forgotten, however turns, refreshes and mutations end.  Once *)
(* no turn is active and every abort is answered, no worker that could be  *)
(* handed out still names a turn (activeTurnId) or carries an abort mark   *)
(* (abortingTurnId); and whatever holds the thread, or waits for an abort, *)
(* waits for something that is still to come.                              *)
THEOREM NothingLeftBehind == Spec => []NothingForgotten
<1>1. IInv /\ Owns => AtRest
  <2> SUFFICES ASSUME IInv, Owns, active = NoTurn,
                      \A t \in Turn : abort[t].pc \notin {"sent", "settling"},
                      NEW w \in Worker, worker[w].proc = "live"
               PROVE  worker[w].turn = None /\ worker[w].aborting = None
    BY DEF AtRest
  <2> QED
    BY OwnsFacts, TurnLifecycleAssumption DEF IInv, Owns, NoTurn
<1>2. IInv /\ Owns /\ Ahead => Attended
  <2> SUFFICES ASSUME IInv, Owns, Ahead PROVE Attended
    OBVIOUS
  <2> DEFINE w == active.worker
  <2>1. ASSUME w # None
        PROVE  /\ worker[w].turn = active.turn /\ worker[w].proc # "none"
               /\ worker[w].proc = "live" =>
                    \/ Unanswered(w)
                    \/ \E t \in Turn : turn[t].worker = w /\ turn[t].prompt \in {"due", "running"}
    <3>1. AheadOf(active.turn, active.ran, w, worker[w], turn) /\ worker[w].turn = active.turn
      BY <2>1 DEF Ahead, TurnAhead, Owns, Known
    <3>2. HasPrompt(worker[w].queue, active.turn) => Unanswered(w)
      BY DEF HasPrompt, Unanswered
    <3> QED
      BY <3>1, <3>2 DEF AheadOf, DueOn, RunsOn
  <2>2. /\ cleanup.pc = "refresh" => Asked(cleanup.worker, "state")
        /\ mutation.pc = "mutating" => Asked(mutation.worker, "mutate")
        /\ mutation.pc = "refresh" => Asked(mutation.worker, "state")
    BY DEF Ahead, CommandsAhead, Has, Asked
  <2>3. \A t \in Turn : abort[t].pc = "sent" => worker[turn[t].worker].proc = "live"
    BY DEF Ahead, AbortsAhead
  <2>4. \A u \in Worker : worker[u].queue # <<>> => worker[u].proc = "live"
    BY OwnsFacts DEF IInv, Owns
  <2> QED
    BY <2>1, <2>2, <2>3, <2>4 DEF Attended
<1> QED
  BY <1>1, <1>2, AheadInvariant, PTL DEF NothingForgotten

(* If Pi leaves no command unanswered, a turn gets at most one terminal    *)
(* event: whichever comes first takes the turn out of activeTurns, or the  *)
(* worker's exit finds no turn on the worker any more.  With timeouts it   *)
(* is false: a killed worker's exit ends its turn a second time.           *)
THEOREM EndsOnce == ASSUME ~Timeouts PROVE Spec => []TerminalOnce
  BY OnceInvariant, PTL

(* If only prompts, mutations and refreshes are in the queues, a run is    *)
(* reported for the turn it belongs to (mapWorkerEvent labels it with the  *)
(* worker's activeTurnId).  With other commands there it is false: one     *)
(* ahead of the prompt holds it up while an abort ends its turn.           *)
THEOREM RunsNamed == ASSUME ~QueuedReads PROVE Spec => []RunsEndTheirOwnTurn
<1>1. IInv /\ Owns /\ Order => RunsEndTheirOwnTurn
  BY OrderFacts DEF RunsEndTheirOwnTurn, Working
<1> QED
  BY <1>1, OrderInvariant, PTL

(* Pi works on a prompt only while its turn is the active one.             *)
RunsActive == \A t \in Turn : turn[t].prompt = "running" => active.turn = t /\ active.worker # None

(* A turn becomes active before it has a worker.                           *)
LEMMA ActiveSteps ==
  ASSUME IInv, Next
  PROVE  active'.turn = active.turn \/ active'.turn = None \/ active'.worker = None
<1> DEFINE Goal == active'.turn = active.turn \/ active'.turn = None \/ active'.worker = None
<1>0. active \in ActiveTurns
  BY DEF IInv, TypeOK
<1>1. ASSUME NEW t, NEW tn, NEW wk, NEW cl, Terminal(t, tn, wk, cl) \/ Quiet(tn, wk, cl) PROVE Goal
  BY <1>1 DEF Terminal, Quiet, NoTurn
<1>2. ASSUME NEW t \in Turn, Send(t) \/ Accept(t) \/ SendFails(t) PROVE Goal
  <2>1. CASE Accept(t)
    <3>1. PICK w \in Worker : active' = [active EXCEPT !.worker = w]
      BY <2>1, Zenon DEF Accept
    <3> QED
      BY <1>0, <3>1 DEF ActiveTurns
  <2> QED
    BY <1>2, <2>1 DEF Send, SendFails, NoTurn
<1>3. ASSUME NEW t \in Turn, Abort(t) \/ AbortAnswered(t) \/ FinishAbort(t) PROVE Goal
  BY <1>1, <1>3 DEF Abort, AbortAnswered, FinishAbort
<1>4. ASSUME NEW w \in Worker, Answers(w) PROVE Goal
  <2>1. CASE PromptAnswered(w)
    BY <1>1, <2>1 DEF PromptAnswered
  <2>2. CASE PromptFails(w)
    BY <1>1, <2>2 DEF PromptFails
  <2> QED
    BY <1>4, <2>1, <2>2 DEF Answers, ReadAnswered, MutateAnswered, StateAnswered
<1>5. ASSUME NEW w \in Worker, TimesOut(w) \/ Close(w) PROVE Goal
  <2>1. CASE TimesOut(w)
    BY <1>1, <2>1 DEF TimesOut
  <2>2. CASE Close(w)
    BY <1>1, <2>2 DEF Close
  <2> QED
    BY <1>5, <2>1, <2>2
<1>6. ASSUME NEW w \in Worker, NEW t \in Turn, RunStarts(w, t) \/ RunSettles(w, t) PROVE Goal
  <2>1. CASE RunStarts(w, t)
    <3>1. \E b : active' = [active EXCEPT !.ran = b]
      BY <2>1 DEF RunStarts
    <3> QED
      BY <1>0, <3>1 DEF ActiveTurns
  <2>2. CASE RunSettles(w, t)
    BY <1>1, <2>2 DEF RunSettles
  <2> QED
    BY <1>6, <2>1, <2>2
<1>7. ASSUME UNCHANGED active PROVE Goal
  BY <1>7
<1> HIDE DEF Goal
<1>8. Goal
  BY <1>2, <1>3, <1>4, <1>5, <1>6, <1>7
  DEF Next, QueueRead, Reassign, PiWrites, Mutate, OwnedRefreshed
<1> QED
  BY <1>8 DEF Goal

(* Under the same condition no run of a turn starts after the turn has     *)
(* been reported as ended.                                                 *)
THEOREM NoRunAfterEnd == ASSUME ~QueuedReads PROVE Spec => EndedStaysEnded
<1>1. IInv /\ Owns /\ Order => RunsActive
  BY OrderFacts, TurnLifecycleAssumption DEF RunsActive, Working
<1>2. IInv /\ Owns /\ RunsActive' /\ [Next]_vars =>
        [\A t \in Turn : turn[t].ended > 0 /\ turn'[t].prompt = "running"
           => turn[t].prompt = "running"]_vars
  <2> SUFFICES ASSUME IInv, Owns, RunsActive', Next, NEW t \in Turn,
                      turn[t].ended > 0, turn'[t].prompt = "running"
               PROVE  FALSE
    BY Zenon
  <2>1. active'.turn = t /\ active'.worker # None
    BY DEF RunsActive
  <2>2. active.turn = t
    BY <2>1, ActiveSteps, TurnLifecycleAssumption
  <2> QED
    BY <2>2, OwnsFacts DEF IInv, Owns
<1>3. Spec => [](IInv /\ Owns /\ RunsActive)
  BY <1>1, OrderInvariant, PTL
<1> QED
  BY <1>2, <1>3, PTL DEF Spec, EndedStaysEnded

(* Under the same condition, as long as no worker has failed, a thread     *)
(* with no work left has its session file as the baseline has it, so that  *)
(* assertUnchanged never refuses the next turn for the daemon's own        *)
(* changes.                                                                *)
THEOREM BaselineKept == ASSUME ~QueuedReads PROVE Spec => []BaselineCurrent
<1>1. Fresh => BaselineCurrent
  BY DEF Fresh, Current, Held, BaselineCurrent, Idle, NoTurn
<1> QED
  BY <1>1, OrderInvariant, PTL
=============================================================================
