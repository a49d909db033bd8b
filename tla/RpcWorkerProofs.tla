-------------------------- MODULE RpcWorkerProofs --------------------------
(***************************************************************************)
(* Timers and pending commands agree, a process that has closed is quiet,  *)
(* and Pi works on one command at a time: for any number of commands.      *)
(***************************************************************************)
EXTENDS RpcWorker, TLAPS

CallType == [Call -> {"new", "queued", "written", "ok", "error"}]

(* ClosedIsQuiet is not inductive alone: a line that was still to be read  *)
(* after the close would make the worker look usable again.                *)
QuietInv ==
  /\ call \in CallType
  /\ output \in Seq(Call \cup {Event})
  /\ timer = Pending
  /\ proc = "closed" => output = <<>> /\ timer = {} /\ state # "up"

(* Settling calls takes exactly them out of the pending Map. *)
LEMMA SettlePending ==
  ASSUME NEW calls \in SUBSET Call, NEW how \in {"ok", "error"},
         call \in CallType, Settle(calls, how)
  PROVE  call' \in CallType /\ Pending' = Pending \ calls
BY DEF Settle, Pending, CallType

(* Rejecting all that is pending leaves neither commands nor timers. *)
LEMMA RejectPendingQuiet ==
  ASSUME call \in CallType, timer = Pending, RejectPending
  PROVE  call' \in CallType /\ timer' = Pending' /\ timer' = {}
<1>1. Pending \in SUBSET Call
  BY DEF Pending
<1>2. call' \in CallType /\ Pending' = {}
  BY <1>1, SettlePending DEF RejectPending
<1> QED
  BY <1>2 DEF RejectPending

(* A command that is executed is pending with a timer, or was refused. *)
LEMMA ExecuteQuiet ==
  ASSUME NEW c \in Call, call \in CallType, timer = Pending, call[c] \in {"new", "queued"},
         Execute(c)
  PROVE  /\ call' \in CallType /\ timer' = Pending'
         /\ state # "up" => timer' = timer
<1>1. CASE state = "up"
  BY <1>1 DEF Execute, Pending, CallType
<1>2. CASE state # "up"
  <2>1. Settle({c}, "error") /\ UNCHANGED timer
    BY <1>2 DEF Execute
  <2>2. call' \in CallType /\ Pending' = Pending \ {c}
    BY <2>1, SettlePending
  <2>3. c \notin Pending
    BY DEF Pending
  <2> QED
    BY <2>1, <2>2, <2>3
<1> QED
  BY <1>1, <1>2

(* The inductive step, action by action. *)
LEMMA StepQuiet ==
  ASSUME RpcWorkerAssumption, QuietInv, [Next]_vars
  PROVE  QuietInv'
<1> USE DEF QuietInv
<1>1. ASSUME NEW c \in Call, Command(c) PROVE QuietInv'
  <2>1. UNCHANGED <<state, proc, output>> /\ call[c] = "new"
    BY <1>1 DEF Command
  <2>2. CASE c \in Bypass
    BY <1>1, <2>1, <2>2, ExecuteQuiet DEF Command
  <2>3. CASE c \notin Bypass
    BY <1>1, <2>1, <2>3 DEF Command, Pending, CallType
  <2> QED
    BY <2>2, <2>3
<1>2. ASSUME NEW c \in Call, RunTask(c) PROVE QuietInv'
  BY <1>2, ExecuteQuiet DEF RunTask, NextTask
<1>3. ASSUME NEW c \in Call, TimesOut(c) PROVE QuietInv'
  <2>1. Pending \in SUBSET Call /\ c \in Pending
    BY <1>3 DEF TimesOut, Pending
  <2>2. call' \in CallType /\ Pending' = {}
    BY <1>3, <2>1, SettlePending DEF TimesOut
  <2>3. timer' = {} /\ proc # "closed" /\ proc' # "closed" /\ UNCHANGED output
    BY <1>3, <2>1 DEF TimesOut
  <2> QED
    BY <2>2, <2>3
<1>4. ASSUME NEW c \in Call, WriteFails(c) PROVE QuietInv'
  <2>1. call' \in CallType /\ Pending' = Pending \ {c}
    BY <1>4, SettlePending DEF WriteFails
  <2> QED
    BY <1>4, <2>1 DEF WriteFails
<1>5. ASSUME NEW c \in Call, Answer(c) PROVE QuietInv'
  <2>1. proc # "closed" /\ UNCHANGED <<proc, call, timer>> /\ output' = Append(output, c)
    BY <1>5 DEF Answer, Runs
  <2> QED
    BY <2>1 DEF Pending
<1>6. CASE StdinError
  BY <1>6, RejectPendingQuiet DEF StdinError
<1>7. CASE Line
  <2>1. Head(output) \in Call \cup {Event} /\ Tail(output) \in Seq(Call \cup {Event})
    BY <1>7 DEF Line
  <2>2. proc # "closed" /\ UNCHANGED proc /\ output' = Tail(output)
    BY <1>7 DEF Line
  <2>3. CASE Head(output) # Event /\ Head(output) \in Pending
    <3>1. Settle({Head(output)}, "ok") /\ timer' = timer \ {Head(output)}
      BY <1>7, <2>3 DEF Line
    <3>2. call' \in CallType /\ Pending' = Pending \ {Head(output)}
      BY <2>1, <2>3, <3>1, SettlePending
    <3> QED
      BY <2>1, <2>2, <3>1, <3>2
  <2>4. CASE Head(output) = Event \/ Head(output) \notin Pending
    BY <1>7, <2>1, <2>2, <2>4 DEF Line, Pending
  <2> QED
    BY <2>3, <2>4
<1>8. CASE Close
  BY <1>8, RejectPendingQuiet DEF Close
<1>9. CASE Stop
  BY <1>9 DEF Stop, Pending
<1>10. CASE StopWaited
  BY <1>10 DEF StopWaited, Pending
<1>11. CASE AgentEvent
  <2>1. proc # "closed" /\ UNCHANGED <<proc, call, timer>> /\ output' = Append(output, Event)
    BY <1>11 DEF AgentEvent, Runs
  <2> QED
    BY <2>1 DEF Pending
<1>12. CASE Exit
  BY <1>12 DEF Exit, Pending
<1>13. CASE UNCHANGED vars
  BY <1>13 DEF vars, Pending
<1> QED
  BY <1>1, <1>2, <1>3, <1>4, <1>5, <1>6, <1>7, <1>8, <1>9, <1>10, <1>11, <1>12, <1>13 DEF Next

(* A worker that has just started has nothing pending. *)
LEMMA InitQuiet == Init => QuietInv
BY DEF Init, QuietInv, CallType, Pending

(* However answers, timeouts, failed writes, the close and stop come: the  *)
(* armed timers are those of the commands in the pending Map.              *)
THEOREM TimersPending == Spec => []TimersArePending
<1>1. QuietInv /\ [Next]_vars => QuietInv'
  BY StepQuiet, RpcWorkerAssumption
<1>2. QuietInv => TimersArePending
  BY DEF QuietInv, TimersArePending
<1> QED
  BY InitQuiet, <1>1, <1>2, PTL DEF Spec

(* Nothing is pending, no timer is armed and the worker is not taken for   *)
(* usable once its process has closed.                                     *)
THEOREM QuietAfterClose == Spec => []ClosedIsQuiet
<1>1. QuietInv /\ [Next]_vars => QuietInv'
  BY StepQuiet, RpcWorkerAssumption
<1>2. QuietInv => ClosedIsQuiet
  BY DEF QuietInv, ClosedIsQuiet
<1> QED
  BY InitQuiet, <1>1, <1>2, PTL DEF Spec
-----------------------------------------------------------------------------
(* One command at a time.                                                  *)

(* What the queue of commands is.                                          *)
QueueOK ==
  /\ queue \in Seq(Call) /\ IsInjective(queue)
  /\ Range(queue) = Unsettled \ Bypass
  /\ \A i \in DOMAIN queue : call[queue[i]] = "written" => i = 1

(* A command is sent once, and while Pi's input is open an ordinary one    *)
(* that Pi works on is pending.  It is at the head of the queue then, and  *)
(* the next task is not run.                                               *)
Sent ==
  /\ \A c \in input : call[c] \notin {"new", "queued"} /\ c \notin Range(output)
  /\ \A c \in Call \cap Range(output) : call[c] \notin {"new", "queued"}
  /\ proc = "live" /\ stdin => input \ Bypass \subseteq Pending

OneInv == TypeOK /\ timer = Pending /\ Sent /\ OneAtATime

(* A new call goes to the end of the queue.                                *)
LEMMA AppendQueue ==
  ASSUME call \in CallType, QueueOK, NEW c \in Call \ Bypass, call[c] = "new",
         call' = [call EXCEPT ![c] = "queued"], queue' = Append(queue, c)
  PROVE  QueueOK'
<1> USE DEF QueueOK, IsInjective, Range, Unsettled, CallType
<1>1. c \notin Range(queue)
  OBVIOUS
<1>2. /\ queue' \in Seq(Call) /\ DOMAIN queue' = 1..(Len(queue) + 1)
      /\ \A i \in DOMAIN queue : queue'[i] = queue[i]
      /\ queue'[Len(queue) + 1] = c /\ DOMAIN queue = 1..Len(queue)
  OBVIOUS
<1>3. IsInjective(queue)'
  BY <1>1, <1>2
<1>4. Unsettled' = Unsettled \cup {c} /\ Range(queue)' = Range(queue) \cup {c}
  BY <1>2
<1>5. \A i \in DOMAIN queue' : call'[queue'[i]] = "written" => i = 1
  BY <1>1, <1>2
<1> QED
  BY <1>2, <1>3, <1>4, <1>5

(* The head of the queue is written.                                       *)
LEMMA WriteQueue ==
  ASSUME call \in CallType, QueueOK, NEW c \in Call, call[c] \in {"new", "queued"},
         c \in Bypass \/ NextTask(c),
         call' = [call EXCEPT ![c] = "written"], queue' = queue
  PROVE  QueueOK'
<1> USE DEF QueueOK, IsInjective, Range, Unsettled, CallType
<1>1. CASE c \in Bypass
  BY <1>1
<1>2. CASE c \notin Bypass
  <2>1. c = Head(queue) /\ call[c] = "queued" /\ queue # <<>> /\ c = queue[1]
    BY <1>2 DEF NextTask
  <2>2. \A i \in DOMAIN queue : queue[i] = c => i = 1
    BY <2>1
  <2>3. Unsettled' = Unsettled
    BY <2>1
  <2> QED
    BY <2>2, <2>3
<1> QED
  BY <1>1, <1>2

(* What is settled is at the head of the queue, or not in it.              *)
LEMMA SettleQueue ==
  ASSUME call \in CallType, QueueOK, NEW calls \in SUBSET Call, NEW how \in {"ok", "error"},
         Settle(calls, how), \A i \in DOMAIN queue : queue[i] \in calls => i = 1
  PROVE  QueueOK'
<1> USE DEF QueueOK, IsInjective, Range, CallType
<1>1. Unsettled' = Unsettled \ calls
  BY DEF Settle, Unsettled
<1>2. \A c \in Call : call'[c] = IF c \in calls THEN how ELSE call[c]
  BY DEF Settle
<1>3. CASE queue # <<>> /\ Head(queue) \in calls
  <2>1. queue' = Tail(queue) /\ queue[1] \in calls
    BY <1>3 DEF Settle
  <2>2. /\ queue' \in Seq(Call) /\ DOMAIN queue' = 1..(Len(queue) - 1)
        /\ \A i \in DOMAIN queue' : queue'[i] = queue[i + 1] /\ i + 1 \in DOMAIN queue
        /\ \A i \in DOMAIN queue : i = 1 \/ (i - 1 \in DOMAIN queue' /\ queue'[i - 1] = queue[i])
    BY <1>3, <2>1
  <2>3. IsInjective(queue)'
    BY <2>2
  <2>4. Range(queue)' = Range(queue) \ calls
    <3>1. \A x \in Range(queue)' : x \in Range(queue) \ calls
      BY <2>2
    <3>2. \A x \in Range(queue) \ calls : x \in Range(queue)'
      <4> SUFFICES ASSUME NEW i \in DOMAIN queue, queue[i] \notin calls
                   PROVE  queue[i] \in Range(queue)'
        OBVIOUS
      <4>1. i # 1
        BY <2>1
      <4> QED
        BY <2>2, <4>1
    <3> QED
      BY <3>1, <3>2
  <2>5. ASSUME NEW i \in DOMAIN queue' PROVE call'[queue'[i]] # "written"
    <3>1. i \in Nat \ {0} /\ i + 1 # 1 /\ queue'[i] = queue[i + 1] /\ i + 1 \in DOMAIN queue
      BY <2>2
    <3>2. queue[i + 1] \in Call /\ queue[i + 1] \notin calls
      BY <3>1
    <3> QED
      BY <1>2, <3>1, <3>2
  <2> QED
    BY <1>1, <2>2, <2>3, <2>4, <2>5
<1>4. CASE ~(queue # <<>> /\ Head(queue) \in calls)
  <2>1. queue' = queue
    BY <1>4 DEF Settle
  <2>2. \A i \in DOMAIN queue : queue[i] \notin calls
    BY <1>4
  <2>3. Range(queue)' = Range(queue) /\ Range(queue) \cap calls = {}
    BY <2>1, <2>2
  <2>4. \A i \in DOMAIN queue' : call'[queue'[i]] = "written" => i = 1
    BY <1>2, <2>1, <2>2
  <2> QED
    BY <1>1, <2>1, <2>3, <2>4
<1> QED
  BY <1>3, <1>4

(* So it is for all that is pending, and for any part of it.               *)
LEMMA SettlesPending ==
  ASSUME call \in CallType, QueueOK, NEW calls \in SUBSET Pending, NEW how \in {"ok", "error"},
         Settle(calls, how)
  PROVE  QueueOK' /\ call' \in CallType /\ Pending' = Pending \ calls
<1>1. calls \in SUBSET Call
  BY DEF Pending
<1>2. \A i \in DOMAIN queue : queue[i] \in calls => i = 1
  BY DEF QueueOK, Pending
<1> QED
  BY <1>1, <1>2, SettlePending, SettleQueue

(* A command that is run is pending, in the queue's head if it is ordinary,*)
(* or refused.                                                             *)
LEMMA ExecuteQueue ==
  ASSUME call \in CallType, QueueOK, NEW c \in Call, call[c] \in {"new", "queued"},
         (c \in Bypass /\ call[c] = "new") \/ NextTask(c), Execute(c)
  PROVE  QueueOK'
<1>1. CASE state = "up"
  BY <1>1, WriteQueue DEF Execute
<1>2. CASE state # "up"
  <2>1. Settle({c}, "error")
    BY <1>2 DEF Execute
  <2>2. \A i \in DOMAIN queue : queue[i] \in {c} => i = 1
    <3>1. CASE c \in Bypass /\ call[c] = "new"
      BY <3>1 DEF QueueOK, Range, Unsettled
    <3>2. CASE NextTask(c)
      BY <3>2 DEF NextTask, QueueOK, IsInjective
    <3> QED
      BY <3>1, <3>2
  <2> QED
    BY <2>1, <2>2, SettleQueue
<1> QED
  BY <1>1, <1>2

(* What the daemon does not read or execute keeps the rest.                *)
LEMMA QueueKept ==
  ASSUME QueueOK, UNCHANGED <<call, queue>>
  PROVE  QueueOK' /\ Pending' = Pending
BY DEF QueueOK, Unsettled, Pending

(* TypeOK apart from the queue.                                            *)
Typed ==
  /\ state \in {"up", "crashed", "stopped"}
  /\ proc \in {"live", "term", "killed", "exited", "closed"}
  /\ stdin \in BOOLEAN
  /\ call \in CallType
  /\ timer \subseteq Call
  /\ input \subseteq Call
  /\ output \in Seq(Call \cup {Event})
  /\ stopping \in {"no", "term", "kill", "over"}

(* TypeOK is the two together.                                             *)
LEMMA TypeParts == TypeOK <=> Typed /\ QueueOK
BY DEF TypeOK, Typed, QueueOK, CallType

(* And the invariant is these parts, after a step as well.                 *)
LEMMA OneParts ==
  ASSUME Typed', QueueOK', (timer = Pending)', Sent', OneAtATime'
  PROVE  OneInv'
BY DEF OneInv, TypeOK, Typed, QueueOK, CallType

(* The lines that Pi has written and the daemon has not read.              *)
LEMMA OutputGrows ==
  ASSUME output \in Seq(Call \cup {Event}), NEW x \in Call \cup {Event},
         output' = Append(output, x)
  PROVE  output' \in Seq(Call \cup {Event}) /\ Range(output') = Range(output) \cup {x}
<1>1. /\ output' \in Seq(Call \cup {Event}) /\ DOMAIN output' = 1..(Len(output) + 1)
      /\ \A i \in DOMAIN output : output'[i] = output[i]
      /\ output'[Len(output) + 1] = x /\ DOMAIN output = 1..Len(output)
  OBVIOUS
<1> QED
  BY <1>1 DEF Range

(* And when the daemon reads one.                                          *)
LEMMA OutputShrinks ==
  ASSUME output \in Seq(Call \cup {Event}), output # <<>>, output' = Tail(output)
  PROVE  /\ output' \in Seq(Call \cup {Event}) /\ Range(output') \subseteq Range(output)
         /\ Head(output) \in Range(output)
<1>1. /\ output' \in Seq(Call \cup {Event}) /\ DOMAIN output' = 1..(Len(output) - 1)
      /\ \A i \in DOMAIN output' : output'[i] = output[i + 1] /\ i + 1 \in DOMAIN output
      /\ 1 \in DOMAIN output /\ Head(output) = output[1]
  OBVIOUS
<1> QED
  BY <1>1 DEF Range

(* A command is executed: nothing that Pi works on is ordinary then, if it *)
(* is ordinary itself.                                                     *)
LEMMA ExecuteOne ==
  ASSUME RpcWorkerAssumption, OneInv, NEW c \in Call, call[c] \in {"new", "queued"},
         (c \in Bypass /\ call[c] = "new") \/ NextTask(c), Execute(c),
         UNCHANGED <<state, proc, stdin, output, stopping>>
  PROVE  OneInv'
<1>1. Typed /\ QueueOK /\ timer = Pending /\ Sent /\ OneAtATime
  BY TypeParts DEF OneInv
<1>2. QueueOK'
  BY <1>1, ExecuteQueue DEF Typed
<1>3. call' \in CallType /\ timer' = Pending'
  BY <1>1, ExecuteQuiet DEF Typed
<1>4. Typed'
  BY <1>1, <1>3 DEF Typed, Execute, Settle
<1>5. CASE state = "up"
  <2>1. /\ \A d \in Call : d # c => call'[d] = call[d]
        /\ call'[c] = "written" /\ Pending' = Pending \cup {c}
        /\ input' = IF stdin /\ Runs THEN input \cup {c} ELSE input
    BY <1>1, <1>5 DEF Execute, Typed, CallType, Pending
  <2>2. c \notin Range(output)
    BY <1>1 DEF Sent
  <2>3. Sent'
    BY <1>1, <2>1, <2>2 DEF Sent, Typed
  <2>4. ASSUME c \notin Bypass, proc = "live", stdin PROVE input \subseteq Bypass
    <3>1. NextTask(c) /\ call[c] = "queued"
      BY <2>4 DEF NextTask
    <3> SUFFICES ASSUME NEW d \in input, d \notin Bypass PROVE FALSE
      OBVIOUS
    <3>2. d \in Call /\ call[d] = "written"
      BY <1>1, <2>4 DEF Sent, Pending
    <3>3. d \in Range(queue)
      BY <1>1, <3>2 DEF QueueOK, Unsettled
    <3>4. PICK i \in DOMAIN queue : d = queue[i]
      BY <3>3 DEF Range
    <3>5. d = queue[1] /\ c = Head(queue) /\ Head(queue) = queue[1]
      BY <1>1, <3>1, <3>2, <3>4 DEF QueueOK, NextTask
    <3> QED
      BY <3>1, <3>2, <3>5
  <2>5. OneAtATime'
    <3>1. CASE c \in Bypass \/ ~stdin
      BY <1>1, <2>1, <3>1 DEF OneAtATime
    <3>2. CASE c \notin Bypass /\ stdin
      BY <2>1, <2>4, <3>2 DEF OneAtATime
    <3> QED
      BY <1>1, <3>1, <3>2 DEF Typed
  <2> QED
    BY <1>2, <1>3, <1>4, <2>3, <2>5, OneParts
<1>6. CASE state # "up"
  <2>1. Settle({c}, "error") /\ UNCHANGED <<timer, input>>
    BY <1>6 DEF Execute
  <2>2. \A d \in Call : d # c => call'[d] = call[d]
    BY <2>1 DEF Settle
  <2>3. call'[c] = "error"
    BY <2>1 DEF Settle
  <2>4. Pending' = Pending
    BY <1>3, <2>1, <1>1
  <2>5. Sent'
    BY <1>1, <2>1, <2>2, <2>3, <2>4 DEF Sent, Typed
  <2>6. OneAtATime'
    BY <1>1, <2>1 DEF OneAtATime
  <2> QED
    BY <1>2, <1>3, <1>4, <2>5, <2>6, OneParts
<1> QED
  BY <1>5, <1>6

(* Commands that are settled are neither new nor queued, so those that Pi  *)
(* works on stay what they are unless they are settled themselves.         *)
LEMMA SettleOne ==
  ASSUME RpcWorkerAssumption, OneInv, NEW calls \in SUBSET Pending, NEW how \in {"ok", "error"},
         Settle(calls, how), timer' = timer \ calls, Typed',
         Range(output') \subseteq Range(output), input' \subseteq input,
         proc' = "live" => proc = "live",
         proc' = "live" /\ stdin' => stdin /\ calls \cap input = {}
  PROVE  OneInv'
<1>1. Typed /\ QueueOK /\ timer = Pending /\ Sent /\ OneAtATime
  BY TypeParts DEF OneInv
<1>2. QueueOK' /\ Pending' = Pending \ calls
  BY <1>1, SettlesPending DEF Typed
<1>3. \A c \in Call : call'[c] = IF c \in calls THEN how ELSE call[c]
  BY DEF Settle
<1>4. Sent'
  BY <1>1, <1>2, <1>3 DEF Sent, Typed
<1>5. OneAtATime'
  BY <1>1 DEF OneAtATime
<1> QED
  BY <1>1, <1>2, <1>4, <1>5, OneParts

(* The inductive step.                                                     *)
LEMMA StepOne == ASSUME RpcWorkerAssumption, OneInv, [Next]_vars PROVE OneInv'
<1>0. Typed /\ QueueOK /\ timer = Pending /\ Sent /\ OneAtATime
  BY TypeParts DEF OneInv
<1>1. ASSUME NEW c \in Call, Command(c) PROVE OneInv'
  <2>1. CASE c \in Bypass
    BY <1>1, <2>1, ExecuteOne DEF Command
  <2>2. CASE c \notin Bypass
    <3>1. /\ call[c] = "new" /\ call' = [call EXCEPT ![c] = "queued"]
          /\ queue' = Append(queue, c)
          /\ UNCHANGED <<timer, input, state, proc, stdin, output, stopping>>
      BY <1>1, <2>2 DEF Command
    <3>2. QueueOK'
      BY <1>0, <2>2, <3>1, AppendQueue DEF Typed
    <3>3. Typed' /\ Pending' = Pending
      BY <1>0, <3>1 DEF Typed, CallType, Pending
    <3>4. Sent'
      BY <1>0, <3>1, <3>3 DEF Sent, Typed, CallType
    <3>5. OneAtATime'
      BY <1>0, <3>1 DEF OneAtATime
    <3> QED
      BY <1>0, <3>1, <3>2, <3>3, <3>4, <3>5, OneParts
  <2> QED
    BY <2>1, <2>2
<1>2. ASSUME NEW c \in Call, RunTask(c) PROVE OneInv'
  BY <1>2, ExecuteOne DEF RunTask, NextTask
<1>3. ASSUME NEW c \in Call, TimesOut(c) PROVE OneInv'
  <2>1. /\ Settle(Pending, "error") /\ timer' = timer \ Pending
        /\ proc' # "live" /\ UNCHANGED <<stdin, input, output, stopping>>
        /\ state' = "crashed" /\ proc' \in {"killed", "exited", "closed"}
    BY <1>0, <1>3 DEF TimesOut, Typed, Runs
  <2>2. Typed'
    BY <1>0, <2>1, SettlesPending DEF Typed
  <2> QED
    BY <2>1, <2>2, SettleOne
<1>4. ASSUME NEW c \in Call, WriteFails(c) PROVE OneInv'
  <2>1. /\ {c} \in SUBSET Pending /\ c \notin input
        /\ Settle({c}, "error") /\ timer' = timer \ {c}
        /\ UNCHANGED <<state, proc, stdin, input, output, stopping>>
    BY <1>4 DEF WriteFails
  <2>2. Typed'
    BY <1>0, <2>1, SettlesPending DEF Typed
  <2> QED
    BY <2>1, <2>2, SettleOne
<1>5. ASSUME NEW c \in Call, Answer(c) PROVE OneInv'
  <2>1. /\ c \in input /\ input' = input \ {c} /\ output' = Append(output, c)
        /\ UNCHANGED <<state, proc, stdin, call, queue, timer, stopping>>
    BY <1>5 DEF Answer
  <2>2. output' \in Seq(Call \cup {Event}) /\ Range(output') = Range(output) \cup {c}
    BY <1>0, <2>1, OutputGrows DEF Typed
  <2>3. QueueOK' /\ Pending' = Pending
    BY <1>0, <2>1, QueueKept
  <2>4. Typed'
    BY <1>0, <2>1, <2>2 DEF Typed
  <2>5. Sent'
    BY <1>0, <2>1, <2>2, <2>3 DEF Sent
  <2>6. OneAtATime'
    BY <1>0, <2>1 DEF OneAtATime
  <2> QED
    BY <1>0, <2>1, <2>3, <2>4, <2>5, <2>6, OneParts
<1>6. CASE StdinError
  <2>1. /\ Settle(Pending, "error") /\ timer' = timer \ Pending /\ stdin' = FALSE
        /\ UNCHANGED <<state, proc, input, output, stopping>>
    BY <1>6 DEF StdinError, RejectPending
  <2>2. Typed'
    BY <1>0, <2>1, SettlesPending DEF Typed
  <2> QED
    BY <2>1, <2>2, SettleOne
<1>7. CASE Line
  <2>1. output' = Tail(output) /\ output # <<>> /\ UNCHANGED <<proc, stdin, input, stopping>>
    BY <1>7 DEF Line
  <2>2. /\ output' \in Seq(Call \cup {Event}) /\ Range(output') \subseteq Range(output)
        /\ Head(output) \in Range(output)
    BY <1>0, <2>1, OutputShrinks DEF Typed
  <2>3. CASE Head(output) # Event /\ Head(output) \in Pending
    <3>1. /\ Settle({Head(output)}, "ok") /\ timer' = timer \ {Head(output)} /\ UNCHANGED state
          /\ {Head(output)} \in SUBSET Pending
      BY <1>7, <2>3 DEF Line
    <3>2. Typed'
      BY <1>0, <2>1, <2>2, <3>1, SettlesPending DEF Typed
    <3>3. Head(output) \notin input
      BY <1>0, <2>2 DEF Sent
    <3> QED
      BY <2>1, <2>2, <3>1, <3>2, <3>3, SettleOne
  <2>4. CASE ~(Head(output) # Event /\ Head(output) \in Pending)
    <3>1. UNCHANGED <<call, queue, timer>> /\ state' \in {"up", state}
      BY <1>7, <2>4 DEF Line
    <3>2. QueueOK' /\ Pending' = Pending
      BY <1>0, <3>1, QueueKept
    <3>3. Typed'
      BY <1>0, <2>1, <2>2, <3>1 DEF Typed
    <3>4. Sent'
      BY <1>0, <2>1, <2>2, <3>1, <3>2 DEF Sent
    <3>5. OneAtATime'
      BY <1>0, <2>1 DEF OneAtATime
    <3> QED
      BY <1>0, <3>1, <3>2, <3>3, <3>4, <3>5, OneParts
  <2> QED
    BY <2>3, <2>4
<1>8. CASE Close
  <2>1. /\ Settle(Pending, "error") /\ timer' = timer \ Pending /\ stdin' = FALSE
        /\ proc' = "closed" /\ UNCHANGED <<input, output, stopping>>
        /\ state' \in {"stopped", "crashed"}
    BY <1>8 DEF Close, RejectPending
  <2>2. Typed'
    BY <1>0, <2>1, SettlesPending DEF Typed
  <2> QED
    BY <2>1, <2>2, SettleOne
<1>9. ASSUME Stop \/ StopWaited \/ AgentEvent \/ Exit \/ UNCHANGED vars PROVE OneInv'
  <2>1. UNCHANGED <<call, queue, timer>> /\ input' \subseteq input
        /\ (stdin' => stdin) /\ (proc' = "live" => proc = "live")
    BY <1>9 DEF Stop, StopWaited, AgentEvent, Exit, vars
  <2>2. /\ output' \in Seq(Call \cup {Event})
        /\ Range(output') \in {Range(output), Range(output) \cup {Event}}
    <3>1. CASE output' = output
      BY <1>0, <3>1 DEF Typed
    <3>2. CASE output' = Append(output, Event)
      BY <1>0, <3>2, OutputGrows DEF Typed
    <3> QED
      BY <1>9, <3>1, <3>2 DEF Stop, StopWaited, AgentEvent, Exit, vars
  <2>3. QueueOK' /\ Pending' = Pending
    BY <1>0, <2>1, QueueKept
  <2>4. Typed'
    BY <1>0, <1>9, <2>1, <2>2 DEF Typed, Stop, StopWaited, AgentEvent, Exit, vars
  <2>5. Sent'
    BY <1>0, <2>1, <2>2, <2>3, RpcWorkerAssumption DEF Sent, Typed, RpcWorkerAssumption
  <2>6. OneAtATime'
    BY <1>0, <2>1 DEF OneAtATime
  <2> QED
    BY <1>0, <2>1, <2>3, <2>4, <2>5, <2>6, OneParts
<1> QED
  BY <1>1, <1>2, <1>3, <1>4, <1>5, <1>6, <1>7, <1>8, <1>9 DEF Next

(* A worker that has just started has been sent nothing.                   *)
LEMMA InitOne == Init => OneInv
BY DEF Init, OneInv, TypeOK, Sent, OneAtATime, Pending, Unsettled, IsInjective, Range

(* What a PiRpcWorker keeps of its commands has its type; the queue is     *)
(* exactly the ordinary commands that are not settled, of which only the   *)
(* first has been written.                                                 *)
THEOREM TypeCorrect == Spec => []TypeOK
<1>1. OneInv /\ [Next]_vars => OneInv'
  BY StepOne, RpcWorkerAssumption
<1>2. OneInv => TypeOK
  BY DEF OneInv
<1> QED
  BY InitOne, <1>1, <1>2, PTL DEF Spec

(* enqueueCommand serializes the ordinary commands of a live Pi, though a  *)
(* command may have been settled without an answer.                        *)
THEOREM Serialized == Spec => []OneAtATime
<1>1. OneInv /\ [Next]_vars => OneInv'
  BY StepOne, RpcWorkerAssumption
<1>2. OneInv => OneAtATime
  BY DEF OneInv
<1> QED
  BY InitOne, <1>1, <1>2, PTL DEF Spec
=============================================================================
