----------------------------- MODULE RpcWorker -----------------------------
(***************************************************************************)
(* A Pi process and the commands sent to it                                *)
(* (src/src/worker/pi-rpc-worker.ts), from the moment it has started:      *)
(* ordinary commands wait for one another in a queue, abort does not, each *)
(* that was written has a timer, and the process may answer, hang, close   *)
(* its input, die or be told to stop in between.                           *)
(*                                                                         *)
(* A line that is not a response is an event of Pi's agent; the pool,      *)
(* which listens, takes the worker for running or assigned then            *)
(* (mapWorkerEvent), whatever it was before.                               *)
(***************************************************************************)
EXTENDS Naturals, Sequences, SequencesExt

CONSTANTS
  Call,    \* calls of command
  Bypass,  \* those of them that abort
  Event    \* the line of an agent event; other lines are calls, answered

ASSUME RpcWorkerAssumption == Bypass \subseteq Call /\ Event \notin Call

VARIABLES
  state,    \* worker.state; "up" stands for idle, assigned and running
  proc,     \* the process: "live", sent SIGTERM ("term") or SIGKILL
            \* ("killed"), "exited" with its output not yet read, "closed"
  stdin,    \* Pi's input can be written to
  call,     \* per call: "written" is in the pending Map, "ok" and "error"
            \* are settled
  queue,    \* unsettled ordinary calls in order; the first may be written
  timer,    \* calls whose timer is armed
  input,    \* commands that Pi has not answered yet
  output,   \* lines of Pi that the daemon has not read yet
  stopping  \* the call of stop: "no", "term" and "kill" while it waits for
            \* the process after the signal, "over"

vars == <<state, proc, stdin, call, queue, timer, input, output, stopping>>

Pending == {c \in Call : call[c] = "written"}
Unsettled == {c \in Call : call[c] \in {"queued", "written"}}
Runs == proc \in {"live", "term"}

-----------------------------------------------------------------------------

(* The queue goes on when the call at its head is settled; nobody settles  *)
(* one behind it.                                                          *)
Settle(calls, how) ==
  /\ call' = [c \in Call |-> IF c \in calls THEN how ELSE call[c]]
  /\ queue' = IF queue # <<>> /\ Head(queue) \in calls THEN Tail(queue) ELSE queue

(* Variant: the timers stay armed.                                         *)
RejectPendingOnly == Settle(Pending, "error") /\ UNCHANGED timer

RejectPending == Settle(Pending, "error") /\ timer' = timer \ Pending

(* Variant: no timer is set.                                               *)
ExecuteUntimed(c) ==
  \/ /\ state = "up"
     /\ call' = [call EXCEPT ![c] = "written"]
     /\ input' = IF stdin /\ Runs THEN input \cup {c} ELSE input
     /\ UNCHANGED <<queue, timer>>
  \/ /\ state # "up"
     /\ Settle({c}, "error")
     /\ UNCHANGED <<timer, input>>

(* executeCommand                                                          *)
Execute(c) ==
  \/ /\ state = "up"
     /\ call' = [call EXCEPT ![c] = "written"]
     /\ timer' = timer \cup {c}
     /\ input' = IF stdin /\ Runs THEN input \cup {c} ELSE input
     /\ UNCHANGED queue
  \/ /\ state # "up"
     /\ Settle({c}, "error")
     /\ UNCHANGED <<timer, input>>

(* command                                                                 *)
Command(c) ==
  /\ call[c] = "new"
  /\ \/ c \in Bypass /\ Execute(c)
     \/ /\ c \notin Bypass
        /\ call' = [call EXCEPT ![c] = "queued"]
        /\ queue' = Append(queue, c)
        /\ UNCHANGED <<timer, input>>
  /\ UNCHANGED <<state, proc, stdin, output, stopping>>

(* Variant: a command does not wait for the one before.                    *)
NextTaskAtOnce(c) == call[c] = "queued"

(* enqueueCommand: the task whose turn it is                               *)
NextTask(c) == call[c] = "queued" /\ c = Head(queue)

RunTask(c) ==
  /\ NextTask(c)
  /\ Execute(c)
  /\ UNCHANGED <<state, proc, stdin, output, stopping>>

(* Tasks start in the microtasks of what let them: before the next timer   *)
(* or I/O event, though not before the next line of the same chunk.        *)
TasksStarted == \A c \in Call : ~NextTask(c)

(* A command's timer fires: everything pending is rejected, the process    *)
(* killed.                                                                 *)
TimesOut(c) ==
  /\ c \in timer /\ TasksStarted
  /\ Settle(Pending, "error")
  /\ timer' = timer \ (Pending \cup {c})
  /\ state' = "crashed"
  /\ proc' = IF Runs THEN "killed" ELSE proc
  /\ UNCHANGED <<stdin, input, output, stopping>>

(* The callback of a write that failed                                     *)
WriteFails(c) ==
  /\ c \in Pending /\ c \notin input /\ TasksStarted
  /\ ~stdin \/ ~Runs
  /\ Settle({c}, "error")
  /\ timer' = timer \ {c}
  /\ UNCHANGED <<state, proc, stdin, input, output, stopping>>

(* Pi's input reports an error.                                            *)
StdinError ==
  /\ TasksStarted
  /\ stdin \/ Pending # {}
  /\ stdin' = FALSE
  /\ RejectPending
  /\ UNCHANGED <<state, proc, input, output, stopping>>

-----------------------------------------------------------------------------
(* handleStdout: the next line                                             *)

Line ==
  /\ output # <<>>
  /\ output' = Tail(output)
  /\ LET line == Head(output)
     IN IF line = Event
        THEN state' = "up" /\ UNCHANGED <<call, queue, timer>>
        ELSE IF line \in Pending
        THEN Settle({line}, "ok") /\ timer' = timer \ {line} /\ UNCHANGED state
        ELSE UNCHANGED <<state, call, queue, timer>>
  /\ UNCHANGED <<proc, stdin, input, stopping>>

(* Variant: the state stays as it was.                                     *)
CloseStateless ==
  /\ proc = "exited" /\ output = <<>> /\ TasksStarted
  /\ proc' = "closed"
  /\ stdin' = FALSE
  /\ RejectPending
  /\ UNCHANGED <<state, input, output, stopping>>

(* The process has closed.                                                 *)
Close ==
  /\ proc = "exited" /\ output = <<>> /\ TasksStarted
  /\ proc' = "closed"
  /\ stdin' = FALSE
  /\ state' = IF state = "stopped" THEN "stopped" ELSE "crashed"
  /\ RejectPending
  /\ UNCHANGED <<input, output, stopping>>

-----------------------------------------------------------------------------
(* stop                                                                    *)

Stop ==
  /\ stopping = "no"
  /\ IF state = "stopped"
     THEN stopping' = "over" /\ UNCHANGED <<state, stdin, proc>>
     ELSE /\ state' = "stopped"
          /\ stdin' = FALSE
          /\ proc' = IF proc = "live" THEN "term" ELSE proc
          /\ stopping' = IF proc \in {"exited", "closed"} THEN "over" ELSE "term"
  /\ UNCHANGED <<call, queue, timer, input, output>>

(* waitForExit: the process has closed, or the time is over.               *)
StopWaited ==
  /\ stopping \in {"term", "kill"} /\ TasksStarted
  /\ IF proc = "closed" \/ stopping = "kill"
     THEN stopping' = "over" /\ UNCHANGED proc
     ELSE /\ stopping' = IF proc = "exited" THEN "over" ELSE "kill"
          /\ proc' = IF Runs THEN "killed" ELSE proc
  /\ UNCHANGED <<state, stdin, call, queue, timer, input, output>>

-----------------------------------------------------------------------------
(* The process.                                                            *)

(* Pi answers what it has received, an abort before or after the others.   *)
Answer(c) ==
  /\ Runs /\ c \in input
  /\ input' = input \ {c}
  /\ output' = Append(output, c)
  /\ UNCHANGED <<state, proc, stdin, call, queue, timer, stopping>>

(* Bound: one agent event at a time.                                       *)
AgentEvent ==
  /\ Runs /\ Event \notin Range(output)
  /\ output' = Append(output, Event)
  /\ UNCHANGED <<state, proc, stdin, call, queue, timer, input, stopping>>

Exit ==
  /\ proc \in {"live", "term", "killed"}
  /\ proc' = "exited"
  /\ input' = {}
  /\ UNCHANGED <<state, stdin, call, queue, timer, output, stopping>>

-----------------------------------------------------------------------------

(* start() has resolved.                                                   *)
Init ==
  /\ state = "up"
  /\ proc = "live"
  /\ stdin = TRUE
  /\ call = [c \in Call |-> "new"]
  /\ queue = <<>>
  /\ timer = {}
  /\ input = {}
  /\ output = <<>>
  /\ stopping = "no"

Next ==
  \/ \E c \in Call : Command(c) \/ RunTask(c) \/ TimesOut(c) \/ WriteFails(c) \/ Answer(c)
  \/ StdinError \/ Line \/ Close \/ Stop \/ StopWaited \/ AgentEvent \/ Exit

Spec == Init /\ [][Next]_vars

(* Tasks start, timers fire, output is read, a process that was sent       *)
(* SIGKILL exits and one that has exited closes.  Pi itself may do nothing.*)
Fairness ==
  /\ \A c \in Call : WF_vars(RunTask(c)) /\ WF_vars(TimesOut(c))
  /\ WF_vars(Line)
  /\ WF_vars(Close)
  /\ WF_vars(StopWaited)
  /\ WF_vars(proc = "killed" /\ Exit)

FairSpec == Spec /\ Fairness

-----------------------------------------------------------------------------
(* Every field holds what its declaration says; the queue has the ordinary *)
(* calls that wait and at most one that is written, at its head.           *)
TypeOK ==
  /\ state \in {"up", "crashed", "stopped"}
  /\ proc \in {"live", "term", "killed", "exited", "closed"}
  /\ stdin \in BOOLEAN
  /\ call \in [Call -> {"new", "queued", "written", "ok", "error"}]
  /\ queue \in Seq(Call) /\ IsInjective(queue)
  /\ Range(queue) = Unsettled \ Bypass
  /\ \A i \in DOMAIN queue : call[queue[i]] = "written" => i = 1
  /\ timer \subseteq Call
  /\ input \subseteq Call
  /\ output \in Seq(Call \cup {Event})
  /\ stopping \in {"no", "term", "kill", "over"}

(* A live Pi works on one ordinary command at a time: the next is written  *)
(* only when the one before is answered, however it was settled, so that   *)
(* no session is read while a command before it changes it.                *)
OneAtATime ==
  proc = "live" => \A c, d \in input \ Bypass : c = d

(* A process is killed by a timer only while the command whose timer it is *)
(* has no answer: no settled command kills the worker of a later turn.     *)
TimersArePending == timer = Pending

(* Once the process has closed nothing is pending, no timer is left to     *)
(* kill or to reject, and the worker is not taken for usable.              *)
ClosedIsQuiet ==
  proc = "closed" => Pending = {} /\ timer = {} /\ state # "up"

(* Every command settles, whatever the process does.                       *)
CommandsSettle == \A c \in Call : c \in Unsettled ~> c \notin Unsettled

=============================================================================
