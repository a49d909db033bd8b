--------------------------- MODULE TurnLifecycle ---------------------------
(***************************************************************************)
(* The turns of one thread (src/src/service/pi-threads-service.ts), on the *)
(* workers that serve it one after the other: how a turn is admitted, how  *)
(* it ends, and how the session baseline is brought up to date before the  *)
(* next one.                                                               *)
(*                                                                         *)
(* Code between two awaits is one step: emitting an event runs the         *)
(* service's handler at once.  A worker executes its commands one after    *)
(* the other; abort bypasses the queue (PiRpcWorker.command).  The pool is *)
(* reduced to handing out the thread's worker or a fresh one, and Pi to    *)
(* what the daemon can see of it: a process that was told to die reports   *)
(* nothing more.                                                           *)
(***************************************************************************)
EXTENDS Naturals, Sequences

CONSTANTS
  Turn,         \* turn ids
  Worker,       \* identities of worker objects, reused after their process
  None,
  QueuedReads,  \* other commands (reads, steering) go through the queue
  Timeouts,     \* Pi may leave a command unanswered
  MaxFaults     \* bound: spontaneous exits and timeouts

ASSUME TurnLifecycleAssumption ==
  /\ None \notin Turn \cup Worker
  /\ QueuedReads \in BOOLEAN
  /\ Timeouts \in BOOLEAN
  /\ MaxFaults \in Nat

VARIABLES
  active,    \* the thread's entry in activeTurns, NoTurn when there is none
  cleanup,   \* its entry in turnCleanups
  mutation,  \* the session mutation in progress
  turn,      \* per turn: its worker, what Pi does with its prompt, and the
             \* number of terminal events emitted for it
  worker,    \* the worker objects: process, activeTurnId, abortingTurnId and
             \* the commands in the queue, the first of them written to Pi
  abort,     \* per turn: the thread/abort request
  baseline,  \* a baseline of the session file is recorded
  dirty,     \* Pi has written to the file since
  faults     \* faults so far, for MaxFaults

vars == <<active, cleanup, mutation, turn, worker, abort, baseline, dirty, faults>>

NoTurn == [turn |-> None, worker |-> None, ran |-> FALSE]
NoRefresh == [pc |-> "none", worker |-> None, turn |-> None]
NoAbort == [pc |-> "none", awaits |-> None]
NoWorker == [proc |-> "none", turn |-> None, aborting |-> None, queue |-> <<>>]

Command(kind, t) == [kind |-> kind, turn |-> t]

-----------------------------------------------------------------------------

(* findByThread: the thread's worker, unless it crashed                    *)
Owner == {w \in Worker : worker[w].proc = "live"}

Enqueue(obj, kind, t) == [obj EXCEPT !.queue = Append(obj.queue, Command(kind, t))]

Heads(w, kind) == worker[w].queue # <<>> /\ Head(worker[w].queue).kind = kind

Answered(w) == [worker EXCEPT ![w].queue = Tail(worker[w].queue)]

(* The turns of w that Pi works on, or will without being told again.      *)
InPi(w) ==
  {t \in Turn : /\ turn[t].worker = w
                /\ \/ turn[t].prompt \in {"due", "running"}
                   \/ Heads(w, "prompt") /\ Head(worker[w].queue).turn = t}

(* Variant: does not wait for cleanups.                                    *)
AdmitsAtOnce == active = NoTurn /\ mutation = NoRefresh

(* What send and mutations wait for and test before they reserve the       *)
(* thread: turnCleanups, activeTurns, sessionMutations and the baseline.   *)
Admits ==
  /\ cleanup = NoRefresh
  /\ active = NoTurn
  /\ mutation = NoRefresh
  /\ baseline => ~dirty

(* Variant: the turn may have ended meanwhile.                             *)
StillActiveUnchecked(t) == TRUE

StillActive(t) == active.turn = t

(* A terminal event of t is emitted; tn, wk and cl are turn, worker and    *)
(* cleanup at that point.  handleDaemonEvent frees the thread's worker and *)
(* starts the refresh that the next turn waits for.                        *)
Terminal(t, tn, wk, cl) ==
  LET w == active.worker
      mine == active.turn = t /\ w # None
      found == mine /\ wk[w].proc = "live"
  IN /\ turn' = [tn EXCEPT ![t].ended = @ + 1]
     /\ active' = IF mine THEN NoTurn ELSE active
     /\ worker' = IF found
                  THEN [wk EXCEPT ![w] = Enqueue([wk[w] EXCEPT !.turn = None], "state", None)]
                  ELSE wk
     /\ cleanup' = IF ~mine THEN cl
                   ELSE [pc |-> IF found THEN "refresh" ELSE "owned",
                         worker |-> IF found THEN w ELSE None, turn |-> t]

(* No terminal event.                                                      *)
Quiet(tn, wk, cl) ==
  turn' = tn /\ worker' = wk /\ cleanup' = cl /\ UNCHANGED active

-----------------------------------------------------------------------------
(* Admission.                                                              *)

Send(t) ==
  /\ turn[t].worker = None
  /\ Admits
  /\ active' = [turn |-> t, worker |-> None, ran |-> FALSE]
  /\ UNCHANGED <<cleanup, mutation, turn, worker, abort, baseline, dirty, faults>>

(* The worker the pool hands out: the thread's own or a fresh one.         *)
Acquires(w) == IF Owner = {} THEN worker[w].proc = "none" ELSE w \in Owner

Accept(t) ==
  /\ active.turn = t /\ active.worker = None
  /\ \E w \in Worker :
       /\ Acquires(w)
       /\ worker[w].turn = None
       /\ worker' = [worker EXCEPT ![w] =
                       Enqueue([worker[w] EXCEPT !.proc = "live", !.turn = t], "prompt", t)]
       /\ turn' = [turn EXCEPT ![t].worker = w, ![t].prompt = "queued"]
       /\ active' = [active EXCEPT !.worker = w]
  /\ UNCHANGED <<cleanup, mutation, abort, baseline, dirty, faults>>

(* No worker, or it refused the settings.                                  *)
SendFails(t) ==
  /\ active.turn = t /\ active.worker = None
  /\ active' = NoTurn
  /\ UNCHANGED <<cleanup, mutation, turn, worker, abort, baseline, dirty, faults>>

(* withSessionMutation as far as the mutation's command                    *)
Mutate ==
  /\ Admits
  /\ \E w \in Worker :
       /\ Acquires(w)
       /\ worker[w].turn = None
       /\ worker' = [worker EXCEPT ![w] =
                       Enqueue([worker[w] EXCEPT !.proc = "live"], "mutate", None)]
       /\ mutation' = [NoRefresh EXCEPT !.pc = "mutating", !.worker = w]
  /\ UNCHANGED <<active, cleanup, turn, abort, baseline, dirty, faults>>

(* Bound: one other command at a time.                                     *)
QueueRead(w) ==
  /\ QueuedReads
  /\ worker[w].proc = "live"
  /\ \A i \in DOMAIN worker[w].queue : worker[w].queue[i].kind # "read"
  /\ worker' = [worker EXCEPT ![w] = Enqueue(worker[w], "read", None)]
  /\ UNCHANGED <<active, cleanup, mutation, turn, abort, baseline, dirty, faults>>

(* The pool takes an idle worker away for another thread.                  *)
Reassign(w) ==
  /\ worker[w] = [NoWorker EXCEPT !.proc = "live"]
  /\ active.turn = None
  /\ InPi(w) = {}
  /\ \A t \in Turn : turn[t].worker = w => abort[t].pc # "sent"
  /\ worker' = [worker EXCEPT ![w] = NoWorker]
  /\ UNCHANGED <<active, cleanup, mutation, turn, abort, baseline, dirty, faults>>

-----------------------------------------------------------------------------
(* Pi answers the command at the head of the queue.                        *)

(* Variants: any answer completes the turn; a run that the prompt has      *)
(* started is not waited for.                                              *)
CompletesAnyhow(t, disposition) == StillActive(t) /\ ~active.ran
CompletesOverRun(t, disposition) == StillActive(t) /\ disposition = "handled"

Completes(t, disposition) ==
  StillActive(t) /\ disposition = "handled" /\ ~active.ran

(* submitPrompt.  A prompt that started a run may still be reported as     *)
(* handled; one that is "handled" and has started none starts none later.  *)
PromptAnswered(w) ==
  LET t == Head(worker[w].queue).turn
  IN /\ Heads(w, "prompt")
     /\ \E disposition \in {"started", "handled"} :
          LET tn == IF turn[t].prompt # "queued" THEN turn
                    ELSE [turn EXCEPT ![t].prompt = IF disposition = "started" THEN "due" ELSE "over"]
          IN IF Completes(t, disposition)
             THEN Terminal(t, tn, Answered(w), cleanup)
             ELSE Quiet(tn, Answered(w), cleanup)
     /\ UNCHANGED <<mutation, abort, baseline, dirty, faults>>

(* Pi refuses the prompt: failTurn.                                        *)
PromptFails(w) ==
  LET t == Head(worker[w].queue).turn
      tn == [turn EXCEPT ![t].prompt = "over"]
  IN /\ Heads(w, "prompt")
     /\ turn[t].prompt = "queued"
     /\ IF StillActive(t) THEN Terminal(t, tn, Answered(w), cleanup)
        ELSE Quiet(tn, Answered(w), cleanup)
     /\ UNCHANGED <<mutation, abort, baseline, dirty, faults>>

ReadAnswered(w) ==
  /\ Heads(w, "read")
  /\ worker' = Answered(w)
  /\ UNCHANGED <<active, cleanup, mutation, turn, abort, baseline, dirty, faults>>

(* The mutation is done or refused; its refresh follows at once.           *)
MutateAnswered(w) ==
  /\ Heads(w, "mutate")
  /\ mutation' = [mutation EXCEPT !.pc = "refresh"]
  /\ worker' = [Answered(w) EXCEPT ![w] = Enqueue(Answered(w)[w], "state", None)]
  /\ UNCHANGED <<active, cleanup, turn, abort, baseline, dirty, faults>>

(* get_state answered: the file as it is now is the baseline.              *)
StateAnswered(w) ==
  /\ Heads(w, "state")
  /\ worker' = Answered(w)
  /\ IF cleanup.worker = w
     THEN cleanup' = NoRefresh /\ UNCHANGED mutation
     ELSE mutation' = NoRefresh /\ UNCHANGED cleanup
  /\ IF worker[w].turn = None THEN baseline' = TRUE /\ dirty' = FALSE
     ELSE UNCHANGED <<baseline, dirty>>
  /\ UNCHANGED <<active, turn, abort, faults>>

(* refreshOwnedSession, for a turn or a mutation that lost its worker      *)
OwnedRefreshed ==
  /\ \/ cleanup.pc = "owned" /\ cleanup' = NoRefresh /\ UNCHANGED mutation
     \/ mutation.pc = "owned" /\ mutation' = NoRefresh /\ UNCHANGED cleanup
  /\ baseline' = TRUE
  /\ dirty' = FALSE
  /\ UNCHANGED <<active, turn, worker, abort, faults>>

-----------------------------------------------------------------------------
(* Pi's runs.                                                              *)

(* agent_start                                                             *)
RunStarts(w, t) ==
  /\ t \in InPi(w) /\ turn[t].prompt \in {"queued", "due"}
  /\ worker[w].proc = "live"
  /\ \A u \in Turn : turn[u].worker = w => turn[u].prompt # "running"
  /\ turn' = [turn EXCEPT ![t].prompt = "running"]
  /\ active' = [active EXCEPT !.ran = @ \/ (active.worker # None /\ active.turn = worker[w].turn)]
  /\ UNCHANGED <<cleanup, mutation, worker, abort, baseline, dirty, faults>>

(* agent_settled                                                           *)
RunSettles(w, t) ==
  LET reported == worker[w].turn
      tn == [turn EXCEPT ![t].prompt = "over"]
      wk == [worker EXCEPT ![w].aborting = IF @ = reported THEN None ELSE @]
  IN /\ turn[t].worker = w /\ turn[t].prompt = "running"
     /\ worker[w].proc = "live"
     /\ IF reported = None THEN Quiet(tn, worker, cleanup)
        ELSE Terminal(reported, tn, wk, cleanup)
     /\ UNCHANGED <<mutation, abort, baseline, dirty, faults>>

PiWrites(w) ==
  /\ worker[w].proc = "live"
  /\ InPi(w) # {} \/ Heads(w, "mutate")
  /\ dirty' = TRUE
  /\ UNCHANGED <<active, cleanup, mutation, turn, worker, abort, baseline, faults>>

-----------------------------------------------------------------------------
(* thread/abort                                                            *)

Abort(t) ==
  /\ abort[t] = NoAbort
  /\ active.turn = t /\ active.worker \in Owner
  /\ abort' = [abort EXCEPT ![t].pc = "sent"]
  /\ worker' = [worker EXCEPT ![active.worker].aborting = t]
  /\ UNCHANGED <<active, cleanup, mutation, turn, baseline, dirty, faults>>

(* Pi answers once it has no prompt left to work on.  The request goes on  *)
(* to wait for the cleanup there is then.                                  *)
AbortAnswered(t) ==
  /\ abort[t].pc = "sent"
  /\ worker[turn[t].worker].proc = "live"
  /\ InPi(turn[t].worker) = {}
  /\ IF StillActive(t) THEN Terminal(t, turn, worker, cleanup)
     ELSE Quiet(turn, worker, cleanup)
  /\ abort' = [abort EXCEPT ![t] = [pc |-> "settling", awaits |-> cleanup'.turn]]
  /\ UNCHANGED <<mutation, baseline, dirty, faults>>

CleanedUp(t) ==
  /\ abort[t].pc = "settling"
  /\ cleanup.turn = None \/ cleanup.turn # abort[t].awaits

(* Variant: leaves the mark on the worker.                                 *)
FinishAbortMarked(t) ==
  /\ CleanedUp(t)
  /\ abort' = [abort EXCEPT ![t].pc = "over"]
  /\ UNCHANGED <<active, cleanup, mutation, turn, worker, baseline, dirty, faults>>

FinishAbort(t) ==
  /\ CleanedUp(t)
  /\ abort' = [abort EXCEPT ![t].pc = "over"]
  /\ worker' = [worker EXCEPT ![turn[t].worker].aborting = IF @ = t THEN None ELSE @]
  /\ UNCHANGED <<active, cleanup, mutation, turn, baseline, dirty, faults>>

-----------------------------------------------------------------------------
(* A worker's commands are all rejected.                                   *)

TurnsLost(w) ==
  [t \in Turn |-> IF turn[t].worker = w THEN [turn[t] EXCEPT !.prompt = "over"] ELSE turn[t]]

(* Variant: the refresh never ends.                                        *)
CleanupStuck(w) == cleanup

CleanupLost(w) == IF cleanup.worker = w THEN NoRefresh ELSE cleanup

(* A mutation goes on to refreshOwnedSession; a refresh that fails is      *)
(* reported and given up.                                                  *)
MutationLost(w) ==
  IF mutation.worker # w THEN mutation
  ELSE IF mutation.pc = "mutating" THEN [NoRefresh EXCEPT !.pc = "owned"]
  ELSE NoRefresh

(* Variant: the request is never answered.                                 *)
AbortsForgotten(w) == abort

AbortsLost(w) ==
  [t \in Turn |-> IF turn[t].worker = w /\ abort[t].pc = "sent"
                  THEN [abort[t] EXCEPT !.pc = "over"] ELSE abort[t]]

(* The prompt of the active turn is rejected: failTurn.                    *)
Unanswered(w) ==
  \E i \in DOMAIN worker[w].queue : worker[w].queue[i] = Command("prompt", active.turn)

(* A command gets no answer in time: the process is killed, the worker     *)
(* unavailable from now on.  An unanswered prompt fails its turn, which    *)
(* finds no worker to free.                                                *)
TimesOut(w) ==
  LET tn == TurnsLost(w)
      killed == [worker[w] EXCEPT !.proc = "killed", !.queue = <<>>, !.aborting = None]
      wk == [worker EXCEPT ![w] = killed]
  IN /\ Timeouts /\ faults < MaxFaults
     /\ worker[w].proc = "live"
     /\ worker[w].queue # <<>> \/ \E t \in Turn : turn[t].worker = w /\ abort[t].pc = "sent"
     /\ IF Unanswered(w) THEN Terminal(active.turn, tn, wk, CleanupLost(w))
        ELSE Quiet(tn, wk, CleanupLost(w))
     /\ mutation' = MutationLost(w)
     /\ abort' = AbortsLost(w)
     /\ faults' = faults + 1
     /\ UNCHANGED <<baseline, dirty>>

(* Variant: the exit listener does not fail the worker's turn.             *)
CloseSilently(w) ==
  /\ worker[w].proc # "none"
  /\ worker[w].proc = "live" => faults < MaxFaults
  /\ faults' = IF worker[w].proc = "live" THEN faults + 1 ELSE faults
  /\ LET wk == [worker EXCEPT ![w] = NoWorker]
     IN IF Unanswered(w) THEN Terminal(active.turn, TurnsLost(w), wk, CleanupLost(w))
        ELSE Quiet(TurnsLost(w), wk, CleanupLost(w))
  /\ mutation' = MutationLost(w)
  /\ abort' = AbortsLost(w)
  /\ UNCHANGED <<baseline, dirty>>

(* The process closes: the pool's exit listener fails the worker's turn.   *)
Close(w) ==
  LET tn == TurnsLost(w)
      wk == [worker EXCEPT ![w] = NoWorker]
  IN /\ worker[w].proc # "none"
     /\ worker[w].proc = "live" => faults < MaxFaults
     /\ faults' = IF worker[w].proc = "live" THEN faults + 1 ELSE faults
     /\ IF worker[w].turn # None THEN Terminal(worker[w].turn, tn, wk, CleanupLost(w))
        ELSE Quiet(tn, wk, CleanupLost(w))
     /\ mutation' = MutationLost(w)
     /\ abort' = AbortsLost(w)
     /\ UNCHANGED <<baseline, dirty>>

-----------------------------------------------------------------------------

Init ==
  /\ active = NoTurn
  /\ cleanup = NoRefresh
  /\ mutation = NoRefresh
  /\ turn = [t \in Turn |-> [worker |-> None, prompt |-> "none", ended |-> 0]]
  /\ worker = [w \in Worker |-> NoWorker]
  /\ abort = [t \in Turn |-> NoAbort]
  /\ baseline = FALSE
  /\ dirty = FALSE
  /\ faults = 0

Answers(w) ==
  \/ PromptAnswered(w) \/ PromptFails(w)
  \/ ReadAnswered(w) \/ MutateAnswered(w) \/ StateAnswered(w)

Next ==
  \/ \E t \in Turn :
       \/ Send(t) \/ Accept(t) \/ SendFails(t)
       \/ Abort(t) \/ AbortAnswered(t) \/ FinishAbort(t)
  \/ \E w \in Worker :
       \/ Answers(w)
       \/ QueueRead(w) \/ Reassign(w) \/ PiWrites(w)
       \/ TimesOut(w) \/ Close(w)
       \/ \E t \in Turn : RunStarts(w, t) \/ RunSettles(w, t)
  \/ Mutate
  \/ OwnedRefreshed

Spec == Init /\ [][Next]_vars

(* Pi answers its commands, starts the runs it has announced, settles the  *)
(* runs it has started and answers an abort; a killed process closes; the  *)
(* daemon carries on what it has begun.                                    *)
Fairness ==
  /\ \A w \in Worker :
       /\ WF_vars(Answers(w))
       /\ WF_vars(worker[w].proc = "killed" /\ Close(w))
  /\ \A t \in Turn :
       /\ WF_vars(Accept(t) \/ SendFails(t))
       /\ WF_vars(AbortAnswered(t))
       /\ WF_vars(FinishAbort(t))
       /\ \A w \in Worker :
            /\ WF_vars(turn[t].prompt = "due" /\ RunStarts(w, t))
            /\ WF_vars(RunSettles(w, t))
  /\ WF_vars(OwnedRefreshed)

FairSpec == Spec /\ Fairness

-----------------------------------------------------------------------------
ActiveTurns ==
  {a \in [turn : Turn \cup {None}, worker : Worker \cup {None}, ran : BOOLEAN] :
     a.turn = None => a = NoTurn}

Cleanups ==
  {c \in [pc : {"none", "refresh", "owned"}, worker : Worker \cup {None}, turn : Turn \cup {None}] :
     /\ c.pc = "none" <=> c.turn = None
     /\ c.pc = "refresh" <=> c.worker # None}

Mutations ==
  {m \in [pc : {"none", "mutating", "refresh", "owned"}, worker : Worker \cup {None}, turn : {None}] :
     m.pc \in {"mutating", "refresh"} <=> m.worker # None}

TurnStates ==
  [worker : Worker \cup {None}, ended : Nat,
   prompt : {"none", "queued", "due", "running", "over"}]

WorkerObjects ==
  [proc : {"none", "live", "killed"}, turn : Turn \cup {None}, aborting : Turn \cup {None},
   queue : Seq([kind : {"prompt", "read", "mutate", "state"}, turn : Turn \cup {None}])]

(* Every field holds what its declaration says; a turn that waits for its  *)
(* worker has none, and a refresh or mutation names a worker exactly while *)
(* it needs one (activeTurns, turnCleanups, sessionMutations).             *)
TypeOK ==
  /\ active \in ActiveTurns
  /\ cleanup \in Cleanups
  /\ mutation \in Mutations
  /\ turn \in [Turn -> TurnStates]
  /\ worker \in [Worker -> WorkerObjects]
  /\ abort \in [Turn -> [pc : {"none", "sent", "settling", "over"}, awaits : Turn \cup {None}]]
  /\ baseline \in BOOLEAN /\ dirty \in BOOLEAN
  /\ faults \in 0..MaxFaults

(* A turn gets at most one terminal event, whichever of the prompt's       *)
(* answer, agent_settled, the abort, a rejected command and the exit of    *)
(* the worker come first (CHANGELOG.md:69-70).                             *)
TerminalOnce == \A t \in Turn : turn[t].ended <= 1

(* The run that a worker reports on belongs to the turn its events name:   *)
(* mapWorkerEvent labels a run with the worker's activeTurnId, which must  *)
(* not have moved on to a later turn.                                      *)
RunsEndTheirOwnTurn ==
  \A t \in Turn : turn[t].prompt = "running" =>
    worker[turn[t].worker].turn \in {None, t}

(* No run of a turn starts after the turn has been reported as ended:      *)
(* submitPrompt leaves a started prompt to agent_settled, and thread/abort *)
(* reports once Pi is done with the prompt.                                *)
EndedStaysEnded ==
  [][\A t \in Turn : turn[t].ended > 0 /\ turn'[t].prompt = "running"
       => turn[t].prompt = "running"]_vars

Idle == active = NoTurn /\ cleanup = NoRefresh /\ mutation = NoRefresh

(* As long as no worker fails, a thread with no work left is never refused *)
(* for changes that the daemon's own workers made: what handleDaemonEvent  *)
(* and withSessionMutation refresh is what assertUnchanged compares.       *)
BaselineCurrent == faults = 0 /\ Idle /\ baseline => ~dirty

(* When no turn is active and no abort is being answered, no worker that   *)
(* could be handed out keeps a turn or an abort mark of an earlier turn:   *)
(* activeTurnId would block the thread, abortingTurnId mislabel its runs.  *)
AtRest ==
  active = NoTurn /\ (\A t \in Turn : abort[t].pc \notin {"sent", "settling"}) =>
    \A w \in Worker : worker[w].proc = "live" =>
      worker[w].turn = None /\ worker[w].aborting = None

(* A command of that kind waits in the queue of w, or with Pi.             *)
Asked(w, kind) == \E i \in DOMAIN worker[w].queue : worker[w].queue[i].kind = kind

(* Nobody waits for what will not come: an accepted turn has a worker that *)
(* was killed and will name it when it closes, or one that has its prompt, *)
(* or a run, still to answer; whatever else holds the thread has its       *)
(* command with a worker, and an abort has one that can answer it.         *)
Attended ==
  /\ active.worker # None =>
       LET w == active.worker IN
       /\ worker[w].turn = active.turn /\ worker[w].proc # "none"
       /\ worker[w].proc = "live" =>
            \/ Unanswered(w)
            \/ \E t \in Turn : turn[t].worker = w /\ turn[t].prompt \in {"due", "running"}
  /\ cleanup.pc = "refresh" => Asked(cleanup.worker, "state")
  /\ mutation.pc = "mutating" => Asked(mutation.worker, "mutate")
  /\ mutation.pc = "refresh" => Asked(mutation.worker, "state")
  /\ \A t \in Turn : abort[t].pc = "sent" => worker[turn[t].worker].proc = "live"
  /\ \A w \in Worker : worker[w].queue # <<>> => worker[w].proc = "live"

(* Nothing is forgotten: neither a mark on a worker nor whoever waits.     *)
NothingForgotten == AtRest /\ Attended

(* A turn, the refresh after a turn and a mutation exclude one another, so *)
(* that a baseline is never sampled while something else writes the file.  *)
WritersExclusive ==
  /\ active = NoTurn \/ cleanup = NoRefresh
  /\ active = NoTurn \/ mutation = NoRefresh
  /\ cleanup = NoRefresh \/ mutation = NoRefresh

(* An accepted turn ends in a terminal event, even when its worker hangs   *)
(* or dies.                                                                *)
TurnEnds == \A t \in Turn : turn[t].worker # None ~> turn[t].ended > 0

(* The thread becomes free again after whatever reserved it, so that a     *)
(* waiting thread/send is not held up for ever by a refresh.               *)
ThreadFreed == ~Idle ~> Idle

(* Every thread/abort is answered.                                         *)
AbortEnds == \A t \in Turn : abort[t].pc = "sent" ~> abort[t].pc = "over"

=============================================================================
