----------------------------- MODULE WorkerPool -----------------------------
(***************************************************************************)
(* The pool of Pi worker processes (src/src/worker/worker-pool.ts), with   *)
(* as much of a PiRpcWorker as the pool can observe, and the requests of   *)
(* the service that acquire, use and release workers.                      *)
(*                                                                         *)
(* The program is single threaded: code between two awaits is one step.    *)
(* What runs under withLifecycle is a queue of jobs of which one runs at a *)
(* time; a job gives way to everything else at each of its awaits, and     *)
(* run.pc names the await it is at.                                        *)
(*                                                                         *)
(* Time is abstracted: the least recently used victim, the workers idle    *)
(* past idleTtlMs and the moments timers fire are chosen arbitrarily.  So  *)
(* is the insertion order of the workers Map.                              *)
(***************************************************************************)
EXTENDS Integers, FiniteSets, Sequences

CONSTANTS
  Worker,             \* identities of worker objects, reused once forgotten
  Client,             \* concurrent requests of the service
  Thread,             \* Pi session ids
  Cwd,                \* working directories
  PrewarmCwd,         \* directory of workers spawned to keep the minimum
  None,
  Kinds,              \* the kinds of request the clients make
  MinWorkers,
  MaxWorkers,
  ReuseAcrossThreads, \* daemon.worker.reuseAcrossThreads
  IdleReaping,        \* idleTtlMs > 0
  StrayEvents,        \* Pi reports agent runs outside daemon turns, or after
                      \* its process was told to die
  MaxFaults           \* bound: spontaneous exits, timeouts, failed spawns
                      \* and switches

AllKinds == {"new", "read", "turn", "mutate", "steer", "abort"}

ASSUME WorkerPoolAssumption ==
  /\ IsFiniteSet(Worker)
  /\ None \notin Worker \cup Client \cup Thread
  /\ PrewarmCwd \in Cwd
  /\ Kinds \subseteq AllKinds
  /\ MinWorkers \in Nat
  /\ MaxWorkers \in Nat \ {0}
  /\ ReuseAcrossThreads \in BOOLEAN
  /\ IdleReaping \in BOOLEAN
  /\ StrayEvents \in BOOLEAN
  /\ MaxFaults \in Nat

VARIABLES
  workers,        \* the workers Map: the objects the pool lists
  worker,         \* the PooledWorker objects, with the pool's WeakMap entries
  lifecycle,      \* the jobs chained on the lifecycle promise, not yet started
  run,            \* the job that is running, NoJob when there is none
  recoveryTimer,  \* a recovery timer is armed
  stopped,        \* stopAll was called
  started,        \* start() has resolved
  client,         \* the service's requests
  persisted,      \* threads whose session file exists
  faults          \* faults so far, for MaxFaults

vars == <<workers, worker, lifecycle, run, recoveryTimer, stopped, started,
          client, persisted, faults>>

Target == IF MinWorkers <= MaxWorkers THEN MinWorkers ELSE MaxWorkers

NoJob == [op |-> "none", pc |-> "free", client |-> None, worker |-> None, todo |-> {}]

IdleClient == [pc |-> "idle", kind |-> "none", thread |-> None,
               cwd |-> PrewarmCwd, worker |-> None]

(* An object as the worker factory returns it; res, claimed and retiring   *)
(* are its entries in the pool's reservations, claimed and retiring.       *)
FreshWorker(dir, reserve) ==
  [state |-> "starting", proc |-> "none", cwd |-> dir, thread |-> None,
   turn |-> FALSE, aborting |-> FALSE, pending |-> 0,
   res |-> IF reserve THEN 1 ELSE 0, claimed |-> reserve, retiring |-> FALSE]

-----------------------------------------------------------------------------
(* Predicates of the pool.                                                 *)

Unavailable(w) == worker[w].state \in {"crashed", "stopped"}

(* The process can still produce output: "term" was sent SIGTERM, "killed" *)
(* SIGKILL.                                                                *)
Alive(w) == worker[w].proc \in {"live", "term", "killed"}

(* Variant: stop resolves once it has sent SIGTERM.                        *)
StopReturnedEarly(w) == worker[w].proc # "live"

(* worker.stop() has resolved: the process closed, or outlived SIGKILL's   *)
(* grace period, or there never was one.                                   *)
StopReturned(w) == worker[w].proc \in {"none", "killed", "dead"}

(* Variant: looks for a worker it could use at once.                       *)
FindQuiescentByThread(t) ==
  {w \in workers : /\ worker[w].thread = t
                   /\ worker[w].state \in {"idle", "assigned"} /\ worker[w].res = 0}

FindByThread(t) ==
  {w \in workers : worker[w].thread = t /\ ~worker[w].retiring /\ ~Unavailable(w)}

(* Variant: takes no notice of commands sent without a reservation.        *)
IsQuiescentButCommanded(w) ==
  /\ worker[w].state \in {"idle", "assigned"}
  /\ ~worker[w].turn /\ ~worker[w].aborting /\ ~worker[w].retiring
  /\ worker[w].res = 0

IsQuiescent(w) ==
  /\ worker[w].state \in {"idle", "assigned"}
  /\ ~worker[w].turn
  /\ ~worker[w].aborting
  /\ ~worker[w].retiring
  /\ worker[w].res = 0
  /\ worker[w].pending = 0

(* Variant: canReclaim is not asked.                                       *)
IsReclaimableUnsaved(w) == IsQuiescent(w)

IsReclaimable(w) ==
  IsQuiescent(w) /\ (worker[w].thread = None \/ worker[w].thread \in persisted)

Retainable(w) ==
  ~stopped /\ w \in workers /\ ~worker[w].retiring /\ ~Unavailable(w)

(* scheduleMinimumRecovery, with the Map and the timer as they are then    *)
Scheduled(ws, timer) == timer \/ (~stopped /\ Cardinality(ws) < Target)

(* Objects no one refers to any more, free to stand for the next spawn     *)
Forgotten ==
  {w \in Worker : /\ w \notin workers
                  /\ worker[w].proc \in {"none", "dead"}
                  /\ run.worker # w
                  /\ \A c \in Client : client[c].worker # w}

(* Variant: marks the worker stopped but does not signal its process.      *)
StopUnsignalled(obj) == [obj EXCEPT !.state = "stopped"]

(* PiRpcWorker.stop as far as its first await                              *)
Stop(obj) ==
  IF obj.proc = "none" \/ obj.state = "stopped" THEN obj
  ELSE [obj EXCEPT !.state = "stopped",
                   !.proc = IF @ = "live" THEN "term" ELSE @]

Retire(obj) == Stop([obj EXCEPT !.retiring = TRUE])

(* Variants: the new count is not stored; the state is left as it was.     *)
ReleaseUncounted(w) == worker[w]
ReleaseStateless(w) ==
  [worker[w] EXCEPT !.res = IF @ = 0 THEN 0 ELSE @ - 1]

(* release: what becomes of the worker object                              *)
Release(w) ==
  LET remaining == IF worker[w].res = 0 THEN 0 ELSE worker[w].res - 1
      kept == \/ Unavailable(w) \/ worker[w].retiring
              \/ remaining > 0  \/ worker[w].turn
  IN [worker[w] EXCEPT
        !.res = remaining,
        !.state = IF kept THEN @
                  ELSE IF worker[w].thread = None THEN "idle" ELSE "assigned"]

-----------------------------------------------------------------------------
(* Steps of the lifecycle jobs.  ws, wk and timer are the Map, the objects *)
(* and the timer at this point of the step.                                *)

Grant(c, w) ==
  /\ run' = NoJob
  /\ client' = [client EXCEPT ![c].pc = "holds", ![c].worker = w]

Reject(c) ==
  /\ run' = NoJob
  /\ client' = [client EXCEPT ![c] = IdleClient]

(* The selected worker is in hand: acquireForNew returns it,               *)
(* acquireForSession switches its session first.                           *)
Selected(op, c, w) ==
  \/ op = "new" /\ Grant(c, w)
  \/ /\ op = "session"
     /\ run' = [NoJob EXCEPT !.op = op, !.pc = "switch", !.client = c, !.worker = w]
     /\ UNCHANGED client

(* spawn as far as its await of worker.start()                             *)
BeginSpawn(op, c, dir, ws, wk) ==
  \E w \in Forgotten :
    /\ Cardinality(ws) < MaxWorkers
    /\ workers' = ws \cup {w}
    /\ worker' = [wk EXCEPT ![w] = FreshWorker(dir, op \in {"new", "session"})]
    /\ run' = [NoJob EXCEPT !.op = op, !.pc = "spawn", !.client = c, !.worker = w]

(* selectWorker's call of spawn: refused once the pool is stopped          *)
SpawnReserved(op, c, ws, timer) ==
  \/ /\ ~stopped
     /\ BeginSpawn(op, c, client[c].cwd, ws, worker)
     /\ recoveryTimer' = timer
     /\ UNCHANGED client
  \/ /\ stopped
     /\ Reject(c)
     /\ workers' = ws
     /\ recoveryTimer' = Scheduled(ws, timer)
     /\ UNCHANGED worker

(* reserveForAssignment; selectWorker sets the state                       *)
Reassigned(obj) ==
  [obj EXCEPT !.res = @ + 1, !.claimed = TRUE, !.thread = None, !.state = "assigned"]

(* Variant: reuseAcrossThreads is not looked at.                           *)
ReusableClaimed(ws, dir) == {w \in ws : IsReclaimable(w) /\ worker[w].cwd = dir}

Reusable(ws, dir) ==
  {w \in ws : /\ IsReclaimable(w)
              /\ ReuseAcrossThreads \/ ~worker[w].claimed
              /\ worker[w].cwd = dir}

SelectWorker(op, c, ws, timer) ==
  LET reusable == Reusable(ws, client[c].cwd)
      victims  == {w \in ws : IsReclaimable(w)}
      full     == Cardinality(ws) >= MaxWorkers
  IN \/ /\ ~stopped
        /\ \E w \in reusable :
             /\ worker' = [worker EXCEPT ![w] = Reassigned(@)]
             /\ Selected(op, c, w)
        /\ workers' = ws
        /\ recoveryTimer' = timer
     \/ /\ (reusable # {} /\ stopped) \/ (reusable = {} /\ full /\ victims = {})
        /\ Reject(c)
        /\ workers' = ws
        /\ recoveryTimer' = timer
        /\ UNCHANGED worker
     \/ /\ reusable = {} /\ full
        /\ \E v \in victims :
             /\ worker' = [worker EXCEPT ![v] = Retire(@)]
             /\ run' = [NoJob EXCEPT !.op = op, !.pc = "victim", !.client = c, !.worker = v]
        /\ workers' = ws
        /\ recoveryTimer' = timer
        /\ UNCHANGED client
     \/ /\ reusable = {} /\ ~full
        /\ SpawnReserved(op, c, ws, timer)

(* maintainMinimum from the test of its loop on                            *)
MaintainLoop(op, wk) ==
  IF ~stopped /\ ~recoveryTimer /\ Cardinality(workers) < Target
  THEN BeginSpawn(op, None, PrewarmCwd, workers, wk) /\ UNCHANGED started
  ELSE /\ worker' = wk
       /\ run' = NoJob
       /\ started' = (started \/ op = "start")
       /\ UNCHANGED workers

(* reapIdleWorkers from the head of its loop on, with the candidates left. *)
(* Which candidate comes next is arbitrary.                                *)
ReapLoop(todo, ws) ==
  LET eligible == {w \in todo : IsReclaimable(w)}
  IN IF Cardinality(ws) <= MinWorkers \/ eligible = {}
     THEN /\ run' = NoJob
          /\ recoveryTimer' = Scheduled(ws, recoveryTimer)
          /\ UNCHANGED worker
     ELSE \E w \in eligible :
          /\ worker' = [worker EXCEPT ![w] = Retire(@)]
          /\ run' = [NoJob EXCEPT !.op = "reap", !.pc = "reap", !.worker = w,
                                  !.todo = todo \ {w}]
          /\ UNCHANGED recoveryTimer

Job(op, c) == [op |-> op, client |-> c]

Starts(op) ==
  /\ run = NoJob
  /\ lifecycle # <<>>
  /\ Head(lifecycle).op = op
  /\ lifecycle' = Tail(lifecycle)

StartNew ==
  LET c == Head(lifecycle).client
  IN /\ Starts("new")
     /\ IF stopped
        THEN Reject(c) /\ UNCHANGED <<workers, worker, recoveryTimer>>
        ELSE SelectWorker("new", c, workers, recoveryTimer)
     /\ UNCHANGED <<stopped, started, persisted, faults>>

StartSession ==
  LET c == Head(lifecycle).client
      assigned == FindByThread(client[c].thread)
  IN /\ Starts("session")
     /\ \/ /\ stopped
           /\ Reject(c)
           /\ UNCHANGED <<workers, worker, recoveryTimer>>
        \/ /\ ~stopped /\ assigned = {}
           /\ SelectWorker("session", c, workers, recoveryTimer)
        \/ /\ ~stopped
           /\ \E w \in assigned :
                \/ /\ IsQuiescent(w) /\ worker[w].cwd = client[c].cwd
                   /\ worker' = [worker EXCEPT ![w].res = @ + 1]
                   /\ Grant(c, w)
                \/ /\ IsReclaimable(w) /\ worker[w].cwd # client[c].cwd
                   /\ worker' = [worker EXCEPT ![w] = Retire(@)]
                   /\ run' = [NoJob EXCEPT !.op = "session", !.pc = "moved",
                                           !.client = c, !.worker = w]
                   /\ UNCHANGED client
                \/ /\ ~IsReclaimable(w)
                   /\ ~(IsQuiescent(w) /\ worker[w].cwd = client[c].cwd)
                   /\ Reject(c)
                   /\ UNCHANGED worker
           /\ UNCHANGED <<workers, recoveryTimer>>
     /\ UNCHANGED <<stopped, started, persisted, faults>>

StartMaintain ==
  /\ Starts("start") \/ Starts("maintain")
  /\ MaintainLoop(Head(lifecycle).op, worker)
  /\ UNCHANGED <<recoveryTimer, stopped, client, persisted, faults>>

StartReap ==
  /\ Starts("reap")
  /\ IF stopped \/ ~IdleReaping
     THEN run' = NoJob /\ UNCHANGED <<worker, recoveryTimer>>
     ELSE \E todo \in SUBSET {w \in workers : IsReclaimable(w)} : ReapLoop(todo, workers)
  /\ UNCHANGED <<workers, stopped, started, client, persisted, faults>>

StartStopAll ==
  /\ Starts("stopAll")
  /\ worker' = [w \in Worker |-> IF w \in workers THEN Stop(worker[w]) ELSE worker[w]]
  /\ run' = [NoJob EXCEPT !.op = "stopAll", !.pc = "stopAll"]
  /\ UNCHANGED <<workers, recoveryTimer, stopped, started, client, persisted, faults>>

(* worker.start() resolved.  A pool stopped meanwhile discards the worker. *)
SpawnSucceeds ==
  LET w == run.worker
      reserved == run.op \in {"new", "session"}
      up == [worker[w] EXCEPT !.proc = "live", !.state = "idle"]
  IN /\ run.pc = "spawn"
     /\ \/ /\ stopped
           /\ workers' = workers \ {w}
           /\ worker' = [worker EXCEPT ![w] = Stop(up)]
           /\ run' = [run EXCEPT !.pc = "abandon"]
           /\ UNCHANGED <<client, started>>
        \/ /\ ~stopped /\ reserved
           /\ worker' = [worker EXCEPT ![w] = [up EXCEPT !.state = "assigned"]]
           /\ Selected(run.op, run.client, w)
           /\ UNCHANGED <<workers, started>>
        \/ /\ ~stopped /\ ~reserved
           /\ MaintainLoop(run.op, [worker EXCEPT ![w] = up])
           /\ UNCHANGED client
     /\ UNCHANGED <<lifecycle, recoveryTimer, stopped, persisted, faults>>

(* worker.start() rejected: no usable pi, or the process did not spawn.    *)
SpawnFails ==
  /\ run.pc = "spawn"
  /\ faults < MaxFaults
  /\ faults' = faults + 1
  /\ workers' = workers \ {run.worker}
  /\ run' = [run EXCEPT !.pc = "abandon"]
  /\ UNCHANGED <<worker, lifecycle, recoveryTimer, stopped, started, client, persisted>>

(* The stop of a worker that failed to start has returned: the error       *)
(* reaches the caller, which schedules recovery, except start().           *)
SpawnAbandoned ==
  /\ run.pc = "abandon"
  /\ StopReturned(run.worker)
  /\ IF run.op \in {"new", "session"}
     THEN Reject(run.client)
     ELSE run' = NoJob /\ UNCHANGED client
  /\ recoveryTimer' = IF run.op = "start" THEN recoveryTimer
                      ELSE Scheduled(workers, recoveryTimer)
  /\ UNCHANGED <<workers, worker, lifecycle, stopped, started, persisted, faults>>

VictimStopped ==
  /\ run.pc = "victim"
  /\ StopReturned(run.worker)
  /\ SpawnReserved(run.op, run.client, workers \ {run.worker}, recoveryTimer)
  /\ UNCHANGED <<lifecycle, stopped, started, persisted, faults>>

MovedStopped ==
  LET ws == workers \ {run.worker}
  IN /\ run.pc = "moved"
     /\ StopReturned(run.worker)
     /\ SelectWorker("session", run.client, ws, Scheduled(ws, recoveryTimer))
     /\ UNCHANGED <<lifecycle, stopped, started, persisted, faults>>

(* switch_session and get_state answered with the session asked for        *)
SwitchSucceeds ==
  /\ run.pc = "switch"
  /\ worker[run.worker].proc = "live" /\ ~Unavailable(run.worker)
  /\ worker' = [worker EXCEPT ![run.worker].thread = client[run.client].thread]
  /\ Grant(run.client, run.worker)
  /\ UNCHANGED <<workers, lifecycle, recoveryTimer, stopped, started, persisted, faults>>

(* either command failed, was cancelled, or resumed another session        *)
SwitchFails ==
  LET w == run.worker
  IN /\ run.pc = "switch"
     /\ IF Unavailable(w)
        THEN /\ worker' = [worker EXCEPT ![w] = Release(w)]
             /\ Reject(run.client)
             /\ UNCHANGED faults
        ELSE /\ faults < MaxFaults
             /\ faults' = faults + 1
             /\ worker' = [worker EXCEPT ![w] = Retire(Release(w))]
             /\ run' = [run EXCEPT !.pc = "unswitch"]
             /\ UNCHANGED client
     /\ UNCHANGED <<workers, lifecycle, recoveryTimer, stopped, started, persisted>>

UnswitchedStopped ==
  /\ run.pc = "unswitch"
  /\ StopReturned(run.worker)
  /\ workers' = workers \ {run.worker}
  /\ recoveryTimer' = Scheduled(workers', recoveryTimer)
  /\ Reject(run.client)
  /\ UNCHANGED <<worker, lifecycle, stopped, started, persisted, faults>>

ReapedStopped ==
  /\ run.pc = "reap"
  /\ StopReturned(run.worker)
  /\ workers' = workers \ {run.worker}
  /\ ReapLoop(run.todo, workers')
  /\ UNCHANGED <<lifecycle, stopped, started, client, persisted, faults>>

AllStopped ==
  /\ run.pc = "stopAll"
  /\ \A w \in workers : StopReturned(w)
  /\ workers' = {}
  /\ run' = NoJob
  /\ UNCHANGED <<worker, lifecycle, recoveryTimer, stopped, started, client, persisted, faults>>

-----------------------------------------------------------------------------
(* What enqueues the jobs that no request asks for.                        *)

(* Variant: the timer is not forgotten when it fires.                      *)
RecoveryTimerStays ==
  /\ recoveryTimer
  /\ lifecycle' = Append(lifecycle, Job("maintain", None))
  /\ UNCHANGED <<workers, worker, run, recoveryTimer, stopped, started, client, persisted, faults>>

RecoveryTimerFires ==
  /\ recoveryTimer
  /\ recoveryTimer' = FALSE
  /\ lifecycle' = Append(lifecycle, Job("maintain", None))
  /\ UNCHANGED <<workers, worker, run, stopped, started, client, persisted, faults>>

(* Bound: a tick is only modelled when no job is waiting; a later tick has *)
(* the effect of one that would wait behind others.                        *)
ReaperTicks ==
  /\ started /\ ~stopped
  /\ IdleReaping \/ MinWorkers > 0
  /\ lifecycle = <<>>
  /\ lifecycle' = Append(lifecycle, Job("reap", None))
  /\ UNCHANGED <<workers, worker, run, recoveryTimer, stopped, started, client, persisted, faults>>

(* The daemon shuts down, or start() rejected and startDaemon cleans up.   *)
StopAll ==
  /\ ~stopped
  /\ started \/ (run = NoJob /\ lifecycle = <<>>)
  /\ stopped' = TRUE
  /\ recoveryTimer' = FALSE
  /\ lifecycle' = Append(lifecycle, Job("stopAll", None))
  /\ UNCHANGED <<workers, worker, run, started, client, persisted, faults>>

-----------------------------------------------------------------------------
(* The Pi process behind a worker.                                         *)

OnTurn(c, w) == client[c].pc = "turn" /\ client[c].worker = w

Holds(c, w) ==
  client[c].worker = w /\ client[c].pc \in {"holds", "turn", "cleanup", "mutating"}

(* The process closes.  Unless the daemon stopped it, it crashed: the exit *)
(* listener removes the worker and fails its turn.                         *)
Close(w) ==
  LET crashed == worker[w].state # "stopped"
      ws == workers \ {w}
  IN /\ Alive(w)
     /\ worker[w].proc = "live" => faults < MaxFaults
     /\ faults' = IF worker[w].proc = "live" THEN faults + 1 ELSE faults
     /\ IF crashed
        THEN /\ worker' = [worker EXCEPT ![w].proc = "dead", ![w].state = "crashed",
                                         ![w].turn = FALSE]
             /\ workers' = ws
             /\ recoveryTimer' = Scheduled(ws, recoveryTimer)
             /\ client' = [c \in Client |->
                             IF OnTurn(c, w) /\ ~stopped THEN IdleClient ELSE client[c]]
        ELSE /\ worker' = [worker EXCEPT ![w].proc = "dead"]
             /\ UNCHANGED <<workers, recoveryTimer, client>>
     /\ UNCHANGED <<lifecycle, run, stopped, started, persisted>>

(* SIGTERM did not end the process in time.                                *)
Escalate(w) ==
  /\ worker[w].proc = "term"
  /\ worker' = [worker EXCEPT ![w].proc = "killed"]
  /\ UNCHANGED <<workers, lifecycle, run, recoveryTimer, stopped, started, client, persisted, faults>>

(* A command written to Pi got no answer in time.                          *)
CommandTimesOut(w) ==
  /\ worker[w].proc \in {"live", "term"}
  /\ \/ worker[w].pending > 0
     \/ \E c \in Client : Holds(c, w)
     \/ run.pc = "switch" /\ run.worker = w
  /\ faults < MaxFaults
  /\ faults' = faults + 1
  /\ worker' = [worker EXCEPT ![w].state = "crashed", ![w].proc = "killed"]
  /\ UNCHANGED <<workers, lifecycle, run, recoveryTimer, stopped, started, client, persisted>>

MayReport(w) ==
  /\ Alive(w)
  /\ StrayEvents \/ (worker[w].turn /\ worker[w].proc = "live" /\ ~Unavailable(w))

AgentStart(w) ==
  /\ MayReport(w)
  /\ worker[w].state # "running"
  /\ worker' = [worker EXCEPT ![w].state = "running"]
  /\ UNCHANGED <<workers, lifecycle, run, recoveryTimer, stopped, started, client, persisted, faults>>

(* agent_settled ends the turn, unless the service is shutting down and    *)
(* no longer listens.  The turn's abort mark goes; one of an earlier turn  *)
(* stays.                                                                  *)
AgentSettled(w) ==
  LET ends == {c \in Client : OnTurn(c, w) /\ ~stopped}
  IN /\ MayReport(w)
     /\ \E mark \in IF worker[w].turn THEN {FALSE, worker[w].aborting} ELSE {worker[w].aborting} :
          worker' = [worker EXCEPT ![w].state = "assigned", ![w].turn = @ /\ ends = {},
                                   ![w].aborting = mark]
     /\ client' = [c \in Client |->
                     IF c \in ends THEN [client[c] EXCEPT !.pc = "cleanup"] ELSE client[c]]
     /\ UNCHANGED <<workers, lifecycle, run, recoveryTimer, stopped, started, persisted, faults>>

(* Pi writes the session file of a thread it has loaded.                   *)
Persist(t) ==
  /\ t \notin persisted
  /\ \E w \in workers : worker[w].thread = t /\ worker[w].proc = "live"
  /\ persisted' = persisted \cup {t}
  /\ UNCHANGED <<workers, worker, lifecycle, run, recoveryTimer, stopped, started, client, faults>>

-----------------------------------------------------------------------------
(* The service's use of the pool.                                          *)

(* activeTurns and sessionMutations: one turn or mutation per thread       *)
Exclusive(kind, t) ==
  kind \in {"turn", "mutate"} =>
    \A c \in Client : client[c].thread = t => client[c].kind = "read"

(* thread/start and models/list                                            *)
RequestNew(c, dir) ==
  /\ started /\ "new" \in Kinds
  /\ client[c].pc = "idle"
  /\ client' = [client EXCEPT ![c] = [IdleClient EXCEPT !.pc = "queued", !.kind = "new", !.cwd = dir]]
  /\ lifecycle' = Append(lifecycle, Job("new", c))
  /\ UNCHANGED <<workers, worker, run, recoveryTimer, stopped, started, persisted, faults>>

(* A request about a thread whose worker is at hand retains it directly.   *)
RetainOwner(c, t, kind) ==
  /\ started /\ kind \in Kinds
  /\ client[c].pc = "idle"
  /\ Exclusive(kind, t)
  /\ \E w \in FindByThread(t) :
       /\ Retainable(w)
       /\ kind # "read" => ~worker[w].turn /\ worker[w].state # "running"
       /\ worker' = [worker EXCEPT ![w].res = @ + 1]
       /\ client' = [client EXCEPT ![c] = [IdleClient EXCEPT
                       !.pc = "holds", !.kind = kind, !.thread = t, !.worker = w]]
  /\ UNCHANGED <<workers, lifecycle, run, recoveryTimer, stopped, started, persisted, faults>>

(* Otherwise it asks for a worker in the session's directory.              *)
RequestSession(c, t, dir, kind) ==
  LET found == FindByThread(t)
  IN /\ started /\ kind \in Kinds
     /\ client[c].pc = "idle"
     /\ Exclusive(kind, t)
     /\ found = {} => t \in persisted
     /\ found = {} \/ (kind # "read" /\ \E w \in found : worker[w].cwd # dir)
     /\ client' = [client EXCEPT ![c] = [IdleClient EXCEPT
                     !.pc = "queued", !.kind = kind, !.thread = t, !.cwd = dir]]
     /\ lifecycle' = Append(lifecycle, Job("session", c))
     /\ UNCHANGED <<workers, worker, run, recoveryTimer, stopped, started, persisted, faults>>

UnusedThread(t) ==
  /\ t \notin persisted
  /\ \A w \in Worker : worker[w].thread # t
  /\ \A c \in Client : client[c].thread # t

(* thread/start: the new session is bound and its turn accepted at once    *)
StartThread(c, t) ==
  LET w == client[c].worker
  IN /\ client[c].pc = "holds" /\ client[c].kind = "new"
     /\ worker[w].proc = "live" /\ ~Unavailable(w)
     /\ UnusedThread(t)
     /\ worker' = [worker EXCEPT ![w].thread = t, ![w].turn = TRUE, ![w].state = "running"]
     /\ client' = [client EXCEPT ![c].pc = "turn", ![c].kind = "turn", ![c].thread = t]
     /\ UNCHANGED <<workers, lifecycle, run, recoveryTimer, stopped, started, persisted, faults>>

(* thread/send                                                             *)
StartTurn(c) ==
  LET w == client[c].worker
  IN /\ client[c].pc = "holds" /\ client[c].kind = "turn"
     /\ worker[w].proc = "live" /\ ~Unavailable(w)
     /\ worker' = [worker EXCEPT ![w].thread = client[c].thread, ![w].turn = TRUE,
                                 ![w].state = "running"]
     /\ client' = [client EXCEPT ![c].pc = "turn"]
     /\ UNCHANGED <<workers, lifecycle, run, recoveryTimer, stopped, started, persisted, faults>>

(* A terminal event other than agent_settled: a handled or promptless      *)
(* turn, a failed prompt command, the answer to an abort.                  *)
EndTurn(c) ==
  LET w == client[c].worker
      found == FindByThread(client[c].thread)
  IN /\ client[c].pc = "turn"
     /\ ~stopped
     /\ \/ /\ w \in found
           /\ worker' = [worker EXCEPT ![w].turn = FALSE]
           /\ client' = [client EXCEPT ![c].pc = "cleanup"]
        \/ /\ found # {w}
           /\ client' = [client EXCEPT ![c] = IdleClient]
           /\ UNCHANGED worker
     /\ UNCHANGED <<workers, lifecycle, run, recoveryTimer, stopped, started, persisted, faults>>

(* withSessionMutation, up to the first command of the mutation            *)
BeginMutation(c) ==
  LET w == client[c].worker
  IN /\ client[c].pc = "holds" /\ client[c].kind = "mutate"
     /\ worker[w].proc = "live" /\ ~Unavailable(w)
     /\ worker' = [worker EXCEPT ![w].state = "running"]
     /\ client' = [client EXCEPT ![c].pc = "mutating"]
     /\ UNCHANGED <<workers, lifecycle, run, recoveryTimer, stopped, started, persisted, faults>>

(* fork and clone leave the worker on another session                      *)
Fork(c, t) ==
  LET w == client[c].worker
  IN /\ client[c].pc = "mutating"
     /\ ReuseAcrossThreads
     /\ worker[w].proc = "live" /\ ~Unavailable(w)
     /\ worker[w].thread = client[c].thread
     /\ UnusedThread(t)
     /\ worker' = [worker EXCEPT ![w].thread = t]
     /\ UNCHANGED <<workers, lifecycle, run, recoveryTimer, stopped, started, client, persisted, faults>>

(* The request, its cleanup or its mutation is over, with or without error *)
ReleaseHeld(c) ==
  LET w == client[c].worker
  IN /\ client[c].pc \in {"holds", "cleanup", "mutating"}
     /\ worker' = [worker EXCEPT ![w] = Release(w)]
     /\ client' = [client EXCEPT ![c] = IdleClient]
     /\ UNCHANGED <<workers, lifecycle, run, recoveryTimer, stopped, started, persisted, faults>>

(* steer, follow_up and abort command the worker of an active turn without *)
(* a reservation of their own.                                             *)
BeginCommand(c, kind) ==
  /\ started /\ kind \in Kinds \cap {"steer", "abort"}
  /\ client[c].pc = "idle"
  /\ \E w \in workers :
       /\ \E d \in Client : OnTurn(d, w)
       /\ ~Unavailable(w)
       /\ worker' = [worker EXCEPT ![w].pending = @ + 1, ![w].aborting = @ \/ kind = "abort"]
       /\ client' = [client EXCEPT ![c] = [IdleClient EXCEPT
                       !.pc = "commanding", !.kind = kind, !.worker = w]]
  /\ UNCHANGED <<workers, lifecycle, run, recoveryTimer, stopped, started, persisted, faults>>

CommandReturns(c) ==
  LET w == client[c].worker
  IN /\ client[c].pc = "commanding"
     /\ worker' = [worker EXCEPT ![w].pending = @ - 1]
     /\ client' = [client EXCEPT ![c] = IF client[c].kind = "abort"
                                        THEN [@ EXCEPT !.pc = "settling"] ELSE IdleClient]
     /\ UNCHANGED <<workers, lifecycle, run, recoveryTimer, stopped, started, persisted, faults>>

(* thread/abort has awaited the turn's cleanup.  The mark of another turn  *)
(* that is being aborted stays.                                            *)
FinishAbort(c) ==
  LET w == client[c].worker
      others == {d \in Client \ {c} : client[d].kind = "abort" /\ client[d].worker = w}
  IN /\ client[c].pc = "settling"
     /\ \A d \in Client : client[d].worker = w => client[d].pc # "cleanup"
     /\ \E mark \in IF others = {} THEN {FALSE} ELSE {FALSE, worker[w].aborting} :
          worker' = [worker EXCEPT ![w].aborting = mark]
     /\ client' = [client EXCEPT ![c] = IdleClient]
     /\ UNCHANGED <<workers, lifecycle, run, recoveryTimer, stopped, started, persisted, faults>>

-----------------------------------------------------------------------------

(* A pool whose start() was just called, over a catalog of any content.    *)
Init ==
  /\ workers = {}
  /\ worker = [w \in Worker |-> [FreshWorker(PrewarmCwd, FALSE) EXCEPT
                                   !.state = "stopped", !.proc = "dead"]]
  /\ lifecycle = <<Job("start", None)>>
  /\ run = NoJob
  /\ recoveryTimer = FALSE
  /\ stopped = FALSE
  /\ started = FALSE
  /\ client = [c \in Client |-> IdleClient]
  /\ persisted \in SUBSET Thread
  /\ faults = 0

JobStep ==
  \/ StartNew \/ StartSession \/ StartMaintain \/ StartReap \/ StartStopAll
  \/ SpawnSucceeds \/ SpawnFails \/ SpawnAbandoned
  \/ VictimStopped \/ MovedStopped \/ ReapedStopped
  \/ SwitchSucceeds \/ SwitchFails \/ UnswitchedStopped \/ AllStopped

TimerStep == RecoveryTimerFires \/ ReaperTicks \/ StopAll

ProcessStep(w) ==
  Close(w) \/ Escalate(w) \/ CommandTimesOut(w) \/ AgentStart(w) \/ AgentSettled(w)

RequestStep(c) ==
  \/ \E dir \in Cwd : RequestNew(c, dir)
  \/ \E t \in Thread, kind \in {"read", "turn", "mutate"} :
       RetainOwner(c, t, kind) \/ \E dir \in Cwd : RequestSession(c, t, dir, kind)
  \/ \E kind \in {"steer", "abort"} : BeginCommand(c, kind)

UseStep(c) ==
  \/ \E t \in Thread : StartThread(c, t) \/ Fork(c, t)
  \/ StartTurn(c) \/ EndTurn(c) \/ BeginMutation(c) \/ ReleaseHeld(c)
  \/ CommandReturns(c) \/ FinishAbort(c)

(* After shutdown the pool has nothing left to do.                         *)
Halted ==
  /\ stopped /\ run = NoJob /\ lifecycle = <<>>
  /\ UNCHANGED vars

(* A job that may start does so in the microtasks of the callback that let *)
(* it: before the next timer, request or output of a process.  Bound: one  *)
(* that finds no free identity for its spawn waits for one.                *)
JobsStarted == run # NoJob \/ lifecycle = <<>> \/ Forgotten = {}

Next ==
  \/ JobStep
  \/ /\ JobsStarted
     /\ \/ TimerStep
        \/ \E w \in Worker : ProcessStep(w)
        \/ \E c \in Client : RequestStep(c) \/ UseStep(c)
        \/ \E t \in Thread : Persist(t)
        \/ Halted

Spec == Init /\ [][Next]_vars

-----------------------------------------------------------------------------
(* Properties.                                                             *)

JobType ==
  [op : {"new", "session"}, client : Client]
    \cup [op : {"start", "maintain", "reap", "stopAll"}, client : {None}]

WorkerType ==
  [state : {"starting", "idle", "assigned", "running", "crashed", "stopped"},
   proc : {"none", "live", "term", "killed", "dead"},
   cwd : Cwd, thread : Thread \cup {None}, turn : BOOLEAN, aborting : BOOLEAN,
   pending : Int, res : Nat, claimed : BOOLEAN, retiring : BOOLEAN]

RunType ==
  [op : {"none", "new", "session", "start", "maintain", "reap", "stopAll"},
   pc : {"free", "victim", "moved", "spawn", "abandon", "switch", "unswitch",
         "reap", "stopAll"},
   client : Client \cup {None}, worker : Worker \cup {None}, todo : SUBSET Worker]

ClientType ==
  [pc : {"idle", "queued", "holds", "turn", "cleanup", "mutating", "commanding", "settling"},
   kind : AllKinds \cup {"none"}, thread : Thread \cup {None},
   cwd : Cwd, worker : Worker \cup {None}]

(* The variables hold what the fields of the pool, of the workers and of   *)
(* the service's requests can hold; a request that has been granted its    *)
(* worker knows it, and a job that awaits one knows it and its requester.  *)
TypeOK ==
  /\ workers \subseteq Worker
  /\ worker \in [Worker -> WorkerType]
  /\ lifecycle \in Seq(JobType)
  /\ run \in RunType
  /\ recoveryTimer \in BOOLEAN
  /\ stopped \in BOOLEAN
  /\ started \in BOOLEAN
  /\ client \in [Client -> ClientType]
  /\ persisted \subseteq Thread
  /\ faults \in Nat
  /\ \A c \in Client : client[c].pc \notin {"idle", "queued"} => client[c].worker \in Worker
  /\ run.pc \notin {"free", "stopAll"} => run.worker \in Worker
  /\ run.pc \in {"victim", "moved", "switch", "unswitch"} => run.op \in {"new", "session"}
  /\ run.op \in {"new", "session"} => run.client \in Client

(* At no time do more than maxWorkers Pi processes run that the daemon has *)
(* not killed: a worker leaves the Map only when its process has ended, so *)
(* that the next spawn may take its place (retire, spawn's error path, the *)
(* exit listener, stopAll).                                                *)
ProcessesBounded ==
  Cardinality({w \in Worker : worker[w].proc \in {"live", "term"}}) <= MaxWorkers

(* The reservations of a usable worker are exactly the requests, turns and *)
(* cleanups that hold it and the acquisition in progress: no path releases *)
(* twice, or forgets to (retain and release, in pool and service).         *)
ReservationsHeld ==
  \A w \in workers :
    ~Unavailable(w) =>
      worker[w].res = Cardinality({c \in Client : Holds(c, w)})
        + (IF /\ run.worker = w
              /\ \/ run.pc = "switch"
                 \/ run.pc = "spawn" /\ run.op \in {"new", "session"} THEN 1 ELSE 0)

(* A worker being retired, to be reaped, replaced or evicted, is one that  *)
(* no request, turn or command is using, and none can take it up while its *)
(* stop is awaited.                                                        *)
RetiringUnused ==
  \A w \in workers : worker[w].retiring =>
    /\ ~worker[w].turn /\ worker[w].pending = 0
    /\ \A c \in Client : ~Holds(c, w)

(* While its session is being switched, a worker serves no one else: reads *)
(* of the thread it had cannot find it any more (reserveForAssignment).    *)
(* Only a thread/abort that has been answered may still know the worker,   *)
(* to take back its mark.                                                  *)
SwitchIsExclusive ==
  run.pc = "switch" => \A c \in Client :
    client[c].worker = run.worker => client[c].pc = "settling"

(* A worker that is being stopped or switched serves no one, and no one    *)
(* can come upon it meanwhile.                                             *)
WithdrawnUnused == RetiringUnused /\ SwitchIsExclusive

(* One in-memory writer lease per Pi session id: two usable workers never  *)
(* have the same thread.                                                   *)
OneOwner ==
  \A v, w \in workers :
    /\ v # w /\ ~Unavailable(v) /\ ~Unavailable(w)
    /\ worker[v].thread # None
    => worker[v].thread # worker[w].thread

(* A usable worker that no request refers to can be reused or evicted: no  *)
(* path leaves a worker running, reserved or marked for good, which would  *)
(* take its place in the pool away.                                        *)
NothingStranded ==
  \A w \in workers :
    /\ worker[w].proc = "live" /\ ~Unavailable(w) /\ ~worker[w].retiring
    /\ run.worker # w /\ \A c \in Client : client[c].worker # w
    => IsQuiescent(w)

(* When the pool is at rest below its minimum, a recovery timer is armed:  *)
(* whichever of crash, failed spawn, eviction, failed switch and reaping   *)
(* came in whichever order, one of them scheduled recovery.                *)
RecoveryArmed ==
  started /\ ~stopped /\ run = NoJob /\ lifecycle = <<>> /\ Cardinality(workers) < Target
    => recoveryTimer

(* The pool gets its capacity back, whatever fails in whatever order.      *)
CapacityKept == NothingStranded /\ RecoveryArmed

(* Once stopAll has run, no worker is left and none is ever started again, *)
(* whatever was being spawned or was queued when it was called.            *)
StoppedForGood ==
  /\ stopped /\ run.op # "stopAll"
  /\ \A i \in DOMAIN lifecycle : lifecycle[i].op # "stopAll"
  => /\ workers = {}
     /\ \A w \in Worker : worker[w].proc \notin {"live", "term"}

(* A usable worker with an unsaved thread keeps it: it is not reused,      *)
(* reaped or evicted.  It can be lost in a crash or to shutdown, and a     *)
(* fork of the thread takes the worker over.                               *)
UnsavedKept ==
  [][\A w \in workers :
       /\ worker[w].thread \notin persisted \cup {None}
       /\ worker[w].proc = "live" /\ ~Unavailable(w) /\ worker'[w].state \notin {"crashed", "stopped"}
       => \/ worker'[w].thread = worker[w].thread /\ ~worker'[w].retiring
          \/ \E c \in Client : client[c].pc = "mutating" /\ client[c].worker = w]_vars

(* With reuseAcrossThreads off a process serves one thread for life.       *)
OneThreadForLife ==
  [][~ReuseAcrossThreads =>
       \A w \in workers \cap workers' :
         worker[w].thread # None => worker'[w].thread = worker[w].thread]_vars

-----------------------------------------------------------------------------
(* Fairness: jobs, timers and processes told to die make progress, because *)
(* Node's event loop runs every ready callback, every Pi command and spawn *)
(* has a timeout, and SIGKILL ends a process.                              *)

Fairness ==
  /\ WF_vars(JobStep)
  /\ SF_vars(run = NoJob /\ RecoveryTimerFires)
  /\ \A w \in Worker :
       WF_vars(JobsStarted /\ worker[w].proc \in {"term", "killed"} /\ Close(w))
  /\ \A c \in Client : WF_vars(JobsStarted /\ (ReleaseHeld(c) \/ CommandReturns(c)))

FairSpec == Spec /\ Fairness

(* Every queued acquisition is answered: no job waits for one behind it.   *)
RequestsAnswered == \A c \in Client : client[c].pc = "queued" ~> client[c].pc # "queued"

(* The minimum is restored after crashes, failed spawns and evictions.     *)
MinimumRestored == started ~> (stopped \/ Cardinality(workers) >= Target)
=============================================================================
