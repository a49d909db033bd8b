-------------------------- MODULE WorkerPoolProofs --------------------------
(***************************************************************************)
(* Proofs about WorkerPool, for any number of workers, clients, threads    *)
(* and directories.                                                        *)
(***************************************************************************)
EXTENDS WorkerPool, TLAPS, FiniteSetTheorems, SequenceTheorems

-----------------------------------------------------------------------------
(* Lemmas about the helper operators.                                      *)

(* Taking the first job off the queue leaves jobs. *)
LEMMA QueueType ==
  ASSUME NEW q \in Seq(JobType)
  PROVE  /\ q # <<>> => Head(q) \in JobType /\ Tail(q) \in Seq(JobType)
         /\ \A job \in JobType : Append(q, job) \in Seq(JobType)
  OBVIOUS

(* What the pool does to a worker object keeps its type. *)
LEMMA WorkerOpsType ==
  ASSUME NEW obj \in WorkerType
  PROVE  /\ Stop(obj) \in WorkerType
         /\ Retire(obj) \in WorkerType
         /\ Reassigned(obj) \in WorkerType
<1>1. ASSUME NEW o \in WorkerType PROVE Stop(o) \in WorkerType
  BY ZenonT(30), <1>1 DEF Stop, WorkerType
<1>2. [obj EXCEPT !.retiring = TRUE] \in WorkerType
  BY DEF WorkerType
<1>3. Retire(obj) \in WorkerType
  BY <1>1, <1>2 DEF Retire
<1>4. Reassigned(obj) \in WorkerType
  <2>1. obj.res + 1 \in Nat
    BY DEF WorkerType
  <2> QED
    BY <2>1 DEF Reassigned, WorkerType
<1> QED
  BY <1>1, <1>3, <1>4

(* A new object has its type. *)
LEMMA FreshWorkerType ==
  ASSUME NEW dir \in Cwd, NEW reserve \in BOOLEAN
  PROVE  FreshWorker(dir, reserve) \in WorkerType
  BY DEF FreshWorker, WorkerType

(* Releasing a worker keeps its type. *)
LEMMA ReleaseType ==
  ASSUME worker \in [Worker -> WorkerType], NEW w \in Worker
  PROVE  Release(w) \in WorkerType
<1>1. worker[w] \in WorkerType
  OBVIOUS
<1>2. worker[w].res # 0 => worker[w].res - 1 \in Nat
  BY <1>1 DEF WorkerType
<1> QED
  BY <1>1, <1>2 DEF Release, WorkerType

LEMMA IdleClientType == ASSUME WorkerPoolAssumption PROVE IdleClient \in ClientType
  BY DEF IdleClient, ClientType, AllKinds, WorkerPoolAssumption

-----------------------------------------------------------------------------
(* The type invariant, in the parts the steps of the jobs touch together.  *)

PoolOK ==
  /\ workers \subseteq Worker
  /\ worker \in [Worker -> WorkerType]

RunOK ==
  /\ run \in RunType
  /\ run.pc \notin {"free", "stopAll"} => run.worker \in Worker
  /\ run.pc \in {"victim", "moved", "switch", "unswitch"} => run.op \in {"new", "session"}
  /\ run.op \in {"new", "session"} => run.client \in Client

ClientOK ==
  /\ client \in [Client -> ClientType]
  /\ \A c \in Client : client[c].pc \notin {"idle", "queued"} => client[c].worker \in Worker

RestOK ==
  /\ lifecycle \in Seq(JobType)
  /\ recoveryTimer \in BOOLEAN
  /\ stopped \in BOOLEAN
  /\ started \in BOOLEAN
  /\ persisted \subseteq Thread
  /\ faults \in Nat

LEMMA TypeParts == TypeOK <=> PoolOK /\ RunOK /\ ClientOK /\ RestOK
  BY DEF TypeOK, PoolOK, RunOK, ClientOK, RestOK

LEMMA NoJobOK == ASSUME run' = NoJob PROVE RunOK'
  BY DEF RunOK, NoJob, RunType

(* Answering a request, with a worker or an error, keeps the types. *)
LEMMA AnswerType ==
  ASSUME WorkerPoolAssumption, ClientOK, NEW c \in Client
  PROVE  /\ Reject(c) => ClientOK' /\ RunOK'
         /\ \A w \in Worker : Grant(c, w) => ClientOK' /\ RunOK'
<1>1. ASSUME Reject(c) PROVE ClientOK' /\ RunOK'
  <2>1. RunOK'
    BY <1>1, NoJobOK DEF Reject
  <2>2. IdleClient \in ClientType /\ IdleClient.pc = "idle"
    BY IdleClientType DEF IdleClient
  <2>3. ClientOK'
    BY <1>1, <2>2 DEF Reject, ClientOK
  <2> QED
    BY <2>1, <2>3
<1>2. ASSUME NEW w \in Worker, Grant(c, w) PROVE ClientOK' /\ RunOK'
  <2>1. RunOK'
    BY <1>2, NoJobOK DEF Grant
  <2>2. [client[c] EXCEPT !.pc = "holds", !.worker = w] \in ClientType
    BY ZenonT(60) DEF ClientOK, ClientType
  <2>3. ClientOK'
    BY <1>2, <2>2 DEF Grant, ClientOK, ClientType
  <2> QED
    BY <2>1, <2>3
<1> QED
  BY <1>1, <1>2

(* So does going on with the worker that was selected. *)
LEMMA SelectedType ==
  ASSUME WorkerPoolAssumption, ClientOK,
         NEW op \in {"new", "session"}, NEW c \in Client, NEW w \in Worker,
         Selected(op, c, w)
  PROVE  ClientOK' /\ RunOK'
<1>1. CASE op = "new" /\ Grant(c, w)
  BY <1>1, AnswerType
<1>2. CASE /\ run' = [NoJob EXCEPT !.op = op, !.pc = "switch", !.client = c, !.worker = w]
           /\ UNCHANGED client
  <2>1. RunOK'
    BY <1>2 DEF RunOK, RunType, NoJob
  <2> QED
    BY <1>2, <2>1 DEF ClientOK
<1> QED
  BY <1>1, <1>2 DEF Selected

Ops == {"none", "new", "session", "start", "maintain", "reap", "stopAll"}

(* Beginning to spawn keeps the types. *)
LEMMA BeginSpawnType ==
  ASSUME NEW op \in Ops, NEW c \in Client \cup {None},
         op \in {"new", "session"} => c \in Client,
         NEW dir \in Cwd, NEW ws \in SUBSET Worker, NEW wk \in [Worker -> WorkerType],
         BeginSpawn(op, c, dir, ws, wk)
  PROVE  PoolOK' /\ RunOK'
<1>1. PICK w \in Forgotten :
        /\ workers' = ws \cup {w}
        /\ worker' = [wk EXCEPT ![w] = FreshWorker(dir, op \in {"new", "session"})]
        /\ run' = [NoJob EXCEPT !.op = op, !.pc = "spawn", !.client = c, !.worker = w]
  BY DEF BeginSpawn
<1>2. w \in Worker
  BY DEF Forgotten
<1>3. FreshWorker(dir, op \in {"new", "session"}) \in WorkerType
  BY DEF FreshWorker, WorkerType
<1>4. PoolOK'
  BY <1>1, <1>2, <1>3 DEF PoolOK
<1>5. RunOK'
  BY <1>1, <1>2 DEF RunOK, RunType, NoJob, Ops
<1> QED
  BY <1>4, <1>5

(* Spawning for a request keeps the types, with a live or a stopped pool. *)
LEMMA SpawnReservedType ==
  ASSUME WorkerPoolAssumption, TypeOK,
         NEW op \in {"new", "session"}, NEW c \in Client,
         NEW ws \in SUBSET Worker, NEW timer \in BOOLEAN,
         SpawnReserved(op, c, ws, timer)
  PROVE  PoolOK' /\ RunOK' /\ ClientOK' /\ recoveryTimer' \in BOOLEAN
<1> USE TypeParts
<1>1. CASE /\ BeginSpawn(op, c, client[c].cwd, ws, worker)
           /\ recoveryTimer' = timer
           /\ UNCHANGED client
  <2>1. client[c].cwd \in Cwd
    BY DEF ClientOK, ClientType
  <2>2. worker \in [Worker -> WorkerType] /\ op \in Ops
    BY DEF PoolOK, Ops
  <2>3. PoolOK' /\ RunOK'
    BY <1>1, <2>1, <2>2, BeginSpawnType
  <2> QED
    BY <1>1, <2>3 DEF ClientOK
<1>2. CASE /\ Reject(c)
           /\ workers' = ws
           /\ recoveryTimer' = Scheduled(ws, timer)
           /\ UNCHANGED worker
  <2>1. Scheduled(ws, timer) \in BOOLEAN
    BY DEF Scheduled, RestOK
  <2> QED
    BY <1>2, <2>1, AnswerType DEF PoolOK
<1> QED
  BY <1>1, <1>2 DEF SpawnReserved

(* Selecting a worker keeps the types, whichever way it goes. *)
LEMMA SelectWorkerType ==
  ASSUME WorkerPoolAssumption, TypeOK,
         NEW op \in {"new", "session"}, NEW c \in Client,
         NEW ws \in SUBSET Worker, NEW timer \in BOOLEAN,
         SelectWorker(op, c, ws, timer)
  PROVE  PoolOK' /\ RunOK' /\ ClientOK' /\ recoveryTimer' \in BOOLEAN
<1> USE TypeParts
<1>1. CASE \E w \in Reusable(ws, client[c].cwd) :
             /\ worker' = [worker EXCEPT ![w] = Reassigned(@)]
             /\ Selected(op, c, w)
             /\ workers' = ws
             /\ recoveryTimer' = timer
  <2>1. PICK w \in Worker :
             /\ worker' = [worker EXCEPT ![w] = Reassigned(@)]
             /\ Selected(op, c, w)
             /\ workers' = ws
             /\ recoveryTimer' = timer
    BY <1>1 DEF Reusable
  <2>2. Reassigned(worker[w]) \in WorkerType
    BY WorkerOpsType DEF PoolOK
  <2>3. PoolOK'
    BY <2>1, <2>2 DEF PoolOK
  <2> QED
    BY <2>1, <2>3, SelectedType
<1>2. CASE Reject(c) /\ workers' = ws /\ recoveryTimer' = timer /\ UNCHANGED worker
  BY <1>2, AnswerType DEF PoolOK
<1>3. CASE \E v \in {w \in ws : IsReclaimable(w)} :
             /\ worker' = [worker EXCEPT ![v] = Retire(@)]
             /\ run' = [NoJob EXCEPT !.op = op, !.pc = "victim", !.client = c, !.worker = v]
             /\ workers' = ws
             /\ recoveryTimer' = timer
             /\ UNCHANGED client
  <2>1. PICK v \in Worker :
             /\ worker' = [worker EXCEPT ![v] = Retire(@)]
             /\ run' = [NoJob EXCEPT !.op = op, !.pc = "victim", !.client = c, !.worker = v]
             /\ workers' = ws
             /\ recoveryTimer' = timer
             /\ UNCHANGED client
    BY <1>3
  <2>2. Retire(worker[v]) \in WorkerType
    BY WorkerOpsType DEF PoolOK
  <2>3. PoolOK'
    BY <2>1, <2>2 DEF PoolOK
  <2>4. RunOK'
    BY <2>1 DEF RunOK, RunType, NoJob
  <2> QED
    BY <2>1, <2>3, <2>4 DEF ClientOK
<1>4. CASE SpawnReserved(op, c, ws, timer)
  BY <1>4, SpawnReservedType
<1> QED
  BY <1>1, <1>2, <1>3, <1>4 DEF SelectWorker

(* The loop of maintainMinimum keeps the types. *)
LEMMA MaintainLoopType ==
  ASSUME WorkerPoolAssumption, TypeOK,
         NEW op \in Ops \ {"new", "session"}, NEW wk \in [Worker -> WorkerType],
         MaintainLoop(op, wk)
  PROVE  PoolOK' /\ RunOK' /\ started' \in BOOLEAN
<1> USE TypeParts
<1>1. CASE BeginSpawn(op, None, PrewarmCwd, workers, wk) /\ UNCHANGED started
  <2>1. op \in Ops /\ op \notin {"new", "session"}
    OBVIOUS
  <2>2. PrewarmCwd \in Cwd /\ workers \in SUBSET Worker
    BY DEF WorkerPoolAssumption, PoolOK
  <2>3. PoolOK' /\ RunOK'
    BY <1>1, <2>1, <2>2, BeginSpawnType
  <2> QED
    BY <1>1, <2>3 DEF RestOK
<1>2. CASE worker' = wk /\ run' = NoJob /\ started' = (started \/ op = "start") /\ UNCHANGED workers
  BY <1>2, NoJobOK DEF PoolOK
<1> QED
  BY <1>1, <1>2 DEF MaintainLoop

(* The loop of reapIdleWorkers keeps the types. *)
LEMMA ReapLoopType ==
  ASSUME TypeOK, NEW todo \in SUBSET Worker, NEW ws \in SUBSET Worker, ReapLoop(todo, ws)
  PROVE  /\ worker' \in [Worker -> WorkerType]
         /\ RunOK' /\ recoveryTimer' \in BOOLEAN
<1> USE TypeParts
<1>1. CASE run' = NoJob /\ recoveryTimer' = Scheduled(ws, recoveryTimer) /\ UNCHANGED worker
  <2>1. Scheduled(ws, recoveryTimer) \in BOOLEAN
    BY DEF Scheduled, RestOK
  <2> QED
    BY <1>1, <2>1, NoJobOK DEF PoolOK
<1>2. CASE \E w \in {v \in todo : IsReclaimable(v)} :
             /\ worker' = [worker EXCEPT ![w] = Retire(@)]
             /\ run' = [NoJob EXCEPT !.op = "reap", !.pc = "reap", !.worker = w,
                                     !.todo = todo \ {w}]
             /\ UNCHANGED recoveryTimer
  <2>1. PICK w \in Worker :
             /\ worker' = [worker EXCEPT ![w] = Retire(@)]
             /\ run' = [NoJob EXCEPT !.op = "reap", !.pc = "reap", !.worker = w,
                                     !.todo = todo \ {w}]
             /\ UNCHANGED recoveryTimer
    BY <1>2
  <2>2. Retire(worker[w]) \in WorkerType
    BY WorkerOpsType DEF PoolOK
  <2>3. RunOK'
    BY <2>1 DEF RunOK, RunType, NoJob
  <2> QED
    BY <2>1, <2>2, <2>3 DEF PoolOK, RestOK
<1> QED
  BY <1>1, <1>2 DEF ReapLoop

(* A job that starts is one, and leaves jobs in the queue. *)
LEMMA StartsType ==
  ASSUME TypeOK, NEW op, Starts(op)
  PROVE  /\ lifecycle' \in Seq(JobType)
         /\ Head(lifecycle).op = op
         /\ op \in {"new", "session"} => Head(lifecycle).client \in Client
<1> USE TypeParts
<1>1. lifecycle # <<>> /\ Head(lifecycle).op = op /\ lifecycle' = Tail(lifecycle)
  BY DEF Starts
<1>2. Head(lifecycle) \in JobType /\ Tail(lifecycle) \in Seq(JobType)
  BY <1>1, QueueType DEF RestOK
<1> QED
  BY <1>1, <1>2 DEF JobType

(* Every step of a job keeps the types. *)
LEMMA JobStepType ==
  ASSUME WorkerPoolAssumption, TypeOK, JobStep
  PROVE  TypeOK'
<1> USE TypeParts
<1>p. PoolOK /\ RunOK /\ ClientOK /\ RestOK
  OBVIOUS
<1>s. SUFFICES PoolOK' /\ RunOK' /\ ClientOK' /\ RestOK'
  BY DEF TypeOK, PoolOK, RunOK, ClientOK, RestOK
<1>1. CASE StartNew
  <2> DEFINE c == Head(lifecycle).client
  <2>a. Starts("new")
    BY <1>1 DEF StartNew
  <2>1. lifecycle' \in Seq(JobType) /\ c \in Client
    BY <2>a, StartsType
  <2>2. CASE Reject(c) /\ UNCHANGED <<workers, worker, recoveryTimer>>
    BY <1>1, <1>p, <2>1, <2>2, AnswerType DEF StartNew, PoolOK, RestOK
  <2>3. CASE SelectWorker("new", c, workers, recoveryTimer)
    <3>1. PoolOK' /\ RunOK' /\ ClientOK' /\ recoveryTimer' \in BOOLEAN
      BY ZenonT(60), <1>p, <2>1, <2>3, SelectWorkerType DEF PoolOK, RestOK
    <3> QED
      BY <1>1, <1>p, <2>1, <3>1 DEF StartNew, RestOK
  <2> QED
    BY <1>1, <2>2, <2>3 DEF StartNew
<1>2. CASE StartSession
  <2> DEFINE c == Head(lifecycle).client
  <2>a. Starts("session")
    BY <1>2 DEF StartSession
  <2>1. lifecycle' \in Seq(JobType) /\ c \in Client
    BY <2>a, StartsType
  <2>2. CASE Reject(c) /\ UNCHANGED <<workers, worker, recoveryTimer>>
    BY ZenonT(60), <1>2, <1>p, <2>1, <2>2, AnswerType DEF StartSession, PoolOK, RestOK
  <2>3. CASE SelectWorker("session", c, workers, recoveryTimer)
    <3>1. PoolOK' /\ RunOK' /\ ClientOK' /\ recoveryTimer' \in BOOLEAN
      BY ZenonT(60), <1>p, <2>1, <2>3, SelectWorkerType DEF PoolOK, RestOK
    <3> QED
      BY <1>2, <1>p, <2>1, <3>1 DEF StartSession, RestOK
  <2>4. ASSUME NEW w \in Worker,
               \/ worker' = [worker EXCEPT ![w].res = @ + 1] /\ Grant(c, w)
               \/ /\ worker' = [worker EXCEPT ![w] = Retire(@)]
                  /\ run' = [NoJob EXCEPT !.op = "session", !.pc = "moved",
                                          !.client = c, !.worker = w]
                  /\ UNCHANGED client
               \/ Reject(c) /\ UNCHANGED worker,
               UNCHANGED <<workers, recoveryTimer>>
        PROVE  PoolOK' /\ RunOK' /\ ClientOK' /\ RestOK'
    <3>1. [worker[w] EXCEPT !.res = @ + 1] \in WorkerType
      BY <1>p DEF PoolOK, WorkerType
    <3>2. Retire(worker[w]) \in WorkerType
      BY <1>p, WorkerOpsType DEF PoolOK
    <3>3. PoolOK'
      BY <1>p, <2>4, <3>1, <3>2 DEF PoolOK
    <3>4. RunOK' /\ ClientOK'
      <4>1. CASE Grant(c, w) \/ Reject(c)
        BY <4>1, <1>p, <2>1, AnswerType
      <4>2. CASE /\ run' = [NoJob EXCEPT !.op = "session", !.pc = "moved",
                                         !.client = c, !.worker = w]
                 /\ UNCHANGED client
        BY <4>2, <1>p, <2>1 DEF RunOK, RunType, NoJob, ClientOK
      <4> QED
        BY <2>4, <4>1, <4>2
    <3>5. RestOK'
      BY <1>2, <1>p, <2>1, <2>4 DEF StartSession, RestOK
    <3> QED
      BY <3>3, <3>4, <3>5
  <2>5. FindByThread(client[c].thread) \subseteq Worker
    BY <1>p DEF FindByThread, PoolOK
  <2> QED
    BY <1>2, <2>2, <2>3, <2>4, <2>5 DEF StartSession
<1>3. CASE StartMaintain
  <2>1. PICK op \in {"start", "maintain"} : Starts(op)
    BY <1>3 DEF StartMaintain
  <2>2. Head(lifecycle).op = op /\ lifecycle' \in Seq(JobType)
    BY <2>1, StartsType
  <2>3. op \in Ops \ {"new", "session"} /\ worker \in [Worker -> WorkerType]
    BY <1>p DEF Ops, PoolOK
  <2>4. MaintainLoop(op, worker)
    BY <1>3, <2>2 DEF StartMaintain
  <2>5. PoolOK' /\ RunOK' /\ started' \in BOOLEAN
    BY <2>3, <2>4, MaintainLoopType
  <2> QED
    BY <1>3, <1>p, <2>2, <2>5 DEF StartMaintain, RestOK, ClientOK
<1>4. CASE StartReap
  <2>a. Starts("reap")
    BY <1>4 DEF StartReap
  <2>b. lifecycle' \in Seq(JobType)
    BY <2>a, StartsType
  <2>1. CASE run' = NoJob /\ UNCHANGED <<worker, recoveryTimer>>
    BY <1>4, <1>p, <2>b, <2>1, NoJobOK DEF StartReap, PoolOK, ClientOK, RestOK
  <2>2. CASE \E todo \in SUBSET {w \in workers : IsReclaimable(w)} : ReapLoop(todo, workers)
    <3>1. worker' \in [Worker -> WorkerType] /\ RunOK' /\ recoveryTimer' \in BOOLEAN
      BY <1>p, <2>2, ReapLoopType DEF PoolOK
    <3> QED
      BY <1>4, <1>p, <2>b, <3>1 DEF StartReap, PoolOK, ClientOK, RestOK
  <2> QED
    BY <1>4, <2>1, <2>2 DEF StartReap
<1>5. CASE StartStopAll
  <2>a. Starts("stopAll")
    BY <1>5 DEF StartStopAll
  <2>b. lifecycle' \in Seq(JobType)
    BY <2>a, StartsType
  <2>1. worker' \in [Worker -> WorkerType]
    BY <1>5, <1>p, WorkerOpsType DEF StartStopAll, PoolOK
  <2>2. RunOK'
    BY <1>5 DEF StartStopAll, RunOK, RunType, NoJob
  <2> QED
    BY <1>5, <1>p, <2>b, <2>1, <2>2 DEF StartStopAll, PoolOK, ClientOK, RestOK
<1>6. CASE SpawnSucceeds
  <2> DEFINE w == run.worker
  <2> DEFINE up == [worker[w] EXCEPT !.proc = "live", !.state = "idle"]
  <2>a. w \in Worker /\ worker[w] \in WorkerType /\ run.op \in Ops
    BY <1>6, <1>p DEF SpawnSucceeds, RunOK, RunType, PoolOK, Ops
  <2>b. up \in WorkerType
    BY <2>a DEF WorkerType
  <2>1. CASE /\ workers' = workers \ {w}
             /\ worker' = [worker EXCEPT ![w] = Stop(up)]
             /\ run' = [run EXCEPT !.pc = "abandon"]
             /\ UNCHANGED <<client, started>>
    <3>1. Stop(up) \in WorkerType
      BY <2>b, WorkerOpsType
    <3>2. PoolOK'
      BY <2>1, <3>1, <1>p DEF PoolOK
    <3>3. RunOK'
      BY <2>1, <2>a, <1>p DEF RunOK, RunType
    <3> QED
      BY <1>6, <1>p, <2>1, <3>2, <3>3 DEF SpawnSucceeds, ClientOK, RestOK
  <2>2. CASE /\ run.op \in {"new", "session"}
             /\ worker' = [worker EXCEPT ![w] = [up EXCEPT !.state = "assigned"]]
             /\ Selected(run.op, run.client, w)
             /\ UNCHANGED <<workers, started>>
    <3>1. [up EXCEPT !.state = "assigned"] \in WorkerType
      BY <2>b DEF WorkerType
    <3>2. PoolOK'
      BY <2>2, <3>1, <1>p DEF PoolOK
    <3>3. run.client \in Client
      BY <2>2, <1>p DEF RunOK
    <3>4. ClientOK' /\ RunOK'
      BY <2>2, <2>a, <3>3, <1>p, SelectedType
    <3> QED
      BY <1>6, <1>p, <2>2, <3>2, <3>4 DEF SpawnSucceeds, RestOK
  <2>3. CASE /\ run.op \notin {"new", "session"}
             /\ MaintainLoop(run.op, [worker EXCEPT ![w] = up])
             /\ UNCHANGED client
    <3>1. [worker EXCEPT ![w] = up] \in [Worker -> WorkerType]
      BY <2>a, <2>b, <1>p DEF PoolOK
    <3>2. PoolOK' /\ RunOK' /\ started' \in BOOLEAN
      BY <2>3, <2>a, <3>1, MaintainLoopType
    <3> QED
      BY <1>6, <1>p, <2>3, <3>2 DEF SpawnSucceeds, ClientOK, RestOK
  <2> QED
    BY <1>6, <2>1, <2>2, <2>3 DEF SpawnSucceeds
<1>7. CASE SpawnFails
  BY SMTT(30), <1>7, <1>p DEF SpawnFails, PoolOK, RunOK, RunType, ClientOK, RestOK
<1>r. \A ws : Scheduled(ws, recoveryTimer) \in BOOLEAN
  BY <1>p DEF Scheduled, RestOK
<1>8. CASE SpawnAbandoned
  <2>1. RunOK' /\ ClientOK'
    <3>1. CASE run.op \in {"new", "session"}
      BY <1>8, <1>p, <3>1, AnswerType DEF SpawnAbandoned, RunOK
    <3>2. CASE run.op \notin {"new", "session"}
      BY <1>8, <1>p, <3>2, NoJobOK DEF SpawnAbandoned, ClientOK
    <3> QED
      BY <3>1, <3>2
  <2>2. PoolOK' /\ RestOK'
    BY <1>8, <1>p, <1>r DEF SpawnAbandoned, PoolOK, RestOK
  <2> QED
    BY <2>1, <2>2
<1>9. CASE VictimStopped
  <2>1. run.op \in {"new", "session"} /\ run.client \in Client
    BY <1>9, <1>p DEF VictimStopped, RunOK
  <2>2. workers \ {run.worker} \in SUBSET Worker /\ recoveryTimer \in BOOLEAN
    BY <1>p DEF PoolOK, RestOK
  <2>3. PoolOK' /\ RunOK' /\ ClientOK' /\ recoveryTimer' \in BOOLEAN
    BY <1>9, <2>1, <2>2, SpawnReservedType DEF VictimStopped
  <2> QED
    BY <1>9, <1>p, <2>3 DEF VictimStopped, RestOK
<1>10. CASE MovedStopped
  <2> DEFINE ws == workers \ {run.worker}
  <2>1. run.client \in Client
    BY <1>10, <1>p DEF MovedStopped, RunOK
  <2>2. ws \in SUBSET Worker /\ Scheduled(ws, recoveryTimer) \in BOOLEAN
    BY <1>p, <1>r DEF PoolOK
  <2>3. SelectWorker("session", run.client, ws, Scheduled(ws, recoveryTimer))
    BY <1>10 DEF MovedStopped
  <2>4. PoolOK' /\ RunOK' /\ ClientOK' /\ recoveryTimer' \in BOOLEAN
    BY <2>1, <2>2, <2>3, SelectWorkerType
  <2> QED
    BY <1>10, <1>p, <2>4 DEF MovedStopped, RestOK
<1>11. CASE SwitchSucceeds
  <2>1. run.client \in Client /\ run.worker \in Worker
    BY <1>11, <1>p DEF SwitchSucceeds, RunOK
  <2>2. RunOK' /\ ClientOK'
    BY <1>11, <1>p, <2>1, AnswerType DEF SwitchSucceeds
  <2>3. client[run.client].thread \in Thread \cup {None}
    BY <1>p, <2>1 DEF ClientOK, ClientType
  <2>4. PoolOK'
    BY <1>11, <1>p, <2>1, <2>3 DEF SwitchSucceeds, PoolOK, WorkerType
  <2> QED
    BY <1>11, <1>p, <2>2, <2>4 DEF SwitchSucceeds, RestOK
<1>12. CASE SwitchFails
  <2>1. /\ run.client \in Client /\ run.worker \in Worker
        /\ run.op \in {"new", "session"}
    BY <1>12, <1>p DEF SwitchFails, RunOK
  <2>2. Release(run.worker) \in WorkerType /\ Retire(Release(run.worker)) \in WorkerType
    BY <1>p, <2>1, ReleaseType, WorkerOpsType DEF PoolOK
  <2>3. PoolOK'
    BY <1>12, <1>p, <2>2 DEF SwitchFails, PoolOK
  <2>4. CASE Reject(run.client)
    BY <1>12, <1>p, <2>1, <2>3, <2>4, AnswerType DEF SwitchFails, RestOK
  <2>5. CASE run' = [run EXCEPT !.pc = "unswitch"] /\ UNCHANGED client
    BY <1>12, <1>p, <2>1, <2>3, <2>5 DEF SwitchFails, RunOK, RunType, ClientOK, RestOK
  <2> QED
    BY <1>12, <2>4, <2>5 DEF SwitchFails
<1>13. CASE UnswitchedStopped
  <2>1. RunOK' /\ ClientOK'
    BY <1>13, <1>p, AnswerType DEF UnswitchedStopped, RunOK
  <2>2. recoveryTimer' \in BOOLEAN
    BY <1>13, <1>p DEF UnswitchedStopped, Scheduled, RestOK
  <2> QED
    BY <1>13, <1>p, <2>1, <2>2 DEF UnswitchedStopped, PoolOK, RestOK
<1>14. CASE ReapedStopped
  <2>1. run.todo \in SUBSET Worker /\ workers' \in SUBSET Worker
    BY <1>14, <1>p DEF ReapedStopped, RunOK, RunType, PoolOK
  <2>2. worker' \in [Worker -> WorkerType] /\ RunOK' /\ recoveryTimer' \in BOOLEAN
    BY <1>14, <2>1, ReapLoopType DEF ReapedStopped
  <2> QED
    BY <1>14, <1>p, <2>1, <2>2 DEF ReapedStopped, PoolOK, ClientOK, RestOK
<1>15. CASE AllStopped
  BY <1>15, <1>p, NoJobOK DEF AllStopped, PoolOK, ClientOK, RestOK
<1> QED
  BY <1>1, <1>2, <1>3, <1>4, <1>5, <1>6, <1>7, <1>8, <1>9, <1>10, <1>11, <1>12, <1>13,
     <1>14, <1>15 DEF JobStep

(* Appending a job to the queue keeps its type. *)
LEMMA EnqueueType ==
  ASSUME RestOK, NEW op, NEW c, Job(op, c) \in JobType,
         lifecycle' = Append(lifecycle, Job(op, c))
  PROVE  lifecycle' \in Seq(JobType)
  BY QueueType DEF RestOK

(* So do the timers, shutdown and what the Pi processes do. *)
LEMMA EventStepType ==
  ASSUME TypeOK, TimerStep \/ (\E w \in Worker : ProcessStep(w)) \/ (\E t \in Thread : Persist(t))
  PROVE  TypeOK'
<1> USE TypeParts
<1>p. PoolOK /\ RunOK /\ ClientOK /\ RestOK
  OBVIOUS
<1>s. SUFFICES PoolOK' /\ RunOK' /\ ClientOK' /\ RestOK'
  BY DEF TypeOK, PoolOK, RunOK, ClientOK, RestOK
<1>j. /\ Job("maintain", None) \in JobType
      /\ Job("reap", None) \in JobType
      /\ Job("stopAll", None) \in JobType
  BY DEF Job, JobType
<1>1. CASE RecoveryTimerFires
  <2>1. lifecycle' \in Seq(JobType)
    BY <1>1, <1>p, <1>j, EnqueueType DEF RecoveryTimerFires
  <2> QED
    BY <1>1, <1>p, <2>1 DEF RecoveryTimerFires, PoolOK, RunOK, ClientOK, RestOK
<1>2. CASE ReaperTicks
  <2>1. lifecycle' \in Seq(JobType)
    BY <1>2, <1>p, <1>j, EnqueueType DEF ReaperTicks
  <2> QED
    BY <1>2, <1>p, <2>1 DEF ReaperTicks, PoolOK, RunOK, ClientOK, RestOK
<1>3. CASE StopAll
  <2>1. lifecycle' \in Seq(JobType)
    BY <1>3, <1>p, <1>j, EnqueueType DEF StopAll
  <2> QED
    BY <1>3, <1>p, <2>1 DEF StopAll, PoolOK, RunOK, ClientOK, RestOK
<1>4. ASSUME NEW w \in Worker, Close(w) PROVE PoolOK' /\ RunOK' /\ ClientOK' /\ RestOK'
  <2>1. PoolOK'
    BY <1>4, <1>p DEF Close, PoolOK, WorkerType
  <2>2. ClientOK'
    <3>1. IdleClient \in ClientType /\ IdleClient.pc = "idle"
      BY WorkerPoolAssumption, IdleClientType DEF IdleClient
    <3> QED
      BY <1>4, <1>p, <3>1 DEF Close, ClientOK
  <2>3. RestOK'
    <3>1. Scheduled(workers \ {w}, recoveryTimer) \in BOOLEAN
      BY <1>p DEF Scheduled, RestOK
    <3>2. recoveryTimer' \in BOOLEAN
      BY <1>4, <1>p, <3>1 DEF Close, RestOK
    <3>3. faults' \in Nat
      BY <1>4, <1>p DEF Close, RestOK
    <3> QED
      BY <1>4, <1>p, <3>2, <3>3 DEF Close, RestOK
  <2> QED
    BY <1>4, <1>p, <2>1, <2>2, <2>3 DEF Close, RunOK
<1>5. ASSUME NEW w \in Worker, Escalate(w) \/ CommandTimesOut(w) \/ AgentStart(w)
      PROVE  PoolOK' /\ RunOK' /\ ClientOK' /\ RestOK'
  <2>1. PoolOK'
    BY <1>5, <1>p DEF Escalate, CommandTimesOut, AgentStart, PoolOK, WorkerType
  <2> QED
    BY <1>5, <1>p, <2>1
       DEF Escalate, CommandTimesOut, AgentStart, RunOK, ClientOK, RestOK
<1>6. ASSUME NEW w \in Worker, AgentSettled(w) PROVE PoolOK' /\ RunOK' /\ ClientOK' /\ RestOK'
  <2> DEFINE ends == {c \in Client : OnTurn(c, w) /\ ~stopped}
  <2>1. PoolOK'
    <3>1. worker[w] \in WorkerType
      BY <1>p DEF PoolOK
    <3>2. ASSUME NEW turn \in BOOLEAN, NEW mark \in BOOLEAN
          PROVE  [worker[w] EXCEPT !.state = "assigned", !.turn = turn, !.aborting = mark]
                   \in WorkerType
      BY <3>1 DEF WorkerType
    <3>3. (worker[w].turn /\ ends = {}) \in BOOLEAN /\ worker[w].aborting \in BOOLEAN
      BY <3>1 DEF WorkerType
    <3>4. PICK mark \in {FALSE, worker[w].aborting} :
            worker' = [worker EXCEPT ![w] = [worker[w] EXCEPT !.state = "assigned",
                                             !.turn = worker[w].turn /\ ends = {},
                                             !.aborting = mark]]
      BY ZenonT(60), <1>6 DEF AgentSettled
    <3> HIDE DEF ends
    <3> QED
      BY <1>6, <1>p, <3>2, <3>3, <3>4 DEF AgentSettled, PoolOK
  <2>2. ClientOK'
    <3>1. \A c \in ends : client[c].worker \in Worker
      BY DEF OnTurn
    <3>2. \A c \in Client : [client[c] EXCEPT !.pc = "cleanup"] \in ClientType
      BY <1>p DEF ClientOK, ClientType
    <3>3. client' = [c \in Client |-> IF c \in ends THEN [client[c] EXCEPT !.pc = "cleanup"]
                                      ELSE client[c]]
      BY <1>6 DEF AgentSettled
    <3>4. \A c \in Client : client[c] \in ClientType
      BY <1>p DEF ClientOK
    <3> HIDE DEF ends
    <3>5. client' \in [Client -> ClientType]
      BY <3>2, <3>3, <3>4
    <3>6. \A c \in Client : c \in ends => client'[c].worker = client[c].worker
      BY <3>3, <3>4 DEF ClientType
    <3> QED
      BY <1>p, <3>1, <3>3, <3>5, <3>6 DEF ClientOK
  <2> QED
    BY <1>6, <1>p, <2>1, <2>2 DEF AgentSettled, RunOK, RestOK
<1>7. ASSUME NEW t \in Thread, Persist(t) PROVE PoolOK' /\ RunOK' /\ ClientOK' /\ RestOK'
  BY <1>7, <1>p DEF Persist, PoolOK, RunOK, ClientOK, RestOK
<1> QED
  BY <1>1, <1>2, <1>3, <1>4, <1>5, <1>6, <1>7 DEF TimerStep, ProcessStep

(* So do the requests of the service. *)
LEMMA RequestStepType ==
  ASSUME TypeOK, NEW c \in Client, RequestStep(c)
  PROVE  TypeOK'
<1> USE TypeParts
<1>p. PoolOK /\ RunOK /\ ClientOK /\ RestOK
  OBVIOUS
<1>s. SUFFICES PoolOK' /\ RunOK' /\ ClientOK' /\ RestOK'
  BY DEF TypeOK, PoolOK, RunOK, ClientOK, RestOK
<1>i. IdleClient \in ClientType /\ Kinds \subseteq AllKinds
  BY WorkerPoolAssumption, IdleClientType DEF WorkerPoolAssumption
<1>1. ASSUME NEW dir \in Cwd, RequestNew(c, dir) PROVE PoolOK' /\ RunOK' /\ ClientOK' /\ RestOK'
  <2>1. Job("new", c) \in JobType
    BY DEF Job, JobType
  <2>2. lifecycle' \in Seq(JobType)
    BY <1>1, <1>p, <2>1, EnqueueType DEF RequestNew
  <2>3. [IdleClient EXCEPT !.pc = "queued", !.kind = "new", !.cwd = dir] \in ClientType
    BY <1>i DEF ClientType, AllKinds
  <2>4. ClientOK'
    BY <1>1, <1>p, <2>3 DEF RequestNew, ClientOK, IdleClient
  <2> QED
    BY <1>1, <1>p, <2>2, <2>4 DEF RequestNew, PoolOK, RunOK, RestOK
<1>2. ASSUME NEW t \in Thread, NEW kind, RetainOwner(c, t, kind)
      PROVE  PoolOK' /\ RunOK' /\ ClientOK' /\ RestOK'
  <2>1. PICK w \in Worker :
          /\ worker' = [worker EXCEPT ![w].res = @ + 1]
          /\ client' = [client EXCEPT ![c] = [IdleClient EXCEPT
                          !.pc = "holds", !.kind = kind, !.thread = t, !.worker = w]]
    BY <1>2, <1>p DEF RetainOwner, FindByThread, PoolOK
  <2>2. [IdleClient EXCEPT !.pc = "holds", !.kind = kind, !.thread = t, !.worker = w]
          \in ClientType
    BY <1>2, <1>i DEF RetainOwner, ClientType
  <2>3. ClientOK'
    BY <1>p, <2>1, <2>2 DEF ClientOK, IdleClient
  <2>4. PoolOK'
    BY <1>2, <1>p, <2>1 DEF RetainOwner, PoolOK, WorkerType
  <2> QED
    BY <1>2, <1>p, <2>3, <2>4 DEF RetainOwner, RunOK, RestOK
<1>3. ASSUME NEW t \in Thread, NEW dir \in Cwd, NEW kind, RequestSession(c, t, dir, kind)
      PROVE  PoolOK' /\ RunOK' /\ ClientOK' /\ RestOK'
  <2>1. Job("session", c) \in JobType
    BY DEF Job, JobType
  <2>2. lifecycle' \in Seq(JobType)
    BY <1>3, <1>p, <2>1, EnqueueType DEF RequestSession
  <2>3. [IdleClient EXCEPT !.pc = "queued", !.kind = kind, !.thread = t, !.cwd = dir]
          \in ClientType
    BY <1>3, <1>i DEF RequestSession, ClientType
  <2>4. ClientOK'
    BY <1>3, <1>p, <2>3 DEF RequestSession, ClientOK, IdleClient
  <2> QED
    BY <1>3, <1>p, <2>2, <2>4 DEF RequestSession, PoolOK, RunOK, RestOK
<1>4. ASSUME NEW kind, BeginCommand(c, kind) PROVE PoolOK' /\ RunOK' /\ ClientOK' /\ RestOK'
  <2>1. PICK w \in Worker :
          /\ worker' = [worker EXCEPT ![w].pending = @ + 1,
                                      ![w].aborting = @ \/ kind = "abort"]
          /\ client' = [client EXCEPT ![c] = [IdleClient EXCEPT
                          !.pc = "commanding", !.kind = kind, !.worker = w]]
    BY <1>4, <1>p DEF BeginCommand, PoolOK
  <2>2. [IdleClient EXCEPT !.pc = "commanding", !.kind = kind, !.worker = w] \in ClientType
    BY <1>4, <1>i DEF BeginCommand, ClientType
  <2>3. ClientOK'
    BY <1>p, <2>1, <2>2 DEF ClientOK, IdleClient
  <2>4. PoolOK'
    <3>1. worker[w] \in WorkerType /\ (worker[w].aborting \/ kind = "abort") \in BOOLEAN
      BY <1>p DEF PoolOK
    <3>2. ASSUME NEW b \in BOOLEAN
          PROVE  [worker[w] EXCEPT !.pending = @ + 1, !.aborting = b] \in WorkerType
      <4>1. worker[w].pending + 1 \in Int
        BY <3>1 DEF WorkerType
      <4> QED
        BY <3>1, <4>1 DEF WorkerType
    <3>3. worker' = [worker EXCEPT ![w] = [worker[w] EXCEPT !.pending = @ + 1,
                                             !.aborting = worker[w].aborting \/ kind = "abort"]]
      BY <2>1
    <3> QED
      BY <1>4, <1>p, <3>1, <3>2, <3>3 DEF BeginCommand, PoolOK
  <2> QED
    BY <1>4, <1>p, <2>3, <2>4 DEF BeginCommand, RunOK, RestOK
<1> QED
  BY <1>1, <1>2, <1>3, <1>4 DEF RequestStep

(* So does what a request does with its worker. *)
LEMMA UseStepType ==
  ASSUME TypeOK, NEW c \in Client, UseStep(c)
  PROVE  TypeOK'
<1> USE TypeParts
<1>p. PoolOK /\ RunOK /\ ClientOK /\ RestOK
  OBVIOUS
<1>s. SUFFICES PoolOK' /\ RunOK' /\ ClientOK' /\ RestOK'
  BY DEF TypeOK, PoolOK, RunOK, ClientOK, RestOK
<1> DEFINE w == client[c].worker
<1>i. IdleClient \in ClientType /\ IdleClient.pc = "idle"
  BY WorkerPoolAssumption, IdleClientType DEF IdleClient
<1>k. client[c].pc \notin {"idle", "queued"} => w \in Worker
  BY <1>p DEF ClientOK
<1>1. ASSUME NEW t \in Thread, StartThread(c, t) PROVE PoolOK' /\ RunOK' /\ ClientOK' /\ RestOK'
  <2>1. PoolOK'
    BY SMTT(30), <1>1, <1>p, <1>k DEF StartThread, PoolOK, WorkerType
  <2>2. ClientOK'
    BY <1>1, <1>p, <1>k DEF StartThread, ClientOK, ClientType, AllKinds
  <2> QED
    BY <1>1, <1>p, <2>1, <2>2 DEF StartThread, RunOK, RestOK
<1>2. ASSUME NEW t \in Thread, Fork(c, t) PROVE PoolOK' /\ RunOK' /\ ClientOK' /\ RestOK'
  <2>1. PoolOK'
    BY <1>2, <1>p, <1>k DEF Fork, PoolOK, WorkerType
  <2> QED
    BY <1>2, <1>p, <2>1 DEF Fork, RunOK, ClientOK, RestOK
<1>3. CASE StartTurn(c)
  <2>1. client[c].thread \in Thread \cup {None}
    BY <1>p DEF ClientOK, ClientType
  <2>2. PoolOK'
    BY <1>3, <1>p, <1>k, <2>1 DEF StartTurn, PoolOK, WorkerType
  <2>3. ClientOK'
    BY <1>3, <1>p, <1>k DEF StartTurn, ClientOK, ClientType
  <2> QED
    BY <1>3, <1>p, <2>2, <2>3 DEF StartTurn, RunOK, RestOK
<1>4. CASE EndTurn(c)
  <2>1. PoolOK'
    <3>1. w \in Worker /\ worker[w] \in WorkerType
      BY <1>4, <1>p, <1>k DEF EndTurn, PoolOK
    <3>2. [worker[w] EXCEPT !.turn = FALSE] \in WorkerType
      BY <3>1 DEF WorkerType
    <3>3. worker' = [worker EXCEPT ![w] = [worker[w] EXCEPT !.turn = FALSE]] \/ UNCHANGED worker
      BY <1>4 DEF EndTurn
    <3> QED
      BY <1>4, <1>p, <3>2, <3>3 DEF EndTurn, PoolOK
  <2>2. ClientOK'
    BY <1>4, <1>p, <1>k, <1>i DEF EndTurn, ClientOK, ClientType
  <2> QED
    BY <1>4, <1>p, <2>1, <2>2 DEF EndTurn, RunOK, RestOK
<1>5. CASE BeginMutation(c)
  <2>1. PoolOK'
    BY SMTT(30), <1>5, <1>p, <1>k DEF BeginMutation, PoolOK, WorkerType
  <2>2. ClientOK'
    BY <1>5, <1>p, <1>k DEF BeginMutation, ClientOK, ClientType
  <2> QED
    BY <1>5, <1>p, <2>1, <2>2 DEF BeginMutation, RunOK, RestOK
<1>6. CASE ReleaseHeld(c)
  <2>1. w \in Worker
    BY <1>6, <1>k DEF ReleaseHeld
  <2>2. PoolOK'
    BY <1>6, <1>p, <2>1, ReleaseType DEF ReleaseHeld, PoolOK
  <2>3. ClientOK'
    BY <1>6, <1>p, <1>i DEF ReleaseHeld, ClientOK
  <2> QED
    BY <1>6, <1>p, <2>2, <2>3 DEF ReleaseHeld, RunOK, RestOK
<1>7. CASE CommandReturns(c)
  <2>1. PoolOK'
    BY <1>7, <1>p, <1>k DEF CommandReturns, PoolOK, WorkerType
  <2>2. ClientOK'
    BY <1>7, <1>p, <1>k, <1>i DEF CommandReturns, ClientOK, ClientType
  <2> QED
    BY <1>7, <1>p, <2>1, <2>2 DEF CommandReturns, RunOK, RestOK
<1>8. CASE FinishAbort(c)
  <2>1. w \in Worker /\ worker[w] \in WorkerType
    BY <1>8, <1>p, <1>k DEF FinishAbort, PoolOK
  <2>2. worker[w].aborting \in BOOLEAN
    BY <2>1 DEF WorkerType
  <2>3. PICK mark \in BOOLEAN : worker' = [worker EXCEPT ![w].aborting = mark]
    BY <1>8, <2>2 DEF FinishAbort
  <2>4. PoolOK'
    BY <1>8, <1>p, <2>1, <2>3 DEF FinishAbort, PoolOK, WorkerType
  <2>5. ClientOK'
    BY <1>8, <1>p, <1>i DEF FinishAbort, ClientOK
  <2> QED
    BY <1>8, <1>p, <2>4, <2>5 DEF FinishAbort, RunOK, RestOK
<1> QED
  BY <1>1, <1>2, <1>3, <1>4, <1>5, <1>6, <1>7, <1>8 DEF UseStep

(* The initial state has the types. *)
LEMMA InitType == ASSUME WorkerPoolAssumption, Init PROVE TypeOK
<1>1. worker \in [Worker -> WorkerType]
  <2>1. FreshWorker(PrewarmCwd, FALSE) \in WorkerType
    BY FreshWorkerType DEF WorkerPoolAssumption
  <2>2. [FreshWorker(PrewarmCwd, FALSE) EXCEPT !.state = "stopped", !.proc = "dead"]
          \in WorkerType
    BY <2>1 DEF WorkerType
  <2> QED
    BY <2>2 DEF Init
<1>2. client \in [Client -> ClientType] /\ \A c \in Client : client[c].pc = "idle"
  BY IdleClientType DEF Init, IdleClient
<1>3. lifecycle \in Seq(JobType)
  <2>1. Job("start", None) \in JobType
    BY DEF Job, JobType
  <2> QED
    BY <2>1 DEF Init
<1>4. run \in RunType /\ run.pc = "free" /\ run.op = "none"
  BY DEF Init, NoJob, RunType
<1> QED
  BY <1>1, <1>2, <1>3, <1>4 DEF Init, TypeOK

(* Whatever requests, crashes, timeouts and shutdowns come, the variables  *)
(* keep their types, and a request that was granted a worker has one.      *)
THEOREM TypeCorrect == Spec => []TypeOK
<1> USE WorkerPoolAssumption
<1>1. Init => TypeOK
  BY InitType
<1>2. TypeOK /\ [Next]_vars => TypeOK'
  <2> SUFFICES ASSUME TypeOK, [Next]_vars PROVE TypeOK'
    OBVIOUS
  <2>1. CASE JobStep
    BY <2>1, JobStepType
  <2>2. CASE TimerStep \/ (\E w \in Worker : ProcessStep(w)) \/ (\E t \in Thread : Persist(t))
    BY <2>2, EventStepType
  <2>3. CASE \E c \in Client : RequestStep(c) \/ UseStep(c)
    BY <2>3, RequestStepType, UseStepType
  <2>4. CASE UNCHANGED vars
    BY <2>4 DEF vars, TypeOK
  <2> QED
    BY <2>1, <2>2, <2>3, <2>4 DEF Next, Halted
<1> QED
  BY <1>1, <1>2, PTL DEF Spec

-----------------------------------------------------------------------------
(* The pool never runs more than maxWorkers Pi processes it has not        *)
(* killed.  The bound on the Map is not inductive by itself: a worker      *)
(* whose start failed, or came too late, is out of the Map while its stop  *)
(* is still awaited.  The strengthening charges it to the pool until then. *)
(*                                                                         *)
(* From it, and from what the job queue holds after shutdown, follows that *)
(* stopAll stops the pool for good.  The last part proves that the pool    *)
(* gets its capacity back: whenever it is at rest below its minimum, a     *)
(* recovery timer is armed.                                                *)

(* The worker that spawn has taken out of the Map and is still stopping.   *)
Limbo == IF run.pc = "abandon" THEN {run.worker} ELSE {}

Charged == workers \cup Limbo

Running(obj) == obj.proc \in {"live", "term"}

(* Every running process is that of an object in ws.                       *)
RunsWithin(wk, ws) == \A w \in Worker : Running(wk[w]) => w \in ws

CapacityInv ==
  /\ Cardinality(Charged) <= MaxWorkers
  /\ RunsWithin(worker, Charged)
  /\ run.pc = "spawn" => run.worker \in workers /\ worker[run.worker].proc = "none"

-----------------------------------------------------------------------------
(* Cardinality is monotone on sets of workers. *)
LEMMA CardMonotone ==
  ASSUME WorkerPoolAssumption, NEW S \in SUBSET Worker, NEW T \in SUBSET S
  PROVE  /\ IsFiniteSet(S)
         /\ Cardinality(S) \in Nat /\ Cardinality(T) \in Nat
         /\ Cardinality(T) <= Cardinality(S)
<1>1. IsFiniteSet(S)
  BY FS_Subset DEF WorkerPoolAssumption
<1>2. IsFiniteSet(T) /\ Cardinality(T) <= Cardinality(S)
  BY <1>1, FS_Subset
<1> QED
  BY <1>1, <1>2, FS_CardinalityType

(* A step after which no more objects are charged keeps within the limit. *)
LEMMA StillWithin ==
  ASSUME WorkerPoolAssumption, Cardinality(Charged) <= MaxWorkers,
         Charged \subseteq Worker, Charged' \subseteq Charged
  PROVE  Cardinality(Charged') <= MaxWorkers
  BY CardMonotone DEF WorkerPoolAssumption

(* Of the pool's own steps on an object none sets its process running. *)
LEMMA NotStarted ==
  ASSUME NEW obj \in WorkerType
  PROVE  /\ Running(Stop(obj)) => Running(obj)
         /\ Running(Retire(obj)) => Running(obj)
         /\ Running(Reassigned(obj)) => Running(obj)
<1>1. ASSUME NEW o \in WorkerType PROVE Running(Stop(o)) => Running(o)
  BY <1>1 DEF Stop, Running, WorkerType
<1>2. [obj EXCEPT !.retiring = TRUE] \in WorkerType
  BY DEF WorkerType
<1>3. Running(Retire(obj)) => Running(obj)
  BY <1>1, <1>2 DEF Retire, Running, WorkerType
<1>4. Running(Reassigned(obj)) => Running(obj)
  BY DEF Reassigned, Running, WorkerType
<1> QED
  BY <1>1, <1>3, <1>4

(* spawn charges one more worker, having tested that one more fits. *)
LEMMA BeginSpawnCapacity ==
  ASSUME WorkerPoolAssumption,
         NEW op, NEW c, NEW dir, NEW ws \in SUBSET Worker, NEW wk \in [Worker -> WorkerType],
         RunsWithin(wk, ws), BeginSpawn(op, c, dir, ws, wk)
  PROVE  CapacityInv'
<1>1. PICK w \in Worker :
        /\ Cardinality(ws) < MaxWorkers
        /\ workers' = ws \cup {w}
        /\ worker' = [wk EXCEPT ![w] = FreshWorker(dir, op \in {"new", "session"})]
        /\ run' = [NoJob EXCEPT !.op = op, !.pc = "spawn", !.client = c, !.worker = w]
  BY DEF BeginSpawn, Forgotten
<1>2. run'.pc = "spawn" /\ run'.worker = w
  BY <1>1 DEF NoJob
<1>3. Charged' = ws \cup {w}
  BY <1>1, <1>2 DEF Charged, Limbo
<1>4. Cardinality(Charged') <= MaxWorkers
  <2>1. IsFiniteSet(ws) /\ Cardinality(ws) \in Nat
    BY CardMonotone
  <2>2. Cardinality(ws \cup {w}) = IF w \in ws THEN Cardinality(ws) ELSE Cardinality(ws) + 1
    BY <2>1, FS_AddElement
  <2>3. Cardinality(ws \cup {w}) \in Nat
    BY <2>1, FS_AddElement, FS_CardinalityType
  <2> QED
    BY <1>1, <1>3, <2>1, <2>2, <2>3 DEF WorkerPoolAssumption
<1>5. worker'[w].proc = "none"
  BY <1>1 DEF FreshWorker
<1>6. RunsWithin(worker, Charged)'
  BY <1>1, <1>3, <1>5 DEF RunsWithin, Running
<1> QED
  BY <1>1, <1>2, <1>4, <1>5, <1>6 DEF CapacityInv

(* A step that ends its job, or leaves it at an await that neither spawns  *)
(* nor abandons, and starts no process.                                    *)
LEMMA SettledCapacity ==
  ASSUME NEW ws \in SUBSET Worker, Cardinality(ws) <= MaxWorkers,
         workers' = ws, RunsWithin(worker', ws), run'.pc \notin {"spawn", "abandon"}
  PROVE  CapacityInv'
  BY DEF CapacityInv, Charged, Limbo

LEMMA SpawnReservedCapacity ==
  ASSUME WorkerPoolAssumption, TypeOK, NEW op, NEW c,
         NEW ws \in SUBSET Worker, Cardinality(ws) <= MaxWorkers, RunsWithin(worker, ws),
         NEW timer, SpawnReserved(op, c, ws, timer)
  PROVE  CapacityInv'
<1>1. CASE BeginSpawn(op, c, client[c].cwd, ws, worker)
  BY <1>1, BeginSpawnCapacity DEF TypeOK
<1>2. CASE Reject(c) /\ workers' = ws /\ UNCHANGED worker
  BY <1>2, SettledCapacity DEF Reject, NoJob
<1> QED
  BY <1>1, <1>2 DEF SpawnReserved

LEMMA SelectWorkerCapacity ==
  ASSUME WorkerPoolAssumption, TypeOK, NEW op, NEW c,
         NEW ws \in SUBSET Worker, Cardinality(ws) <= MaxWorkers, RunsWithin(worker, ws),
         NEW timer, SelectWorker(op, c, ws, timer)
  PROVE  CapacityInv'
<1>t. \A w \in Worker : worker[w] \in WorkerType
  BY DEF TypeOK
<1>1. ASSUME NEW w \in Worker, worker' = [worker EXCEPT ![w] = Reassigned(@)],
             Selected(op, c, w), workers' = ws
      PROVE  CapacityInv'
  <2>1. RunsWithin(worker', ws)
    BY <1>1, <1>t, NotStarted DEF RunsWithin, TypeOK
  <2>2. run'.pc \notin {"spawn", "abandon"}
    <3>1. CASE Grant(c, w)
      BY <3>1 DEF Grant, NoJob
    <3>2. CASE run' = [NoJob EXCEPT !.op = op, !.pc = "switch", !.client = c, !.worker = w]
      BY <3>2 DEF NoJob
    <3> QED
      BY <1>1, <3>1, <3>2 DEF Selected
  <2> QED
    BY <1>1, <2>1, <2>2, SettledCapacity
<1>2. CASE Reject(c) /\ workers' = ws /\ UNCHANGED worker
  BY <1>2, SettledCapacity DEF Reject, NoJob
<1>3. ASSUME NEW v \in Worker, worker' = [worker EXCEPT ![v] = Retire(@)],
             run' = [NoJob EXCEPT !.op = op, !.pc = "victim", !.client = c, !.worker = v],
             workers' = ws
      PROVE  CapacityInv'
  <2>1. RunsWithin(worker', ws)
    BY <1>3, <1>t, NotStarted DEF RunsWithin, TypeOK
  <2>2. run'.pc \notin {"spawn", "abandon"}
    BY <1>3 DEF NoJob
  <2> QED
    BY <1>3, <2>1, <2>2, SettledCapacity
<1>4. CASE SpawnReserved(op, c, ws, timer)
  BY <1>4, SpawnReservedCapacity
<1> QED
  BY <1>1, <1>2, <1>3, <1>4 DEF SelectWorker, Reusable

LEMMA MaintainLoopCapacity ==
  ASSUME WorkerPoolAssumption, TypeOK, NEW op, NEW wk \in [Worker -> WorkerType],
         Cardinality(workers) <= MaxWorkers, RunsWithin(wk, workers), MaintainLoop(op, wk)
  PROVE  CapacityInv'
<1>1. workers \in SUBSET Worker
  BY DEF TypeOK
<1>2. CASE BeginSpawn(op, None, PrewarmCwd, workers, wk)
  BY <1>1, <1>2, BeginSpawnCapacity
<1>3. CASE worker' = wk /\ run' = NoJob /\ UNCHANGED workers
  BY <1>1, <1>3, SettledCapacity DEF NoJob
<1> QED
  BY <1>2, <1>3 DEF MaintainLoop

LEMMA ReapLoopCapacity ==
  ASSUME TypeOK, NEW todo \in SUBSET Worker, NEW ws \in SUBSET Worker,
         Cardinality(ws) <= MaxWorkers, RunsWithin(worker, ws), workers' = ws,
         ReapLoop(todo, ws)
  PROVE  CapacityInv'
<1>1. CASE run' = NoJob /\ UNCHANGED worker
  BY <1>1, SettledCapacity DEF NoJob
<1>2. ASSUME NEW w \in Worker, worker' = [worker EXCEPT ![w] = Retire(@)],
             run' = [NoJob EXCEPT !.op = "reap", !.pc = "reap", !.worker = w,
                                  !.todo = todo \ {w}]
      PROVE  CapacityInv'
  <2>1. RunsWithin(worker', ws)
    BY <1>2, NotStarted DEF RunsWithin, TypeOK
  <2>2. run'.pc \notin {"spawn", "abandon"}
    BY <1>2 DEF NoJob
  <2> QED
    BY <2>1, <2>2, SettledCapacity
<1> QED
  BY <1>1, <1>2, Zenon DEF ReapLoop

-----------------------------------------------------------------------------
(* Every step of a job keeps the charge within the limit. *)
LEMMA JobStepCapacity ==
  ASSUME WorkerPoolAssumption, TypeOK, CapacityInv, JobStep
  PROVE  CapacityInv'
<1>t. /\ workers \in SUBSET Worker
      /\ worker \in [Worker -> WorkerType]
      /\ \A w \in Worker : worker[w] \in WorkerType
      /\ run.pc \notin {"free", "stopAll"} => run.worker \in Worker
  BY DEF TypeOK
<1>c. ASSUME NEW ws \in SUBSET Charged
      PROVE  ws \in SUBSET Worker /\ Cardinality(ws) <= MaxWorkers
  <2>1. Charged \in SUBSET Worker
    BY <1>t DEF Charged, Limbo
  <2>2. Cardinality(ws) <= Cardinality(Charged) /\ Cardinality(ws) \in Nat
        /\ Cardinality(Charged) \in Nat
    BY <2>1, CardMonotone
  <2> QED
    BY <2>1, <2>2 DEF CapacityInv, WorkerPoolAssumption
<1>w. workers \in SUBSET Worker /\ Cardinality(workers) <= MaxWorkers
  BY <1>c DEF Charged
<1>l. run.pc # "abandon" => RunsWithin(worker, workers)
  BY DEF CapacityInv, Charged, Limbo
<1>o. StopReturned(run.worker) => RunsWithin(worker, workers \ {run.worker})
  BY <1>l DEF CapacityInv, Charged, Limbo, StopReturned, RunsWithin, Running
<1>v. LET ws == workers \ {run.worker}
      IN ws \in SUBSET Worker /\ Cardinality(ws) <= MaxWorkers
  BY <1>c DEF Charged
<1>f. \A op : Starts(op) => run.pc = "free"
  BY DEF Starts, NoJob
<1>1. CASE StartNew
  <2> DEFINE c == Head(lifecycle).client
  <2>1. RunsWithin(worker, workers)
    BY <1>1, <1>l DEF StartNew, Starts, NoJob
  <2>2. CASE Reject(c) /\ UNCHANGED <<workers, worker>>
    BY <1>w, <2>1, <2>2, SettledCapacity DEF Reject, NoJob
  <2>3. CASE SelectWorker("new", c, workers, recoveryTimer)
    BY <1>w, <2>1, <2>3, SelectWorkerCapacity
  <2> QED
    BY <1>1, <2>2, <2>3 DEF StartNew
<1>2. CASE StartSession
  <2> DEFINE c == Head(lifecycle).client
  <2>1. RunsWithin(worker, workers)
    BY <1>2, <1>l DEF StartSession, Starts, NoJob
  <2>2. CASE Reject(c) /\ UNCHANGED <<workers, worker>>
    BY <1>w, <2>1, <2>2, SettledCapacity DEF Reject, NoJob
  <2>3. CASE SelectWorker("session", c, workers, recoveryTimer)
    BY <1>w, <2>1, <2>3, SelectWorkerCapacity
  <2>4. ASSUME NEW w \in Worker, UNCHANGED workers,
               worker' = [worker EXCEPT ![w].res = @ + 1] /\ Grant(c, w)
        PROVE  CapacityInv'
    <3>1. RunsWithin(worker', workers)
      BY <1>t, <2>1, <2>4 DEF RunsWithin, Running, WorkerType
    <3> QED
      BY <1>w, <2>4, <3>1, SettledCapacity DEF Grant, NoJob
  <2>5. ASSUME NEW w \in Worker, UNCHANGED workers,
               worker' = [worker EXCEPT ![w] = Retire(@)],
               run' = [NoJob EXCEPT !.op = "session", !.pc = "moved", !.client = c, !.worker = w]
        PROVE  CapacityInv'
    <3>1. RunsWithin(worker', workers)
      BY <1>t, <2>1, <2>5, NotStarted DEF RunsWithin
    <3>2. run'.pc = "moved"
      BY <2>5 DEF NoJob
    <3> QED
      BY <1>w, <2>5, <3>1, <3>2, SettledCapacity
  <2>6. FindByThread(client[c].thread) \subseteq Worker
    BY <1>t DEF FindByThread
  <2> QED
    BY ZenonT(60), <1>2, <2>2, <2>3, <2>4, <2>5, <2>6 DEF StartSession
<1>3. CASE StartMaintain
  <2>1. RunsWithin(worker, workers)
    BY <1>3, <1>l DEF StartMaintain, Starts, NoJob
  <2> QED
    BY <1>3, <1>t, <1>w, <2>1, MaintainLoopCapacity DEF StartMaintain
<1>4. CASE StartReap
  <2>1. RunsWithin(worker, workers) /\ workers' = workers
    BY <1>4, <1>l DEF StartReap, Starts, NoJob
  <2>2. CASE run' = NoJob /\ UNCHANGED worker
    BY <1>w, <2>1, <2>2, SettledCapacity DEF NoJob
  <2>3. ASSUME NEW todo \in SUBSET {w \in workers : IsReclaimable(w)}, ReapLoop(todo, workers)
        PROVE  CapacityInv'
    <3>1. todo \in SUBSET Worker
      BY <1>t
    <3> QED
      BY <1>w, <2>1, <2>3, <3>1, ReapLoopCapacity
  <2> QED
    BY <1>4, <2>2, <2>3 DEF StartReap
<1>5. CASE StartStopAll
  <2>1. RunsWithin(worker, workers)
    BY <1>5, <1>l DEF StartStopAll, Starts, NoJob
  <2>2. RunsWithin(worker', workers)
    BY <1>5, <1>t, <2>1, NotStarted DEF StartStopAll, RunsWithin
  <2>3. run'.pc = "stopAll" /\ workers' = workers
    BY <1>5 DEF StartStopAll, NoJob
  <2> QED
    BY <1>w, <2>2, <2>3, SettledCapacity
<1>6. CASE SpawnSucceeds
  <2> DEFINE w == run.worker
  <2> DEFINE up == [worker[w] EXCEPT !.proc = "live", !.state = "idle"]
  <2>a. w \in Worker /\ w \in workers /\ run.pc = "spawn" /\ worker[w] \in WorkerType
    BY <1>6, <1>t DEF SpawnSucceeds, CapacityInv
  <2>b. up \in WorkerType
    BY <2>a DEF WorkerType
  <2>c. RunsWithin(worker, workers)
    BY <1>l, <2>a
  <2>1. CASE /\ workers' = workers \ {w}
             /\ worker' = [worker EXCEPT ![w] = Stop(up)]
             /\ run' = [run EXCEPT !.pc = "abandon"]
    <3>1. run'.pc = "abandon" /\ run'.worker = w
      BY <2>1 DEF TypeOK, RunType
    <3>2. Charged' = workers
      BY <2>1, <2>a, <3>1 DEF Charged, Limbo
    <3>3. RunsWithin(worker', workers)
      BY <1>t, <2>1, <2>a, <2>c DEF RunsWithin
    <3> QED
      BY <1>w, <3>1, <3>2, <3>3 DEF CapacityInv
  <2>2. CASE /\ worker' = [worker EXCEPT ![w] = [up EXCEPT !.state = "assigned"]]
             /\ Selected(run.op, run.client, w)
             /\ UNCHANGED workers
    <3>1. RunsWithin(worker', workers)
      BY <1>t, <2>2, <2>a, <2>c DEF RunsWithin
    <3>2. run'.pc \notin {"spawn", "abandon"}
      <4>1. CASE Grant(run.client, w)
        BY <4>1 DEF Grant, NoJob
      <4>2. CASE run' = [NoJob EXCEPT !.op = run.op, !.pc = "switch",
                                      !.client = run.client, !.worker = w]
        BY <4>2 DEF NoJob
      <4> QED
        BY <2>2, <4>1, <4>2 DEF Selected
    <3> QED
      BY <1>w, <2>2, <3>1, <3>2, SettledCapacity
  <2>3. CASE MaintainLoop(run.op, [worker EXCEPT ![w] = up])
    <3> DEFINE wk == [worker EXCEPT ![w] = up]
    <3>1. wk \in [Worker -> WorkerType]
      BY <1>t, <2>b
    <3>2. RunsWithin(wk, workers)
      BY <1>t, <2>a, <2>c DEF RunsWithin
    <3> QED
      BY <1>w, <2>3, <3>1, <3>2, MaintainLoopCapacity
  <2> QED
    BY <1>6, <2>1, <2>2, <2>3 DEF SpawnSucceeds
<1>7. CASE SpawnFails
  <2>1. run'.pc = "abandon" /\ run'.worker = run.worker
    BY <1>7 DEF SpawnFails, TypeOK, RunType
  <2>2. Charged' = workers
    BY <1>7, <2>1 DEF SpawnFails, Charged, Limbo, CapacityInv
  <2>3. RunsWithin(worker, workers)
    BY <1>7, <1>l DEF SpawnFails
  <2> QED
    BY <1>7, <1>w, <2>1, <2>2, <2>3 DEF SpawnFails, CapacityInv, RunsWithin
<1>8. CASE SpawnAbandoned
  <2>1. RunsWithin(worker, workers)
    BY <1>8, <1>o DEF SpawnAbandoned, RunsWithin
  <2>2. run' = NoJob /\ workers' = workers /\ worker' = worker
    BY <1>8 DEF SpawnAbandoned, Reject
  <2> QED
    BY <1>w, <2>1, <2>2, SettledCapacity DEF NoJob
<1>9. CASE VictimStopped
  <2> DEFINE ws == workers \ {run.worker}
  <2>1. RunsWithin(worker, ws)
    BY <1>9, <1>o DEF VictimStopped
  <2>2. SpawnReserved(run.op, run.client, ws, recoveryTimer)
    BY <1>9 DEF VictimStopped
  <2> HIDE DEF ws
  <2> QED
    BY <1>v, <2>1, <2>2, SpawnReservedCapacity DEF ws
<1>10. CASE MovedStopped
  <2> DEFINE ws == workers \ {run.worker}
  <2>1. RunsWithin(worker, ws)
    BY <1>10, <1>o DEF MovedStopped
  <2>2. SelectWorker("session", run.client, ws, Scheduled(ws, recoveryTimer))
    BY <1>10 DEF MovedStopped
  <2>3. ws \in SUBSET Worker /\ Cardinality(ws) <= MaxWorkers
    BY <1>v
  <2> HIDE DEF ws
  <2> QED
    BY <1>t, <2>1, <2>2, <2>3, SelectWorkerCapacity
<1>11. CASE SwitchSucceeds
  <2>1. RunsWithin(worker, workers)
    BY <1>11, <1>l DEF SwitchSucceeds
  <2>2. RunsWithin(worker', workers)
    BY <1>11, <1>t, <2>1 DEF SwitchSucceeds, RunsWithin, Running, WorkerType
  <2> QED
    BY <1>11, <1>w, <2>2, SettledCapacity DEF SwitchSucceeds, Grant, NoJob
<1>12. CASE SwitchFails
  <2>a. run.worker \in Worker /\ worker[run.worker] \in WorkerType
    BY <1>12, <1>t DEF SwitchFails
  <2>b. Running(Release(run.worker)) => Running(worker[run.worker])
    BY <2>a DEF Release, Running, WorkerType
  <2>c. Running(Retire(Release(run.worker))) => Running(worker[run.worker])
    BY <1>t, <2>a, <2>b, ReleaseType, NotStarted
  <2>1. RunsWithin(worker, workers)
    BY <1>12, <1>l DEF SwitchFails
  <2>2. RunsWithin(worker', workers)
    BY <1>12, <1>t, <2>1, <2>a, <2>b, <2>c DEF SwitchFails, RunsWithin
  <2>3. run'.pc \in {"free", "unswitch"} /\ workers' = workers
    BY <1>12 DEF SwitchFails, Reject, NoJob, TypeOK, RunType
  <2> QED
    BY <1>w, <2>2, <2>3, SettledCapacity
<1>13. CASE UnswitchedStopped
  <2> DEFINE ws == workers \ {run.worker}
  <2>1. RunsWithin(worker, ws)
    BY <1>13, <1>o DEF UnswitchedStopped
  <2>2. workers' = ws /\ worker' = worker /\ run' = NoJob
    BY <1>13 DEF UnswitchedStopped, Reject
  <2>3. ws \in SUBSET Worker /\ Cardinality(ws) <= MaxWorkers
    BY <1>v
  <2> HIDE DEF ws
  <2> QED
    BY <1>t, <2>1, <2>2, <2>3, SettledCapacity DEF NoJob
<1>14. CASE ReapedStopped
  <2> DEFINE ws == workers \ {run.worker}
  <2>1. RunsWithin(worker, ws)
    BY <1>14, <1>o DEF ReapedStopped
  <2>2. workers' = ws /\ ReapLoop(run.todo, ws)
    BY <1>14 DEF ReapedStopped
  <2>3. ws \in SUBSET Worker /\ Cardinality(ws) <= MaxWorkers
    BY <1>v
  <2>4. run.todo \in SUBSET Worker
    BY DEF TypeOK, RunType
  <2> HIDE DEF ws
  <2> QED
    BY <1>t, <2>1, <2>2, <2>3, <2>4, ReapLoopCapacity
<1>15. CASE AllStopped
  <2>1. RunsWithin(worker, {})
    BY <1>15, <1>l DEF AllStopped, RunsWithin, Running, StopReturned
  <2>2. {} \in SUBSET Worker /\ Cardinality({}) <= MaxWorkers
    BY <1>c
  <2> QED
    BY <1>15, <2>1, <2>2, SettledCapacity DEF AllStopped, NoJob
<1> QED
  BY <1>1, <1>2, <1>3, <1>4, <1>5, <1>6, <1>7, <1>8, <1>9, <1>10, <1>11, <1>12, <1>13,
     <1>14, <1>15 DEF JobStep

(* A step that leaves the Map and the running job alone, or only takes an  *)
(* object with a dead process off the Map, and starts no process.          *)
LEMMA OutsideCapacity ==
  ASSUME WorkerPoolAssumption, TypeOK, CapacityInv, UNCHANGED run,
         \A v \in Worker : Running(worker'[v]) => Running(worker[v]),
         \A v \in Worker : worker[v].proc = "none" => worker'[v].proc = "none",
         \/ UNCHANGED workers
         \/ \E w \in Worker : /\ workers' = workers \ {w}
                              /\ ~Running(worker'[w]) /\ worker[w].proc # "none"
  PROVE  CapacityInv'
<1>t. workers \in SUBSET Worker /\ (run.pc \notin {"free", "stopAll"} => run.worker \in Worker)
  BY DEF TypeOK
<1>1. Charged \subseteq Worker /\ Charged' \subseteq Charged
  BY <1>t DEF Charged, Limbo
<1>2. Cardinality(Charged') <= MaxWorkers
  BY <1>1, StillWithin DEF CapacityInv
<1>3. RunsWithin(worker, Charged)'
  BY DEF CapacityInv, Charged, Limbo, RunsWithin
<1>4. run.pc = "spawn" => run.worker \in workers' /\ worker'[run.worker].proc = "none"
  BY <1>t DEF CapacityInv
<1> QED
  BY <1>2, <1>3, <1>4 DEF CapacityInv

(* No timer, event of a process or step of a request disturbs the charge. *)
LEMMA OutsideStepCapacity ==
  ASSUME WorkerPoolAssumption, TypeOK, CapacityInv,
         \/ TimerStep
         \/ \E w \in Worker : ProcessStep(w)
         \/ \E c \in Client : RequestStep(c) \/ UseStep(c)
         \/ \E t \in Thread : Persist(t)
  PROVE  CapacityInv'
<1>t. /\ worker \in [Worker -> WorkerType]
      /\ \A w \in Worker : worker[w] \in WorkerType
      /\ \A c \in Client : client[c].pc \notin {"idle", "queued"} => client[c].worker \in Worker
  BY DEF TypeOK
<1>u. ASSUME UNCHANGED <<run, workers, worker>> PROVE CapacityInv'
  BY <1>u, OutsideCapacity
<1>e. ASSUME UNCHANGED <<run, workers>>, NEW w \in Worker, NEW obj,
             worker' = [worker EXCEPT ![w] = obj],
             Running(obj) => Running(worker[w]),
             worker[w].proc = "none" => obj.proc = "none"
      PROVE  CapacityInv'
  BY <1>e, <1>t, OutsideCapacity
<1>s. ASSUME UNCHANGED <<run, workers>>, NEW w \in Worker, NEW obj,
             worker' = [worker EXCEPT ![w] = obj], obj.proc = worker[w].proc
      PROVE  CapacityInv'
  BY <1>s, <1>e DEF Running
<1>1. CASE TimerStep
  BY <1>1, <1>u DEF TimerStep, RecoveryTimerFires, ReaperTicks, StopAll
<1>2. ASSUME NEW t \in Thread, Persist(t) PROVE CapacityInv'
  BY <1>2, <1>u DEF Persist
<1>3. ASSUME NEW w \in Worker, Close(w) PROVE CapacityInv'
  <2>1. worker'[w].proc = "dead" /\ worker[w].proc # "none"
    BY <1>3, <1>t DEF Close, Alive, WorkerType
  <2>2. \A v \in Worker : v # w => worker'[v] = worker[v]
    BY <1>3, <1>t DEF Close
  <2>3. UNCHANGED run /\ (UNCHANGED workers \/ workers' = workers \ {w})
    BY <1>3 DEF Close
  <2> QED
    BY <1>t, <2>1, <2>2, <2>3, OutsideCapacity DEF Running
<1>4. ASSUME NEW w \in Worker, Escalate(w) PROVE CapacityInv'
  <2>1. worker' = [worker EXCEPT ![w] = [worker[w] EXCEPT !.proc = "killed"]]
    BY <1>4 DEF Escalate
  <2>2. [worker[w] EXCEPT !.proc = "killed"].proc = "killed"
    BY <1>t DEF WorkerType
  <2> QED
    BY <1>4, <2>1, <2>2, <1>e DEF Escalate, Running
<1>5. ASSUME NEW w \in Worker, CommandTimesOut(w) PROVE CapacityInv'
  <2> DEFINE obj == [worker[w] EXCEPT !.state = "crashed", !.proc = "killed"]
  <2>1. worker' = [worker EXCEPT ![w] = obj]
    BY <1>5 DEF CommandTimesOut
  <2>2. obj.proc = "killed"
    BY <1>t DEF WorkerType
  <2> HIDE DEF obj
  <2> QED
    BY <1>5, <2>1, <2>2, <1>e DEF CommandTimesOut, Running
<1>6. ASSUME NEW w \in Worker, AgentStart(w) PROVE CapacityInv'
  <2> DEFINE obj == [worker[w] EXCEPT !.state = "running"]
  <2>1. worker' = [worker EXCEPT ![w] = obj] /\ UNCHANGED <<run, workers>>
    BY <1>6 DEF AgentStart
  <2>2. obj.proc = worker[w].proc
    BY <1>t DEF WorkerType
  <2> HIDE DEF obj
  <2> QED
    BY <2>1, <2>2, <1>s
<1>7. ASSUME NEW w \in Worker, AgentSettled(w) PROVE CapacityInv'
  <2> DEFINE turn == worker[w].turn /\ {c \in Client : OnTurn(c, w) /\ ~stopped} = {}
  <2>1. PICK mark \in {FALSE, worker[w].aborting} :
          /\ worker' = [worker EXCEPT ![w] = [worker[w] EXCEPT !.state = "assigned",
                                               !.turn = turn, !.aborting = mark]]
          /\ UNCHANGED <<run, workers>>
    BY ZenonT(30), <1>7 DEF AgentSettled
  <2> HIDE DEF turn
  <2> DEFINE obj == [worker[w] EXCEPT !.state = "assigned", !.turn = turn, !.aborting = mark]
  <2>2. obj.proc = worker[w].proc
    BY <1>t DEF WorkerType
  <2>3. worker' = [worker EXCEPT ![w] = obj]
    BY <2>1
  <2> HIDE DEF obj
  <2> QED
    BY <1>t, <2>1, <2>2, <2>3, <1>s
<1>8. ASSUME NEW c \in Client, RequestStep(c) PROVE CapacityInv'
  <2>1. ASSUME NEW t, NEW kind, RetainOwner(c, t, kind) PROVE CapacityInv'
    <3>1. PICK w \in Worker : worker' = [worker EXCEPT ![w] = [worker[w] EXCEPT !.res = @ + 1]]
      BY <2>1 DEF RetainOwner, FindByThread, TypeOK
    <3>2. [worker[w] EXCEPT !.res = @ + 1].proc = worker[w].proc
      BY <1>t DEF WorkerType
    <3> QED
      BY <2>1, <3>1, <3>2, <1>s DEF RetainOwner
  <2>2. ASSUME NEW kind, BeginCommand(c, kind) PROVE CapacityInv'
    <3>1. PICK w \in Worker :
            worker' = [worker EXCEPT ![w] = [worker[w] EXCEPT !.pending = @ + 1,
                                                              !.aborting = @ \/ kind = "abort"]]
      BY ZenonT(60), <2>2 DEF BeginCommand, TypeOK
    <3>2. [worker[w] EXCEPT !.pending = @ + 1, !.aborting = @ \/ kind = "abort"].proc
            = worker[w].proc
      BY <1>t DEF WorkerType
    <3> QED
      BY <2>2, <3>1, <3>2, <1>s DEF BeginCommand
  <2> QED
    BY <1>8, <2>1, <2>2, <1>u DEF RequestStep, RequestNew, RequestSession
<1>9. ASSUME NEW c \in Client, UseStep(c) PROVE CapacityInv'
  <2> DEFINE w == client[c].worker
  <2>1. w \in Worker /\ worker[w] \in WorkerType /\ UNCHANGED <<run, workers>>
    BY <1>9, <1>t DEF UseStep, StartThread, Fork, StartTurn, EndTurn, BeginMutation,
                      ReleaseHeld, CommandReturns, FinishAbort
  <2>2. ASSUME worker'[w].proc = worker[w].proc,
               \A v \in Worker \ {w} : worker'[v] = worker[v]
        PROVE  CapacityInv'
    BY <2>1, <2>2, OutsideCapacity DEF Running
  <2>3. CASE \E t \in Thread : StartThread(c, t)
    BY <1>t, <2>1, <2>2, <2>3 DEF StartThread, WorkerType
  <2>4. CASE \E t \in Thread : Fork(c, t)
    BY <1>t, <2>1, <2>2, <2>4 DEF Fork, WorkerType
  <2>5. CASE StartTurn(c)
    BY <1>t, <2>1, <2>2, <2>5 DEF StartTurn, WorkerType
  <2>6. CASE EndTurn(c)
    BY <1>t, <2>1, <2>2, <2>6, <1>u DEF EndTurn, WorkerType
  <2>7. CASE BeginMutation(c)
    BY <1>t, <2>1, <2>2, <2>7 DEF BeginMutation, WorkerType
  <2>8. CASE ReleaseHeld(c)
    <3>1. Release(w).proc = worker[w].proc
      BY <2>1 DEF Release, WorkerType
    <3> QED
      BY <1>t, <2>1, <2>2, <2>8, <3>1 DEF ReleaseHeld
  <2>9. CASE CommandReturns(c)
    BY <1>t, <2>1, <2>2, <2>9 DEF CommandReturns, WorkerType
  <2>10. CASE FinishAbort(c)
    BY <1>t, <2>1, <2>2, <2>10 DEF FinishAbort, WorkerType
  <2> QED
    BY <1>9, <2>3, <2>4, <2>5, <2>6, <2>7, <2>8, <2>9, <2>10 DEF UseStep
<1> QED
  BY <1>1, <1>2, <1>3, <1>4, <1>5, <1>6, <1>7, <1>8, <1>9 DEF ProcessStep

(* The pool starts empty, with no process running. *)
LEMMA InitCapacity == ASSUME WorkerPoolAssumption, Init PROVE CapacityInv
<1>1. Charged = {}
  BY DEF Init, Charged, Limbo, NoJob
<1>2. Cardinality(Charged) <= MaxWorkers
  BY <1>1, FS_EmptySet DEF WorkerPoolAssumption
<1>3. \A w \in Worker : worker[w].proc = "dead"
  BY DEF Init, FreshWorker
<1> QED
  BY <1>2, <1>3 DEF CapacityInv, RunsWithin, Running, Init, NoJob

(* The invariant bounds the processes that run. *)
LEMMA CapacitySuffices == ASSUME WorkerPoolAssumption, TypeOK, CapacityInv PROVE ProcessesBounded
<1> DEFINE Procs == {w \in Worker : worker[w].proc \in {"live", "term"}}
<1>1. Charged \in SUBSET Worker
  BY DEF Charged, Limbo, TypeOK
<1>2. Procs \in SUBSET Charged
  BY DEF CapacityInv, RunsWithin, Running
<1>3. /\ Cardinality(Procs) <= Cardinality(Charged)
      /\ Cardinality(Procs) \in Nat /\ Cardinality(Charged) \in Nat
  BY <1>1, <1>2, CardMonotone
<1> QED
  BY <1>3 DEF ProcessesBounded, CapacityInv, WorkerPoolAssumption

(* The invariant is kept by every step.                                    *)
LEMMA CapacityInvariant == Spec => []CapacityInv
<1> USE WorkerPoolAssumption
<1>1. Init => CapacityInv
  BY InitCapacity
<1>2. TypeOK /\ CapacityInv /\ [Next]_vars => CapacityInv'
  <2> SUFFICES ASSUME TypeOK, CapacityInv, [Next]_vars PROVE CapacityInv'
    OBVIOUS
  <2>1. CASE JobStep
    BY <2>1, JobStepCapacity
  <2>2. CASE \/ TimerStep
             \/ \E w \in Worker : ProcessStep(w)
             \/ \E c \in Client : RequestStep(c) \/ UseStep(c)
             \/ \E t \in Thread : Persist(t)
    BY <2>2, OutsideStepCapacity
  <2>3. CASE UNCHANGED vars
    BY <2>3 DEF vars, CapacityInv, Charged, Limbo, RunsWithin, Running
  <2> QED
    BY <2>1, <2>2, <2>3 DEF Next, Halted
<1> QED
  BY <1>1, <1>2, TypeCorrect, PTL DEF Spec

(* For any number of workers, requests, threads and faults, however spawns,*)
(* retirements, crashes and shutdown interleave, no more than maxWorkers   *)
(* Pi processes run that the daemon has not killed.                        *)
THEOREM Capacity == Spec => []ProcessesBounded
<1>1. TypeOK /\ CapacityInv => ProcessesBounded
  BY CapacitySuffices, WorkerPoolAssumption
<1> QED
  BY <1>1, CapacityInvariant, TypeCorrect, PTL

-----------------------------------------------------------------------------
(* Shutdown.                                                               *)

(* stopAll has been called and has not started yet.                        *)
Awaited == \E i \in DOMAIN lifecycle : lifecycle[i].op = "stopAll"

(* Once it is over there is no worker and no job at an await: what is      *)
(* queued then ends as it starts.                                          *)
StopInv ==
  /\ run.op = "stopAll" => run.pc = "stopAll"
  /\ stopped /\ run.op # "stopAll" /\ ~Awaited => workers = {} /\ run = NoJob

(* The queue as its head is taken, and as a job is added.                  *)
LEMMA TailAwaited ==
  ASSUME NEW op, TypeOK, Starts(op), op # "stopAll", Awaited
  PROVE  Awaited'
<1>1. lifecycle \in Seq(JobType) /\ lifecycle # <<>> /\ lifecycle' = Tail(lifecycle)
      /\ lifecycle[1].op = op
  BY DEF Starts, TypeOK
<1>2. PICK i \in DOMAIN lifecycle : lifecycle[i].op = "stopAll"
  BY DEF Awaited
<1>3. i # 1 /\ i - 1 \in DOMAIN lifecycle' /\ lifecycle'[i - 1] = lifecycle[i]
  BY <1>1, <1>2
<1> QED
  BY <1>2, <1>3 DEF Awaited

LEMMA AppendAwaited ==
  ASSUME TypeOK, NEW job \in JobType, lifecycle' = Append(lifecycle, job)
  PROVE  (Awaited \/ job.op = "stopAll") => Awaited'
<1>1. lifecycle \in Seq(JobType)
  BY DEF TypeOK
<1>2. /\ DOMAIN lifecycle' = 1..(Len(lifecycle) + 1) /\ DOMAIN lifecycle = 1..Len(lifecycle)
      /\ lifecycle'[Len(lifecycle) + 1] = job
      /\ \A i \in DOMAIN lifecycle : lifecycle'[i] = lifecycle[i]
  BY <1>1
<1> QED
  BY <1>1, <1>2 DEF Awaited

(* A job's await is of its own operation.                                  *)
LEMMA AwaitOp ==
  ASSUME NEW op, NEW p, NEW c, NEW w, NEW todo
  PROVE  /\ NoJob.op = "none"
         /\ [NoJob EXCEPT !.op = op, !.pc = p].op = op
         /\ [NoJob EXCEPT !.op = op, !.pc = p, !.client = c, !.worker = w].op = op
         /\ [NoJob EXCEPT !.op = op, !.pc = p, !.worker = w, !.todo = todo].op = op
  BY DEF NoJob

LEMMA SpawnOp ==
  ASSUME NEW op, NEW c, NEW dir, NEW ws, NEW wk, BeginSpawn(op, c, dir, ws, wk)
  PROVE  run'.op = op
<1>1. PICK w \in Forgotten :
        run' = [NoJob EXCEPT !.op = op, !.pc = "spawn", !.client = c, !.worker = w]
  BY Zenon DEF BeginSpawn
<1> QED
  BY <1>1, AwaitOp

LEMMA SpawnReservedOp ==
  ASSUME NEW op, NEW c, NEW ws, NEW timer, SpawnReserved(op, c, ws, timer)
  PROVE  run'.op \in {"none", op}
<1>1. CASE BeginSpawn(op, c, client[c].cwd, ws, worker)
  BY <1>1, SpawnOp
<1>2. CASE Reject(c)
  BY <1>2, AwaitOp DEF Reject
<1> QED
  BY <1>1, <1>2 DEF SpawnReserved

LEMMA SelectedOp ==
  ASSUME NEW op, NEW c, NEW w, Selected(op, c, w)
  PROVE  run'.op \in {"none", op}
<1>1. CASE run' = NoJob
  BY <1>1, AwaitOp
<1>2. CASE run' = [NoJob EXCEPT !.op = op, !.pc = "switch", !.client = c, !.worker = w]
  BY <1>2, AwaitOp
<1> QED
  BY <1>1, <1>2 DEF Selected, Grant

LEMMA SelectWorkerOp ==
  ASSUME NEW op, NEW c, NEW ws, NEW timer, SelectWorker(op, c, ws, timer)
  PROVE  run'.op \in {"none", op}
<1>1. CASE SpawnReserved(op, c, ws, timer)
  BY <1>1, SpawnReservedOp
<1>2. CASE Reject(c)
  BY <1>2, AwaitOp DEF Reject
<1>3. CASE \E w \in Reusable(ws, client[c].cwd) : Selected(op, c, w)
  BY <1>3, SelectedOp
<1>4. CASE \E v \in ws : run' = [NoJob EXCEPT !.op = op, !.pc = "victim", !.client = c, !.worker = v]
  BY <1>4, AwaitOp
<1> QED
  BY <1>1, <1>2, <1>3, <1>4, Zenon DEF SelectWorker

LEMMA MaintainOp ==
  ASSUME NEW op, NEW wk, MaintainLoop(op, wk)
  PROVE  run'.op \in {"none", op}
<1>1. CASE BeginSpawn(op, None, PrewarmCwd, workers, wk)
  BY <1>1, SpawnOp
<1>2. CASE run' = NoJob
  BY <1>2, AwaitOp
<1> QED
  BY <1>1, <1>2 DEF MaintainLoop

LEMMA ReapOp ==
  ASSUME NEW todo, NEW ws, ReapLoop(todo, ws)
  PROVE  run'.op \in {"none", "reap"}
<1>1. CASE run' = NoJob
  BY <1>1, AwaitOp
<1>2. CASE \E w \in todo : run' = [NoJob EXCEPT !.op = "reap", !.pc = "reap", !.worker = w,
                                                !.todo = todo \ {w}]
  BY <1>2, AwaitOp
<1> QED
  BY <1>1, <1>2, Zenon DEF ReapLoop

(* A job that starts after shutdown ends as it starts.                     *)
LEMMA StartStop ==
  ASSUME TypeOK, StopInv, NEW op, Starts(op), op # "stopAll", UNCHANGED stopped,
         run'.op # "stopAll", stopped => UNCHANGED workers /\ run' = NoJob
  PROVE  StopInv'
<1>1. run = NoJob /\ run.op # "stopAll"
  BY AwaitOp DEF Starts
<1>2. Awaited => Awaited'
  BY TailAwaited
<1> QED
  BY <1>1, <1>2 DEF StopInv

(* A job is not at an await after shutdown, and goes on as what it is.     *)
LEMMA ResumeStop ==
  ASSUME StopInv, UNCHANGED <<lifecycle, stopped>>, run.pc \notin {"free", "stopAll"},
         run.op # "stopAll" => run'.op # "stopAll"
  PROVE  StopInv'
<1>1. run.op # "stopAll" /\ run # NoJob
  BY DEF StopInv, NoJob
<1>2. ~(stopped /\ ~Awaited)
  BY <1>1 DEF StopInv
<1>3. Awaited' = Awaited
  BY DEF Awaited
<1> QED
  BY <1>1, <1>2, <1>3 DEF StopInv

(* The steps that start a job.                                             *)
LEMMA StartsStop ==
  ASSUME WorkerPoolAssumption, TypeOK, StopInv
  PROVE  /\ StartNew => StopInv'
         /\ StartSession => StopInv'
         /\ StartMaintain => StopInv'
         /\ StartReap => StopInv'
         /\ StartStopAll => StopInv'
<1>1. ASSUME StartNew PROVE StopInv'
  <2> DEFINE c == Head(lifecycle).client
  <2>1. Starts("new") /\ UNCHANGED stopped
    BY <1>1 DEF StartNew
  <2>2. CASE stopped
    <3>1. run' = NoJob /\ UNCHANGED workers
      BY <1>1, <2>2 DEF StartNew, Reject
    <3> QED
      BY <2>1, <3>1, StartStop, AwaitOp
  <2>3. CASE ~stopped
    <3>1. SelectWorker("new", c, workers, recoveryTimer)
      BY <1>1, <2>3 DEF StartNew
    <3>2. run'.op # "stopAll"
      BY <3>1, SelectWorkerOp
    <3> QED
      BY <2>1, <2>3, <3>2, StartStop
  <2> QED
    BY <2>2, <2>3
<1>2. ASSUME StartSession PROVE StopInv'
  <2> DEFINE c == Head(lifecycle).client
             assigned == FindByThread(client[c].thread)
  <2>1. Starts("session") /\ UNCHANGED stopped
    <3>1. Starts("session") /\ UNCHANGED <<stopped, started, persisted, faults>>
      BY <1>2, Zenon DEF StartSession
    <3> QED
      BY <3>1
  <2>2. CASE stopped /\ Reject(c) /\ UNCHANGED <<workers, worker, recoveryTimer>>
    <3>1. run' = NoJob
      BY <2>2 DEF Reject
    <3> QED
      BY <2>1, <2>2, <3>1, StartStop, AwaitOp
  <2>3. CASE ~stopped /\ SelectWorker("session", c, workers, recoveryTimer)
    <3>1. run'.op # "stopAll"
      BY <2>3, SelectWorkerOp
    <3> QED
      BY <2>1, <2>3, <3>1, StartStop
  <2>4. CASE ~stopped /\ \E w \in assigned :
               \/ Grant(c, w) \/ Reject(c)
               \/ run' = [NoJob EXCEPT !.op = "session", !.pc = "moved", !.client = c, !.worker = w]
    <3>1. PICK w \in assigned :
               \/ Grant(c, w) \/ Reject(c)
               \/ run' = [NoJob EXCEPT !.op = "session", !.pc = "moved", !.client = c, !.worker = w]
      BY <2>4, Zenon
    <3>2. run'.op # "stopAll"
      <4>1. CASE run' = NoJob
        BY <4>1, AwaitOp
      <4>2. CASE run' = [NoJob EXCEPT !.op = "session", !.pc = "moved", !.client = c, !.worker = w]
        BY <4>2, AwaitOp
      <4> QED
        BY <3>1, <4>1, <4>2, Zenon DEF Grant, Reject
    <3> QED
      BY <2>1, <2>4, <3>2, StartStop
  <2> QED
    BY <1>2, <2>2, <2>3, <2>4, Zenon DEF StartSession
<1>3. ASSUME StartMaintain PROVE StopInv'
  <2>1. PICK op \in {"start", "maintain"} : Starts(op)
    BY <1>3 DEF StartMaintain
  <2>2. Head(lifecycle).op = op /\ MaintainLoop(op, worker) /\ UNCHANGED stopped
    BY <1>3, <2>1 DEF StartMaintain, Starts
  <2>3. run'.op # "stopAll"
    BY <2>2, MaintainOp
  <2>4. stopped => UNCHANGED workers /\ run' = NoJob
    BY <2>2 DEF MaintainLoop
  <2> QED
    BY <2>1, <2>2, <2>3, <2>4, StartStop
<1>4. ASSUME StartReap PROVE StopInv'
  <2>1. Starts("reap") /\ UNCHANGED <<stopped, workers>>
    BY <1>4 DEF StartReap
  <2>2. CASE run' = NoJob
    BY <2>1, <2>2, StartStop, AwaitOp
  <2>3. CASE ~stopped /\ \E todo \in SUBSET {w \in workers : IsReclaimable(w)} : ReapLoop(todo, workers)
    <3>1. run'.op # "stopAll"
      BY <2>3, ReapOp
    <3> QED
      BY <2>1, <2>3, <3>1, StartStop
  <2> QED
    BY <1>4, <2>2, <2>3 DEF StartReap
<1>5. ASSUME StartStopAll PROVE StopInv'
  <2>1. run' = [NoJob EXCEPT !.op = "stopAll", !.pc = "stopAll"]
    BY <1>5 DEF StartStopAll
  <2>2. run'.op = "stopAll" /\ run'.pc = "stopAll"
    BY <2>1 DEF NoJob
  <2> QED
    BY <2>2 DEF StopInv
<1> QED
  BY <1>1, <1>2, <1>3, <1>4, <1>5

(* The steps that go on with a job, or end it.                             *)
LEMMA ResumesStop ==
  ASSUME WorkerPoolAssumption, TypeOK, StopInv
  PROVE  /\ SpawnSucceeds => StopInv'
         /\ VictimStopped => StopInv'
         /\ MovedStopped => StopInv'
         /\ ReapedStopped => StopInv'
         /\ SpawnFails \/ SwitchFails => StopInv'
         /\ SpawnAbandoned \/ SwitchSucceeds \/ UnswitchedStopped => StopInv'
         /\ AllStopped => StopInv'
<1>t. run \in RunType
  BY DEF TypeOK
<1>e. ASSUME NEW p, run' = [run EXCEPT !.pc = p] PROVE run'.op = run.op
  BY <1>t, <1>e DEF RunType
<1>1. ASSUME SpawnSucceeds PROVE StopInv'
  <2>1. UNCHANGED <<lifecycle, stopped>> /\ run.pc = "spawn"
    BY <1>1 DEF SpawnSucceeds
  <2>2. CASE run' = [run EXCEPT !.pc = "abandon"]
    BY <2>1, <2>2, <1>e, ResumeStop
  <2>3. CASE Selected(run.op, run.client, run.worker)
    BY <2>1, <2>3, SelectedOp, ResumeStop
  <2>4. CASE \E wk : MaintainLoop(run.op, wk)
    BY <2>1, <2>4, MaintainOp, ResumeStop
  <2> QED
    BY <1>1, <2>2, <2>3, <2>4 DEF SpawnSucceeds
<1>2. ASSUME VictimStopped PROVE StopInv'
  <2>1. UNCHANGED <<lifecycle, stopped>> /\ run.pc = "victim"
        /\ SpawnReserved(run.op, run.client, workers \ {run.worker}, recoveryTimer)
    BY <1>2 DEF VictimStopped
  <2>2. run'.op \in {"none", run.op}
    BY <2>1, SpawnReservedOp
  <2> QED
    BY <2>1, <2>2, ResumeStop
<1>3. ASSUME MovedStopped PROVE StopInv'
  <2> DEFINE ws == workers \ {run.worker}
  <2>1. UNCHANGED <<lifecycle, stopped>> /\ run.pc = "moved"
        /\ SelectWorker("session", run.client, ws, Scheduled(ws, recoveryTimer))
    BY <1>3 DEF MovedStopped
  <2>2. run'.op # "stopAll"
    BY <2>1, SelectWorkerOp
  <2> QED
    BY <2>1, <2>2, ResumeStop
<1>4. ASSUME ReapedStopped PROVE StopInv'
  <2>1. UNCHANGED <<lifecycle, stopped>> /\ run.pc = "reap" /\ ReapLoop(run.todo, workers')
    BY <1>4 DEF ReapedStopped
  <2>2. run'.op # "stopAll"
    BY <2>1, ReapOp
  <2> QED
    BY <2>1, <2>2, ResumeStop
<1>5. ASSUME SpawnFails \/ SwitchFails PROVE StopInv'
  <2>1. UNCHANGED <<lifecycle, stopped>> /\ run.pc \in {"spawn", "switch"}
    BY <1>5 DEF SpawnFails, SwitchFails
  <2>2. \/ run' = [run EXCEPT !.pc = "abandon"]
        \/ run' = [run EXCEPT !.pc = "unswitch"]
        \/ run' = NoJob
    <3>1. CASE SpawnFails
      BY <3>1, Zenon DEF SpawnFails
    <3>2. CASE SwitchFails
      BY <3>2, Zenon DEF SwitchFails, Reject
    <3> QED
      BY <1>5, <3>1, <3>2
  <2>3. run'.op \in {"none", run.op}
    <3>1. CASE run' = NoJob
      BY <3>1, AwaitOp
    <3> QED
      BY <2>2, <3>1, <1>e
  <2> QED
    BY <2>1, <2>3, ResumeStop
<1>6. ASSUME SpawnAbandoned \/ SwitchSucceeds \/ UnswitchedStopped PROVE StopInv'
  <2>1. UNCHANGED <<lifecycle, stopped>> /\ run.pc \in {"abandon", "switch", "unswitch"}
    BY <1>6 DEF SpawnAbandoned, SwitchSucceeds, UnswitchedStopped
  <2>2. run' = NoJob
    BY <1>6 DEF SpawnAbandoned, SwitchSucceeds, UnswitchedStopped, Reject, Grant
  <2> QED
    BY <2>1, <2>2, AwaitOp, ResumeStop
<1>7. ASSUME AllStopped PROVE StopInv'
  <2>1. workers' = {} /\ run' = NoJob
    BY <1>7 DEF AllStopped
  <2> QED
    BY <2>1, AwaitOp DEF StopInv
<1> QED
  BY <1>1, <1>2, <1>3, <1>4, <1>5, <1>6, <1>7

(* Everything else leaves the running job alone and adds no worker.        *)
LEMMA QuietStop ==
  ASSUME StopInv, UNCHANGED <<lifecycle, run, stopped>>, workers' \subseteq workers
  PROVE  StopInv'
  BY DEF StopInv, Awaited

(* A job is added, perhaps by the call of stopAll itself.                  *)
LEMMA EnqueueStop ==
  ASSUME TypeOK, StopInv, UNCHANGED <<run, workers>>,
         NEW job \in JobType, lifecycle' = Append(lifecycle, job),
         UNCHANGED stopped \/ job.op = "stopAll"
  PROVE  StopInv'
<1>1. (Awaited \/ job.op = "stopAll") => Awaited'
  BY AppendAwaited
<1> QED
  BY <1>1 DEF StopInv

LEMMA OutsideStepStop ==
  ASSUME WorkerPoolAssumption, TypeOK, StopInv,
         \/ TimerStep
         \/ \E w \in Worker : ProcessStep(w)
         \/ \E c \in Client : RequestStep(c) \/ UseStep(c)
         \/ \E t \in Thread : Persist(t)
         \/ UNCHANGED vars
  PROVE  StopInv'
<1>1. CASE TimerStep
  <2>1. PICK op \in {"maintain", "reap", "stopAll"} :
          /\ UNCHANGED <<run, workers>>
          /\ lifecycle' = Append(lifecycle, Job(op, None))
          /\ UNCHANGED stopped \/ op = "stopAll"
    BY <1>1 DEF TimerStep, RecoveryTimerFires, ReaperTicks, StopAll
  <2>2. Job(op, None) \in JobType /\ Job(op, None).op = op
    BY DEF Job, JobType
  <2> QED
    BY <2>1, <2>2, EnqueueStop
<1>2. ASSUME NEW w \in Worker, ProcessStep(w) PROVE StopInv'
  <2>1. CASE Close(w)
    <3>1. UNCHANGED <<lifecycle, run, stopped>>
      BY <2>1 DEF Close
    <3>2. workers' \subseteq workers
      BY <2>1 DEF Close
    <3> QED
      BY <3>1, <3>2, QuietStop
  <2>2. CASE ~Close(w)
    <3>1. UNCHANGED <<lifecycle, run, stopped, workers>>
      BY <1>2, <2>2 DEF ProcessStep, Escalate, CommandTimesOut, AgentStart, AgentSettled
    <3> QED
      BY <3>1, QuietStop
  <2> QED
    BY <2>1, <2>2
<1>3. ASSUME NEW c \in Client, RequestStep(c) PROVE StopInv'
  <2>1. ASSUME NEW op \in {"new", "session"}, UNCHANGED <<run, workers, stopped>>,
               lifecycle' = Append(lifecycle, Job(op, c))
        PROVE  StopInv'
    <3>1. Job(op, c) \in JobType
      BY DEF Job, JobType
    <3> QED
      BY <2>1, <3>1, EnqueueStop
  <2>2. ASSUME NEW dir \in Cwd, RequestNew(c, dir) PROVE StopInv'
    BY <2>1, <2>2 DEF RequestNew
  <2>3. ASSUME NEW t \in Thread, NEW kind \in {"read", "turn", "mutate"},
               NEW dir \in Cwd, RequestSession(c, t, dir, kind)
        PROVE  StopInv'
    BY <2>1, <2>3 DEF RequestSession
  <2>4. ASSUME NEW t \in Thread, NEW kind \in {"read", "turn", "mutate"}, RetainOwner(c, t, kind)
        PROVE  StopInv'
    BY <2>4, QuietStop DEF RetainOwner
  <2>5. ASSUME NEW kind \in {"steer", "abort"}, BeginCommand(c, kind) PROVE StopInv'
    BY <2>5, QuietStop DEF BeginCommand
  <2> QED
    BY <1>3, <2>2, <2>3, <2>4, <2>5 DEF RequestStep
<1>4. ASSUME NEW c \in Client, UseStep(c) PROVE StopInv'
  <2>1. ASSUME NEW t \in Thread, StartThread(c, t) \/ Fork(c, t) PROVE StopInv'
    BY <2>1, QuietStop DEF StartThread, Fork
  <2>2. CASE StartTurn(c) \/ EndTurn(c) \/ BeginMutation(c) \/ ReleaseHeld(c)
             \/ CommandReturns(c) \/ FinishAbort(c)
    <3>1. UNCHANGED <<lifecycle, run, stopped, workers>>
      BY <2>2 DEF StartTurn, EndTurn, BeginMutation, ReleaseHeld, CommandReturns, FinishAbort
    <3> QED
      BY <3>1, QuietStop
  <2> QED
    BY <1>4, <2>1, <2>2 DEF UseStep
<1>5. ASSUME NEW t \in Thread, Persist(t) PROVE StopInv'
  BY <1>5, QuietStop DEF Persist
<1>6. CASE UNCHANGED vars
  BY <1>6, QuietStop DEF vars
<1> QED
  BY <1>1, <1>2, <1>3, <1>4, <1>5, <1>6

(* For any number of workers and requests, and whatever was being spawned  *)
(* or was queued when stopAll was called: once it has run, the Map is      *)
(* empty, no process runs that the daemon has not killed, and it stays so. *)
THEOREM StopsForGood == Spec => []StoppedForGood
<1> USE WorkerPoolAssumption
<1>1. Init => StopInv
  BY DEF Init, StopInv, NoJob
<1>2. TypeOK /\ StopInv /\ [Next]_vars => StopInv'
  <2> SUFFICES ASSUME TypeOK, StopInv, [Next]_vars PROVE StopInv'
    OBVIOUS
  <2> QED
    BY StartsStop, ResumesStop, OutsideStepStop DEF Next, JobStep, Halted
<1>3. CapacityInv /\ StopInv => StoppedForGood
  BY DEF CapacityInv, Charged, Limbo, RunsWithin, Running, StopInv, Awaited, StoppedForGood, NoJob
<1> QED
  BY <1>1, <1>2, <1>3, TypeCorrect, CapacityInvariant, PTL DEF Spec

-----------------------------------------------------------------------------
(* Recovery of the minimum.                                                *)

Queued(op) == \E i \in DOMAIN lifecycle : lifecycle[i].op = op

(* Someone is going to look at the minimum: the timer, a job that          *)
(* maintains it, or one that schedules recovery as it ends.                *)
Attended ==
  \/ recoveryTimer
  \/ Queued("maintain") \/ run.op = "maintain"
  \/ run.pc \in {"reap", "abandon"}

Short(ws) == Cardinality(ws) < Target

(* start() is the first job and the only one of its kind, spawn is called  *)
(* by four of the jobs, and stopAll stops the pool before it queues.       *)
RecoveryInv ==
  /\ \A i \in DOMAIN lifecycle : lifecycle[i].op = "start" => i = 1 /\ run = NoJob /\ ~started
  /\ run.op = "start" => ~started
  /\ run.pc = "spawn" => run.op \in {"new", "session", "start", "maintain"}
  /\ Queued("stopAll") \/ run.op = "stopAll" \/ run.pc = "stopAll" => stopped
  /\ started /\ ~stopped /\ Short(workers) => Attended

(* The queue as its head is taken, and as a job is added.                  *)
LEMMA QueueTail ==
  ASSUME TypeOK, NEW op, Starts(op)
  PROVE  /\ Queued(op)
         /\ \A x : Queued(x)' => Queued(x)
         /\ \A x : Queued(x) /\ x # op => Queued(x)'
         /\ RecoveryInv => ~Queued("start")'
<1>1. lifecycle \in Seq(JobType) /\ lifecycle # <<>> /\ lifecycle' = Tail(lifecycle)
      /\ lifecycle[1].op = op
  BY DEF Starts, TypeOK
<1>2. /\ DOMAIN lifecycle = 1..Len(lifecycle) /\ Len(lifecycle) \in Nat \ {0}
      /\ DOMAIN lifecycle' = 1..(Len(lifecycle) - 1)
      /\ \A i \in 1..(Len(lifecycle) - 1) : lifecycle'[i] = lifecycle[i + 1]
  BY <1>1
<1>3. \A i \in DOMAIN lifecycle' : i + 1 \in DOMAIN lifecycle /\ i + 1 # 1
                                   /\ lifecycle'[i] = lifecycle[i + 1]
  BY <1>2
<1>4. \A i \in DOMAIN lifecycle : i # 1 => i - 1 \in DOMAIN lifecycle'
                                           /\ lifecycle'[i - 1] = lifecycle[i]
  BY <1>2
<1>5. 1 \in DOMAIN lifecycle
  BY <1>2
<1>6. \A x : Queued(x)' => Queued(x)
  BY <1>3 DEF Queued
<1>7. \A x : Queued(x) /\ x # op => Queued(x)'
  BY <1>1, <1>4 DEF Queued
<1>8. RecoveryInv => ~Queued("start")'
  BY <1>3 DEF Queued, RecoveryInv
<1> QED
  BY <1>1, <1>5, <1>6, <1>7, <1>8 DEF Queued

LEMMA QueueAppend ==
  ASSUME TypeOK, NEW job, lifecycle' = Append(lifecycle, job)
  PROVE  /\ \A x : Queued(x)' <=> Queued(x) \/ job.op = x
         /\ RecoveryInv /\ UNCHANGED <<run, started>> /\ job.op # "start" =>
              \A i \in DOMAIN lifecycle' :
                lifecycle'[i].op = "start" => i = 1 /\ run' = NoJob /\ ~started'
<1>1. lifecycle \in Seq(JobType)
  BY DEF TypeOK
<1>2. /\ DOMAIN lifecycle' = DOMAIN lifecycle \cup {Len(lifecycle) + 1}
      /\ lifecycle'[Len(lifecycle) + 1] = job
      /\ \A i \in DOMAIN lifecycle : lifecycle'[i] = lifecycle[i]
  BY <1>1
<1> QED
  BY <1>2 DEF Queued, RecoveryInv

(* Spawning takes a new object into the Map; selecting leaves all in it.   *)
LEMMA CardGrows ==
  ASSUME WorkerPoolAssumption, NEW S \in SUBSET Worker, NEW T \in SUBSET S
  PROVE  Short(S) => Short(T)
  BY CardMonotone DEF Short, Target, WorkerPoolAssumption

LEMMA CardReplaced ==
  ASSUME WorkerPoolAssumption, NEW S \in SUBSET Worker, NEW v, NEW w \in Worker \ S
  PROVE  Short((S \ {v}) \cup {w}) => Short(S)
<1> DEFINE T == S \ {v}
<1>1. IsFiniteSet(S) /\ IsFiniteSet(T) /\ Cardinality(S) \in Nat /\ Cardinality(T) \in Nat
  BY CardMonotone
<1>2. Cardinality(T \cup {w}) = Cardinality(T) + 1
  BY <1>1, FS_AddElement
<1>3. Cardinality(S) <= Cardinality(T) + 1
  <2>1. Cardinality(T) = IF v \in S THEN Cardinality(S) - 1 ELSE Cardinality(S)
    BY <1>1, FS_RemoveElement
  <2> QED
    BY <1>1, <2>1
<1> QED
  BY <1>1, <1>2, <1>3 DEF Short, Target, WorkerPoolAssumption

(* The minimum is looked at, or nobody has to.                             *)
Minded(ws, timer) == started /\ ~stopped /\ Short(ws) => timer

LEMMA ScheduledMinds ==
  ASSUME NEW ws, NEW timer PROVE Minded(ws, Scheduled(ws, timer))
  BY DEF Minded, Scheduled, Short

(* Selecting a worker leaves the minimum looked at, or no worse than it    *)
(* was: it takes no worker off the Map.                                    *)
LEMMA SpawnReservedMinds ==
  ASSUME WorkerPoolAssumption, TypeOK, NEW op \in {"new", "session"}, NEW c, NEW timer,
         NEW ws \in SUBSET workers, SpawnReserved(op, c, ws, timer)
  PROVE  /\ run'.op # "start" /\ run'.op # "stopAll" /\ run'.pc # "stopAll"
         /\ run'.pc = "spawn" => run'.op \in {"new", "session"}
         /\ timer => recoveryTimer'
         /\ \/ ~stopped /\ \E w \in Worker \ workers : workers' = ws \cup {w}
            \/ Minded(workers', recoveryTimer')
<1>1. CASE /\ ~stopped
           /\ BeginSpawn(op, c, client[c].cwd, ws, worker)
           /\ recoveryTimer' = timer
  <2>1. PICK w \in Forgotten :
          /\ workers' = ws \cup {w}
          /\ run' = [NoJob EXCEPT !.op = op, !.pc = "spawn", !.client = c, !.worker = w]
    BY <1>1, Zenon DEF BeginSpawn
  <2>2. run'.op = op /\ run'.pc = "spawn"
    BY <2>1 DEF NoJob
  <2>3. w \in Worker \ workers
    BY DEF Forgotten
  <2> QED
    BY <1>1, <2>1, <2>2, <2>3
<1>2. CASE /\ Reject(c)
           /\ workers' = ws
           /\ recoveryTimer' = Scheduled(ws, timer)
  <2>1. run' = NoJob
    BY <1>2 DEF Reject
  <2> QED
    BY <1>2, <2>1, ScheduledMinds DEF Scheduled, NoJob
<1> QED
  BY <1>1, <1>2, Zenon DEF SpawnReserved

LEMMA SelectedPc ==
  ASSUME NEW op, NEW c, NEW w, Selected(op, c, w)
  PROVE  run'.op \in {"none", op} /\ run'.pc \notin {"spawn", "reap", "abandon", "stopAll"}
<1>1. CASE run' = NoJob
  BY <1>1 DEF NoJob
<1>2. CASE run' = [NoJob EXCEPT !.op = op, !.pc = "switch", !.client = c, !.worker = w]
  BY <1>2 DEF NoJob
<1> QED
  BY <1>1, <1>2 DEF Selected, Grant

LEMMA SelectWorkerMinds ==
  ASSUME WorkerPoolAssumption, TypeOK, NEW op \in {"new", "session"}, NEW c, NEW timer,
         NEW ws \in SUBSET workers, SelectWorker(op, c, ws, timer)
  PROVE  /\ run'.op # "start" /\ run'.op # "stopAll" /\ run'.pc # "stopAll"
         /\ run'.pc = "spawn" => run'.op \in {"new", "session"}
         /\ timer => recoveryTimer'
         /\ \/ \E w \in Worker \ workers : workers' = ws \cup {w}
            \/ workers' = ws
<1>1. CASE SpawnReserved(op, c, ws, timer)
  <2>1. workers' = ws \/ \E w \in Worker \ workers : workers' = ws \cup {w}
    BY <1>1, Zenon DEF SpawnReserved, BeginSpawn, Forgotten
  <2> QED
    BY <1>1, <2>1, SpawnReservedMinds
<1>2. CASE workers' = ws /\ recoveryTimer' = timer /\ Reject(c)
  BY <1>2 DEF Reject, NoJob
<1>3. CASE workers' = ws /\ recoveryTimer' = timer /\ \E w \in Reusable(ws, client[c].cwd) : Selected(op, c, w)
  BY <1>3, SelectedPc
<1>4. CASE /\ workers' = ws /\ recoveryTimer' = timer
           /\ \E v \in ws : run' = [NoJob EXCEPT !.op = op, !.pc = "victim", !.client = c, !.worker = v]
  BY <1>4 DEF NoJob
<1> QED
  BY <1>1, <1>2, <1>3, <1>4, Zenon DEF SelectWorker

(* The loop of maintainMinimum stops at the minimum, or with a timer.      *)
LEMMA MaintainMinds ==
  ASSUME TypeOK, NEW op \in {"start", "maintain"}, NEW wk, MaintainLoop(op, wk),
         op = "start" => ~started, UNCHANGED <<recoveryTimer, stopped>>,
         ~Queued("start")', Queued("stopAll")' => stopped
  PROVE  RecoveryInv'
<1>q. \A i \in DOMAIN lifecycle' : lifecycle'[i].op # "start"
  BY DEF Queued
<1>1. CASE BeginSpawn(op, None, PrewarmCwd, workers, wk) /\ UNCHANGED started
  <2>1. PICK w \in Forgotten :
          run' = [NoJob EXCEPT !.op = op, !.pc = "spawn", !.client = None, !.worker = w]
    BY <1>1, Zenon DEF BeginSpawn
  <2>2. run'.op = op /\ run'.pc = "spawn"
    BY <2>1 DEF NoJob
  <2>3. started' /\ ~stopped' /\ Short(workers') => Attended'
    BY <1>1, <2>2 DEF Attended
  <2> QED
    BY <1>1, <1>q, <2>2, <2>3 DEF RecoveryInv
<1>2. CASE /\ ~(~stopped /\ ~recoveryTimer /\ Cardinality(workers) < Target)
           /\ run' = NoJob
           /\ UNCHANGED workers
  <2>1. started' /\ ~stopped' /\ Short(workers') => Attended'
    BY <1>2 DEF Attended, Short
  <2> QED
    BY <1>2, <1>q, <2>1 DEF RecoveryInv, NoJob
<1> QED
  BY <1>1, <1>2, Zenon DEF MaintainLoop

LEMMA ReapLoopMinds ==
  ASSUME NEW todo, NEW ws, ReapLoop(todo, ws)
  PROVE  /\ run'.op \in {"none", "reap"}
         /\ run'.pc \notin {"spawn", "stopAll"}
         /\ recoveryTimer => recoveryTimer'
         /\ run'.pc = "reap" \/ Minded(ws, recoveryTimer')
<1>1. CASE run' = NoJob /\ recoveryTimer' = Scheduled(ws, recoveryTimer)
  BY <1>1, ScheduledMinds DEF NoJob, Scheduled
<1>2. CASE /\ \E w \in todo : run' = [NoJob EXCEPT !.op = "reap", !.pc = "reap", !.worker = w,
                                                   !.todo = todo \ {w}]
           /\ UNCHANGED recoveryTimer
  BY <1>2 DEF NoJob
<1> QED
  BY <1>1, <1>2, Zenon DEF ReapLoop

(* A job other than those two starts.                                      *)
LEMMA StartMinds ==
  ASSUME TypeOK, RecoveryInv, NEW op, Starts(op), op \notin {"start", "maintain"},
         UNCHANGED <<stopped, started>>, recoveryTimer => recoveryTimer',
         ~stopped /\ Short(workers') => Short(workers),
         run'.op # "start", run'.op = "stopAll" \/ run'.pc = "stopAll" => op = "stopAll",
         run'.pc = "spawn" => run'.op \in {"new", "session", "start", "maintain"}
  PROVE  RecoveryInv'
<1>1. run.op = "none" /\ run.pc = "free"
  BY DEF Starts, NoJob
<1>2. ~Queued("start")' /\ Queued(op) /\ (Queued("stopAll")' => Queued("stopAll"))
      /\ (Queued("maintain") => Queued("maintain")')
  BY QueueTail
<1>3. \A i \in DOMAIN lifecycle' : lifecycle'[i].op # "start"
  BY <1>2 DEF Queued
<1>4. Queued("stopAll")' \/ run'.op = "stopAll" \/ run'.pc = "stopAll" => stopped'
  BY <1>2 DEF RecoveryInv
<1>5. started' /\ ~stopped' /\ Short(workers') => Attended'
  BY <1>1, <1>2 DEF RecoveryInv, Attended
<1> QED
  BY <1>3, <1>4, <1>5 DEF RecoveryInv

(* A job goes on, or ends.                                                 *)
LEMMA ResumeMinds ==
  ASSUME RecoveryInv, run.pc # "free", UNCHANGED <<lifecycle, stopped, started>>,
         run'.op = "start" => run.op = "start", run'.op = "stopAll" => run.op = "stopAll",
         run'.pc # "stopAll",
         run'.pc = "spawn" => run'.op \in {"new", "session", "start", "maintain"},
         started /\ ~stopped /\ Short(workers') =>
            recoveryTimer' \/ run'.op = "maintain" \/ run'.pc \in {"reap", "abandon"}
              \/ Queued("maintain")
  PROVE  RecoveryInv'
<1>1. run # NoJob
  BY DEF NoJob
<1>2. \A x : Queued(x)' <=> Queued(x)
  BY DEF Queued
<1>3. \A i \in DOMAIN lifecycle' : lifecycle'[i].op # "start"
  BY <1>1 DEF RecoveryInv
<1>4. Queued("stopAll")' \/ run'.op = "stopAll" \/ run'.pc = "stopAll" => stopped'
  BY <1>2 DEF RecoveryInv
<1>5. started' /\ ~stopped' /\ Short(workers') => Attended'
  BY <1>2 DEF Attended
<1> QED
  BY <1>3, <1>4, <1>5 DEF RecoveryInv

(* The steps that start a job.                                             *)
LEMMA StartsRecovery ==
  ASSUME WorkerPoolAssumption, TypeOK, RecoveryInv
  PROVE  /\ StartNew => RecoveryInv'
         /\ StartSession => RecoveryInv'
         /\ StartMaintain => RecoveryInv'
         /\ StartReap => RecoveryInv'
         /\ StartStopAll => RecoveryInv'
<1>t. workers \in SUBSET Worker
  BY DEF TypeOK
<1>g. ASSUME NEW w \in Worker, workers' = workers \cup {w}
      PROVE  Short(workers') => Short(workers)
  <2>1. workers \cup {w} \in SUBSET Worker /\ workers \in SUBSET (workers \cup {w})
    BY <1>t
  <2> QED
    BY <1>g, <2>1, CardGrows
<1>s. ASSUME NEW op \in {"new", "session"}, NEW c, Starts(op), UNCHANGED <<stopped, started>>,
             SelectWorker(op, c, workers, recoveryTimer)
      PROVE  RecoveryInv'
  <2>1. /\ run'.op # "start" /\ run'.op # "stopAll" /\ run'.pc # "stopAll"
        /\ run'.pc = "spawn" => run'.op \in {"new", "session"}
        /\ recoveryTimer => recoveryTimer'
        /\ \/ \E w \in Worker \ workers : workers' = workers \cup {w}
           \/ workers' = workers
    BY <1>s, SelectWorkerMinds
  <2>2. Short(workers') => Short(workers)
    BY <2>1, <1>g
  <2> QED
    BY <1>s, <2>1, <2>2, StartMinds
<1>r. ASSUME NEW op, op \notin {"start", "maintain"}, Starts(op),
             UNCHANGED <<workers, recoveryTimer, stopped, started>>, run' = NoJob
      PROVE  RecoveryInv'
  <2>1. run'.op = "none" /\ run'.pc = "free"
    BY <1>r DEF NoJob
  <2> QED
    BY <1>r, <2>1, StartMinds
<1>1. ASSUME StartNew PROVE RecoveryInv'
  <2> DEFINE c == Head(lifecycle).client
  <2>1. Starts("new") /\ UNCHANGED <<stopped, started>>
    BY <1>1 DEF StartNew
  <2>2. CASE Reject(c) /\ UNCHANGED <<workers, worker, recoveryTimer>>
    BY <2>1, <2>2, <1>r DEF Reject
  <2>3. CASE SelectWorker("new", c, workers, recoveryTimer)
    BY <2>1, <2>3, <1>s
  <2> QED
    BY <1>1, <2>2, <2>3, Zenon DEF StartNew
<1>2. ASSUME StartSession PROVE RecoveryInv'
  <2> DEFINE c == Head(lifecycle).client
             assigned == FindByThread(client[c].thread)
  <2>1. Starts("session") /\ UNCHANGED <<stopped, started>>
    <3>1. Starts("session") /\ UNCHANGED <<stopped, started, persisted, faults>>
      BY <1>2, Zenon DEF StartSession
    <3> QED
      BY <3>1
  <2>2. CASE Reject(c) /\ UNCHANGED <<workers, worker, recoveryTimer>>
    BY <2>1, <2>2, <1>r DEF Reject
  <2>3. CASE SelectWorker("session", c, workers, recoveryTimer)
    BY <2>1, <2>3, <1>s
  <2>4. CASE /\ \E w \in assigned :
                  \/ Grant(c, w) \/ Reject(c)
                  \/ run' = [NoJob EXCEPT !.op = "session", !.pc = "moved", !.client = c, !.worker = w]
             /\ UNCHANGED <<workers, recoveryTimer>>
    <3>1. run'.op \in {"none", "session"} /\ run'.pc \notin {"spawn", "stopAll"}
      <4>1. CASE run' = NoJob
        BY <4>1 DEF NoJob
      <4>2. CASE \E w : run' = [NoJob EXCEPT !.op = "session", !.pc = "moved", !.client = c, !.worker = w]
        BY <4>2 DEF NoJob
      <4> QED
        BY <2>4, <4>1, <4>2, Zenon DEF Grant, Reject
    <3> QED
      BY <2>1, <2>4, <3>1, StartMinds
  <2> QED
    BY <1>2, <2>2, <2>3, <2>4, Zenon DEF StartSession
<1>3. ASSUME StartMaintain PROVE RecoveryInv'
  <2>1. PICK op \in {"start", "maintain"} : Starts(op)
    BY <1>3 DEF StartMaintain
  <2>2. Head(lifecycle).op = op /\ MaintainLoop(op, worker)
        /\ UNCHANGED <<recoveryTimer, stopped>>
    BY <1>3, <2>1 DEF StartMaintain, Starts
  <2>3. ~Queued("start")' /\ (Queued("stopAll")' => stopped) /\ Queued(op)
    BY <2>1, QueueTail DEF RecoveryInv
  <2>4. op = "start" => ~started
    BY <2>3 DEF Queued, RecoveryInv
  <2> QED
    BY <2>2, <2>3, <2>4, MaintainMinds
<1>4. ASSUME StartReap PROVE RecoveryInv'
  <2>1. Starts("reap") /\ UNCHANGED <<stopped, started, workers>>
    BY <1>4 DEF StartReap
  <2>2. CASE run' = NoJob /\ UNCHANGED recoveryTimer
    BY <2>1, <2>2, <1>r
  <2>3. CASE \E todo \in SUBSET {w \in workers : IsReclaimable(w)} : ReapLoop(todo, workers)
    <3>1. /\ run'.op \in {"none", "reap"}
          /\ run'.pc \notin {"spawn", "stopAll"}
          /\ recoveryTimer => recoveryTimer'
      BY <2>3, ReapLoopMinds
    <3> QED
      BY <2>1, <3>1, StartMinds
  <2> QED
    BY <1>4, <2>2, <2>3 DEF StartReap
<1>5. ASSUME StartStopAll PROVE RecoveryInv'
  <2>1. run' = [NoJob EXCEPT !.op = "stopAll", !.pc = "stopAll"]
        /\ Starts("stopAll") /\ UNCHANGED <<stopped, started, workers, recoveryTimer>>
    BY <1>5 DEF StartStopAll
  <2>2. run'.op = "stopAll" /\ run'.pc = "stopAll"
    BY <2>1 DEF NoJob
  <2> QED
    BY <2>1, <2>2, StartMinds
<1> QED
  BY <1>1, <1>2, <1>3, <1>4, <1>5

(* The steps that go on with a job, or end it.                             *)
LEMMA ResumesRecovery ==
  ASSUME WorkerPoolAssumption, TypeOK, RecoveryInv
  PROVE  /\ SpawnSucceeds => RecoveryInv'
         /\ SpawnFails => RecoveryInv'
         /\ SpawnAbandoned => RecoveryInv'
         /\ VictimStopped => RecoveryInv'
         /\ MovedStopped => RecoveryInv'
         /\ ReapedStopped => RecoveryInv'
         /\ SwitchSucceeds \/ SwitchFails => RecoveryInv'
         /\ UnswitchedStopped => RecoveryInv'
         /\ AllStopped => RecoveryInv'
<1>t. workers \in SUBSET Worker /\ run \in RunType
  BY DEF TypeOK
<1>o. run.pc \in {"victim", "moved", "switch", "unswitch"} => run.op \in {"new", "session"}
  BY DEF TypeOK
<1>p. ASSUME NEW p, run' = [run EXCEPT !.pc = p] PROVE run'.op = run.op /\ run'.pc = p
  BY <1>t, <1>p DEF RunType
<1>n. run' = NoJob => run'.op = "none" /\ run'.pc = "free"
  BY DEF NoJob
<1>1. ASSUME SpawnSucceeds PROVE RecoveryInv'
  <2> DEFINE up == [worker EXCEPT ![run.worker] =
                      [worker[run.worker] EXCEPT !.proc = "live", !.state = "idle"]]
  <2>1. UNCHANGED <<lifecycle, recoveryTimer, stopped>> /\ run.pc = "spawn"
    BY <1>1 DEF SpawnSucceeds
  <2>q. ~Queued("start")' /\ (Queued("stopAll")' => stopped)
    BY <2>1 DEF RecoveryInv, Queued, NoJob
  <2>2. CASE stopped /\ run' = [run EXCEPT !.pc = "abandon"] /\ UNCHANGED started
    <3>1. run'.op = run.op /\ run'.pc = "abandon"
      BY <2>2, <1>p
    <3> QED
      BY <2>1, <2>2, <3>1, ResumeMinds
  <2>3. CASE /\ run.op \in {"new", "session"}
             /\ Selected(run.op, run.client, run.worker)
             /\ UNCHANGED <<workers, started>>
    <3>1. run'.op \in {"none", run.op} /\ run'.pc \notin {"spawn", "reap", "abandon", "stopAll"}
      BY <2>3, SelectedPc
    <3>2. started /\ ~stopped /\ Short(workers') => recoveryTimer' \/ Queued("maintain")
      BY <2>1, <2>3 DEF RecoveryInv, Attended
    <3> QED
      BY <2>1, <2>3, <3>1, <3>2, ResumeMinds
  <2>4. CASE /\ run.op \notin {"new", "session"}
             /\ MaintainLoop(run.op, up)
    <3>1. run.op \in {"start", "maintain"} /\ (run.op = "start" => ~started)
      BY <2>1, <2>4 DEF RecoveryInv
    <3> HIDE DEF up
    <3> QED
      BY <2>1, <2>4, <2>q, <3>1, MaintainMinds
  <2> QED
    BY <1>1, <2>2, <2>3, <2>4, Zenon DEF SpawnSucceeds
<1>2. ASSUME SpawnFails PROVE RecoveryInv'
  <2>1. /\ UNCHANGED <<lifecycle, stopped, started>> /\ run.pc = "spawn"
        /\ run' = [run EXCEPT !.pc = "abandon"]
    BY <1>2 DEF SpawnFails
  <2>2. run'.op = run.op /\ run'.pc = "abandon"
    BY <2>1, <1>p
  <2> QED
    BY <2>1, <2>2, ResumeMinds
<1>3. ASSUME SpawnAbandoned PROVE RecoveryInv'
  <2>1. /\ UNCHANGED <<lifecycle, stopped, started, workers>> /\ run.pc = "abandon"
        /\ run' = NoJob
        /\ recoveryTimer' = IF run.op = "start" THEN recoveryTimer
                            ELSE Scheduled(workers, recoveryTimer)
    BY <1>3 DEF SpawnAbandoned, Reject
  <2>2. started /\ ~stopped /\ Short(workers') => recoveryTimer'
    BY <2>1, ScheduledMinds DEF RecoveryInv, Minded
  <2> QED
    BY <2>1, <2>2, <1>n, ResumeMinds
<1>4. ASSUME VictimStopped PROVE RecoveryInv'
  <2> DEFINE ws == workers \ {run.worker}
  <2>1. /\ UNCHANGED <<lifecycle, stopped, started>> /\ run.pc = "victim"
        /\ SpawnReserved(run.op, run.client, ws, recoveryTimer)
    BY <1>4 DEF VictimStopped
  <2>2. /\ run'.op # "start" /\ run'.op # "stopAll" /\ run'.pc # "stopAll"
        /\ run'.pc = "spawn" => run'.op \in {"new", "session"}
        /\ recoveryTimer => recoveryTimer'
        /\ \/ ~stopped /\ \E w \in Worker \ workers : workers' = ws \cup {w}
           \/ Minded(workers', recoveryTimer')
    BY <2>1, <1>o, SpawnReservedMinds
  <2>3. started /\ ~stopped /\ Short(workers') => recoveryTimer' \/ Queued("maintain")
    <3>1. CASE \E w \in Worker \ workers : workers' = ws \cup {w}
      <4>1. Short(workers') => Short(workers)
        BY <1>t, <3>1, CardReplaced
      <4> QED
        BY <2>1, <2>2, <4>1, <1>o DEF RecoveryInv, Attended
    <3>2. CASE Minded(workers', recoveryTimer')
      BY <3>2 DEF Minded
    <3> QED
      BY <2>2, <3>1, <3>2
  <2> QED
    BY <2>1, <2>2, <2>3, ResumeMinds
<1>5. ASSUME MovedStopped PROVE RecoveryInv'
  <2> DEFINE ws == workers \ {run.worker}
             timer == Scheduled(ws, recoveryTimer)
  <2>1. /\ UNCHANGED <<lifecycle, stopped, started>> /\ run.pc = "moved"
        /\ SelectWorker("session", run.client, ws, timer)
    BY <1>5 DEF MovedStopped
  <2>2. /\ run'.op # "start" /\ run'.op # "stopAll" /\ run'.pc # "stopAll"
        /\ run'.pc = "spawn" => run'.op \in {"new", "session"}
        /\ timer => recoveryTimer'
        /\ \/ \E w \in Worker \ workers : workers' = ws \cup {w}
           \/ workers' = ws
    BY <2>1, SelectWorkerMinds
  <2>3. Short(workers') => Short(ws)
    <3>1. ASSUME NEW w \in Worker, workers' = ws \cup {w} PROVE Short(workers') => Short(ws)
      <4>1. ws \cup {w} \in SUBSET Worker /\ ws \in SUBSET (ws \cup {w})
        BY <1>t
      <4> HIDE DEF ws
      <4> QED
        BY <3>1, <4>1, CardGrows
    <3> QED
      BY <2>2, <3>1
  <2>4. started /\ ~stopped /\ Short(workers') => recoveryTimer'
    BY <2>2, <2>3, ScheduledMinds DEF Minded
  <2> QED
    BY <2>1, <2>2, <2>4, ResumeMinds
<1>6. ASSUME ReapedStopped PROVE RecoveryInv'
  <2>1. UNCHANGED <<lifecycle, stopped, started>> /\ run.pc = "reap" /\ ReapLoop(run.todo, workers')
    BY <1>6 DEF ReapedStopped
  <2>2. /\ run'.op \in {"none", "reap"}
        /\ run'.pc \notin {"spawn", "stopAll"}
        /\ run'.pc = "reap" \/ Minded(workers', recoveryTimer')
    BY <2>1, ReapLoopMinds
  <2> QED
    BY <2>1, <2>2, ResumeMinds DEF Minded
<1>7. ASSUME SwitchSucceeds \/ SwitchFails PROVE RecoveryInv'
  <2>1. UNCHANGED <<lifecycle, stopped, started, workers, recoveryTimer>> /\ run.pc = "switch"
    BY <1>7 DEF SwitchSucceeds, SwitchFails
  <2>2. run' = NoJob \/ run' = [run EXCEPT !.pc = "unswitch"]
    <3>1. CASE SwitchSucceeds
      BY <3>1 DEF SwitchSucceeds, Grant
    <3>2. CASE SwitchFails
      BY <3>2, Zenon DEF SwitchFails, Reject
    <3> QED
      BY <1>7, <3>1, <3>2
  <2>3. run'.op \in {"none", run.op} /\ run'.pc \notin {"spawn", "stopAll"}
    BY <2>2, <1>p, <1>n
  <2>4. started /\ ~stopped /\ Short(workers') => recoveryTimer' \/ Queued("maintain")
    BY <2>1, <1>o DEF RecoveryInv, Attended
  <2> QED
    BY <2>1, <2>3, <2>4, <1>o, ResumeMinds
<1>8. ASSUME UnswitchedStopped PROVE RecoveryInv'
  <2>1. /\ UNCHANGED <<lifecycle, stopped, started>> /\ run.pc = "unswitch" /\ run' = NoJob
        /\ recoveryTimer' = Scheduled(workers', recoveryTimer)
    BY <1>8 DEF UnswitchedStopped, Reject
  <2>2. started /\ ~stopped /\ Short(workers') => recoveryTimer'
    BY <2>1, ScheduledMinds DEF Minded
  <2> QED
    BY <2>1, <2>2, <1>n, ResumeMinds
<1>9. ASSUME AllStopped PROVE RecoveryInv'
  <2>1. UNCHANGED <<lifecycle, stopped, started>> /\ run.pc = "stopAll" /\ run' = NoJob
    BY <1>9 DEF AllStopped
  <2>2. stopped
    BY <2>1 DEF RecoveryInv
  <2> QED
    BY <2>1, <2>2, <1>n, ResumeMinds
<1> QED
  BY <1>1, <1>2, <1>3, <1>4, <1>5, <1>6, <1>7, <1>8, <1>9

(* Whatever happens outside the jobs takes a worker off the Map only with  *)
(* recovery scheduled.                                                     *)
LEMMA QuietRecovery ==
  ASSUME RecoveryInv, UNCHANGED <<lifecycle, run, stopped, started>>,
         recoveryTimer => recoveryTimer',
         UNCHANGED workers \/ Minded(workers', recoveryTimer')
  PROVE  RecoveryInv'
  BY DEF RecoveryInv, Queued, Attended, Minded

LEMMA EnqueueRecovery ==
  ASSUME TypeOK, RecoveryInv, UNCHANGED <<run, workers, started>>,
         NEW job, lifecycle' = Append(lifecycle, job), job.op # "start",
         job.op = "stopAll" => stopped', stopped => stopped',
         stopped' \/ job.op = "maintain" \/ (recoveryTimer => recoveryTimer')
  PROVE  RecoveryInv'
<1>1. /\ \A x : Queued(x)' <=> Queued(x) \/ job.op = x
      /\ \A i \in DOMAIN lifecycle' :
           lifecycle'[i].op = "start" => i = 1 /\ run' = NoJob /\ ~started'
  BY QueueAppend
<1>2. started' /\ ~stopped' /\ Short(workers') => Attended'
  BY <1>1 DEF RecoveryInv, Attended
<1> QED
  BY <1>1, <1>2 DEF RecoveryInv

LEMMA OutsideStepRecovery ==
  ASSUME WorkerPoolAssumption, TypeOK, RecoveryInv,
         \/ TimerStep
         \/ \E w \in Worker : ProcessStep(w)
         \/ \E c \in Client : RequestStep(c) \/ UseStep(c)
         \/ \E t \in Thread : Persist(t)
         \/ UNCHANGED vars
  PROVE  RecoveryInv'
<1>j. \A op, c : Job(op, c).op = op
  BY DEF Job
<1>1. CASE TimerStep
  BY <1>1, <1>j, EnqueueRecovery DEF TimerStep, RecoveryTimerFires, ReaperTicks, StopAll
<1>2. ASSUME NEW w \in Worker, ProcessStep(w) PROVE RecoveryInv'
  <2>1. CASE Close(w)
    <3>1. UNCHANGED <<lifecycle, run, stopped, started>>
      BY <2>1 DEF Close
    <3>2. \/ UNCHANGED <<workers, recoveryTimer>>
          \/ workers' = workers \ {w} /\ recoveryTimer' = Scheduled(workers \ {w}, recoveryTimer)
      BY <2>1 DEF Close
    <3>3. recoveryTimer => recoveryTimer'
      BY <3>2 DEF Scheduled
    <3>4. UNCHANGED workers \/ Minded(workers', recoveryTimer')
      BY <3>2, ScheduledMinds
    <3> QED
      BY <3>1, <3>3, <3>4, QuietRecovery
  <2>2. CASE ~Close(w)
    <3>1. UNCHANGED <<lifecycle, run, stopped, started, workers, recoveryTimer>>
      BY <1>2, <2>2 DEF ProcessStep, Escalate, CommandTimesOut, AgentStart, AgentSettled
    <3> QED
      BY <3>1, QuietRecovery
  <2> QED
    BY <2>1, <2>2
<1>3. ASSUME NEW c \in Client, RequestStep(c) PROVE RecoveryInv'
  <2>1. ASSUME NEW op \in {"new", "session"}, UNCHANGED <<run, workers, stopped, started, recoveryTimer>>,
               lifecycle' = Append(lifecycle, Job(op, c))
        PROVE  RecoveryInv'
    <3>1. Job(op, c).op = op
      BY <1>j
    <3> QED
      BY <2>1, <3>1, EnqueueRecovery
  <2>2. ASSUME NEW dir \in Cwd, RequestNew(c, dir) PROVE RecoveryInv'
    BY <2>1, <2>2 DEF RequestNew
  <2>3. ASSUME NEW t \in Thread, NEW kind \in {"read", "turn", "mutate"},
               NEW dir \in Cwd, RequestSession(c, t, dir, kind)
        PROVE  RecoveryInv'
    BY <2>1, <2>3 DEF RequestSession
  <2>4. ASSUME NEW t \in Thread, NEW kind \in {"read", "turn", "mutate"}, RetainOwner(c, t, kind)
        PROVE  RecoveryInv'
    BY <2>4, QuietRecovery DEF RetainOwner
  <2>5. ASSUME NEW kind \in {"steer", "abort"}, BeginCommand(c, kind) PROVE RecoveryInv'
    BY <2>5, QuietRecovery DEF BeginCommand
  <2> QED
    BY <1>3, <2>2, <2>3, <2>4, <2>5 DEF RequestStep
<1>4. ASSUME NEW c \in Client, UseStep(c) PROVE RecoveryInv'
  <2>1. ASSUME NEW t \in Thread, StartThread(c, t) \/ Fork(c, t) PROVE RecoveryInv'
    BY <2>1, QuietRecovery DEF StartThread, Fork
  <2>2. CASE StartTurn(c) \/ EndTurn(c) \/ BeginMutation(c) \/ ReleaseHeld(c)
             \/ CommandReturns(c) \/ FinishAbort(c)
    <3>1. UNCHANGED <<lifecycle, run, stopped, started, workers, recoveryTimer>>
      BY <2>2 DEF StartTurn, EndTurn, BeginMutation, ReleaseHeld, CommandReturns, FinishAbort
    <3> QED
      BY <3>1, QuietRecovery
  <2> QED
    BY <1>4, <2>1, <2>2 DEF UseStep
<1>5. ASSUME NEW t \in Thread, Persist(t) PROVE RecoveryInv'
  BY <1>5, QuietRecovery DEF Persist
<1>6. CASE UNCHANGED vars
  BY <1>6, QuietRecovery DEF vars
<1> QED
  BY <1>1, <1>2, <1>3, <1>4, <1>5, <1>6

LEMMA InitRecovery == ASSUME Init PROVE RecoveryInv
<1>1. /\ lifecycle = <<Job("start", None)>> /\ run = NoJob /\ ~started /\ ~stopped
  BY DEF Init
<1>2. DOMAIN lifecycle = {1} /\ lifecycle[1].op = "start"
  BY <1>1 DEF Job
<1> QED
  BY <1>1, <1>2 DEF RecoveryInv, Queued, NoJob

(* For any number of workers and whatever fails in whatever order: when    *)
(* no job is left, either the pool has its minimum or a timer will look.   *)
THEOREM RecoversMinimum == Spec => []RecoveryArmed
<1> USE WorkerPoolAssumption
<1>1. Init => RecoveryInv
  BY InitRecovery
<1>2. TypeOK /\ RecoveryInv /\ [Next]_vars => RecoveryInv'
  <2> SUFFICES ASSUME TypeOK, RecoveryInv, [Next]_vars PROVE RecoveryInv'
    OBVIOUS
  <2> QED
    BY StartsRecovery, ResumesRecovery, OutsideStepRecovery DEF Next, JobStep, Halted
<1>3. RecoveryInv => RecoveryArmed
  BY DEF RecoveryInv, RecoveryArmed, Queued, Attended, Short, NoJob
<1> QED
  BY <1>1, <1>2, <1>3, TypeCorrect, PTL DEF Spec

-----------------------------------------------------------------------------
(***************************************************************************)
(* The pool's reservations, marks and leases are those of the requests     *)
(* that use its workers, however requests, turns, commands, retirements,   *)
(* switches, crashes and shutdown interleave.                              *)
(*                                                                         *)
(* The invariant is a conjunction over the workers of what is true of each *)
(* of them.  It takes the Map, the object, the requests and the running    *)
(* job as arguments, so that a step of several parts (a worker leaves the  *)
(* Map, another is selected or spawned in its place) is proved part by     *)
(* part, through states the program is never in.                           *)
(***************************************************************************)

-----------------------------------------------------------------------------
(* The requests.                                                           *)

Writers == {"turn", "mutate"}

Asking == {"new", "session"}

RequestAt(req) ==
  /\ req.pc = "idle" => req = IdleClient
  /\ req.pc = "queued" => req.worker = None
  /\ req.thread = None <=> req.kind \notin {"read", "turn", "mutate"}
  /\ req.pc \in {"queued", "holds"} => req.kind \in {"new", "read", "turn", "mutate"}
  /\ req.pc \in {"turn", "cleanup"} => req.kind = "turn"
  /\ req.pc = "mutating" => req.kind = "mutate"
  /\ req.pc \in {"commanding", "settling"} => req.kind \in {"steer", "abort"}

WritersApart ==
  \A c, d \in Client :
    c # d /\ client[c].kind \in Writers /\ client[d].kind \in Writers
      => client[c].thread # client[d].thread

(* A job that a request asked for is waited for by that request, and is    *)
(* the right one; no request has two.                                      *)
Awaits(job, cl) ==
  job.op \in Asking => cl[job.client].pc = "queued" /\ (job.op = "new" <=> cl[job.client].kind = "new")

QueueAt(q, cl, c) ==
  \A i \in DOMAIN q :
    /\ Awaits(q[i], cl)
    /\ q[i].client \in Client =>
         q[i].client # c /\ \A j \in DOMAIN q : q[j].client = q[i].client => j = i

(* Which jobs are at which awaits.                                         *)
PcAt ==
  /\ run.pc \in {"moved", "switch", "unswitch"} => run.op = "session"
  /\ run.pc \in {"reap", "stopAll"} => run.op \notin Asking

AskInv ==
  /\ \A c \in Client : RequestAt(client[c])
  /\ WritersApart
  /\ Awaits(run, client)
  /\ run.op \notin Asking => run.client \notin Client
  /\ PcAt
  /\ QueueAt(lifecycle, client, run.client)

-----------------------------------------------------------------------------
(* The workers.                                                            *)

(* The requests that keep a reservation of w, and those that command it.   *)
Holders(cl, w) ==
  {c \in Client : cl[c].worker = w /\ cl[c].pc \in {"holds", "turn", "cleanup", "mutating"}}
Commanders(cl, w) == {c \in Client : cl[c].worker = w /\ cl[c].pc = "commanding"}

Gone(obj) == obj.state \in {"crashed", "stopped"}

Spawning(rn, w) == rn.pc = "spawn" /\ rn.worker = w
Switching(rn, w) == rn.pc = "switch" /\ rn.worker = w

(* The acquisition in progress has a reservation of its own.               *)
Claims(rn, w) == Switching(rn, w) \/ (Spawning(rn, w) /\ rn.op \in Asking)

(* What a request that holds w may rely on: a new thread is started on a   *)
(* worker without one that nobody else holds, a turn or mutation begins on *)
(* a worker that has its thread.                                           *)
HolderAt(c, w, obj, cl) ==
  /\ cl[c].kind = "new" => obj.thread = None /\ Holders(cl, w) = {c}
  /\ cl[c].kind \in Writers =>
       obj.thread # None /\ (cl[c].pc = "mutating" \/ obj.thread = cl[c].thread)

(* The reservations and marks of a usable worker are someone's.            *)
UsableAt(w, obj, cl, rn) ==
  /\ IF obj.state = "starting" THEN Spawning(rn, w) ELSE obj.proc = "live"
  /\ IsFiniteSet(Holders(cl, w))
  /\ obj.res = Cardinality(Holders(cl, w)) + (IF Claims(rn, w) THEN 1 ELSE 0)
  /\ obj.turn => \E c \in Client : cl[c].worker = w /\ cl[c].pc = "turn"
  /\ obj.aborting => \E c \in Client : cl[c].worker = w /\ cl[c].kind = "abort"
  /\ obj.state = "running" => Holders(cl, w) # {}
  /\ obj.thread # None \/ obj.res # 0 => obj.claimed
  /\ \A c \in Holders(cl, w) : HolderAt(c, w, obj, cl)

PendingAt(w, obj, cl) ==
  IsFiniteSet(Commanders(cl, w)) /\ obj.pending = Cardinality(Commanders(cl, w))

WithdrawnAt(w, obj, cl) ==
  obj.retiring => Gone(obj) /\ ~obj.turn /\ Holders(cl, w) = {} /\ Commanders(cl, w) = {}

(* A request that knows an object knows one the pool still lists, or one   *)
(* that is of no use any more.                                             *)
KnownAt(w, ws, obj, cl) ==
  \A c \in Client :
    cl[c].worker = w /\ cl[c].pc \notin {"idle", "queued"} => w \in ws \/ Gone(obj)

SpawnAt(w, ws, obj, cl, rn) ==
  Spawning(rn, w) =>
    /\ w \in ws
    /\ obj.state = "starting" /\ obj.proc = "none" /\ obj.thread = None /\ ~obj.turn /\ ~obj.aborting
    /\ \A c \in Client : cl[c].worker # w

SwitchAt(w, ws, obj, cl, rn) ==
  Switching(rn, w) =>
    /\ w \in ws \/ Gone(obj)
    /\ obj.thread = None /\ ~obj.turn
    /\ Holders(cl, w) = {} /\ Commanders(cl, w) = {}

HeldAt(w, ws, obj, cl, rn) ==
  /\ w \in ws \/ Gone(obj) \/ (obj.state = "starting" /\ obj.proc = "none")
  /\ w \in ws /\ ~Gone(obj) => UsableAt(w, obj, cl, rn)
  /\ PendingAt(w, obj, cl)
  /\ w \in ws => WithdrawnAt(w, obj, cl)
  /\ KnownAt(w, ws, obj, cl)
  /\ SpawnAt(w, ws, obj, cl, rn)
  /\ SwitchAt(w, ws, obj, cl, rn)

Held(ws, wk, cl, rn) == \A w \in Worker : HeldAt(w, ws, wk[w], cl, rn)

(* Of the usable workers no two have the same thread, and none the thread  *)
(* that an acquisition is looking for a worker for.                        *)
OwnedOnce(ws, wk) ==
  \A v, w \in ws : v # w /\ ~Gone(wk[v]) /\ ~Gone(wk[w]) /\ wk[v].thread # None
                     => wk[v].thread # wk[w].thread

Unowned(ws, wk, t) == \A w \in ws : ~Gone(wk[w]) => wk[w].thread # t

Unasked(ws, wk, cl, rn) == rn.op = "session" => Unowned(ws, wk, cl[rn.client].thread)

UseAt(ws, wk, cl, rn) ==
  Held(ws, wk, cl, rn) /\ OwnedOnce(ws, wk) /\ Unasked(ws, wk, cl, rn)

UseInv == UseAt(workers, worker, client, run)

-----------------------------------------------------------------------------
(* Each request waits for its own job.                                     *)

LEMMA QueueAtTail ==
  ASSUME WorkerPoolAssumption, NEW q \in Seq(JobType), q # <<>>, NEW cl, NEW c, QueueAt(q, cl, c)
  PROVE  /\ Awaits(Head(q), cl) /\ QueueAt(Tail(q), cl, Head(q).client)
         /\ Head(q).op \notin Asking => Head(q).client \notin Client
         /\ Head(q).op \in Asking => Head(q).client \in Client
<1>1. /\ DOMAIN q = 1..Len(q) /\ Len(q) \in Nat \ {0} /\ Head(q) = q[1]
      /\ DOMAIN Tail(q) = 1..(Len(q) - 1)
      /\ \A i \in 1..(Len(q) - 1) : Tail(q)[i] = q[i + 1]
  OBVIOUS
<1>2. \A i \in DOMAIN Tail(q) : i + 1 \in DOMAIN q /\ i + 1 # 1 /\ Tail(q)[i] = q[i + 1]
  BY <1>1
<1>3. 1 \in DOMAIN q /\ Head(q) = q[1] /\ Head(q) \in JobType
  BY <1>1
<1>4. ASSUME NEW i \in DOMAIN Tail(q), Tail(q)[i].client \in Client
      PROVE  /\ Tail(q)[i].client # Head(q).client
             /\ \A j \in DOMAIN Tail(q) : Tail(q)[j].client = Tail(q)[i].client => j = i
  <2>1. \A j \in DOMAIN q : q[j].client = q[i + 1].client => j = i + 1
    BY <1>2, <1>4 DEF QueueAt
  <2>2. \A j \in DOMAIN Tail(q) : Tail(q)[j].client = Tail(q)[i].client => j + 1 = i + 1
    BY <1>2, <2>1
  <2>3. i \in Int /\ \A j \in DOMAIN Tail(q) : j \in Int
    BY <1>1
  <2>4. \A j \in DOMAIN Tail(q) : Tail(q)[j].client = Tail(q)[i].client => j = i
    BY <2>2, <2>3
  <2>5. Tail(q)[i].client # Head(q).client
    BY <1>2, <1>3, <2>1
  <2> QED
    BY <2>4, <2>5
<1>5. \A i \in DOMAIN Tail(q) : Awaits(Tail(q)[i], cl)
  BY <1>2 DEF QueueAt
<1>6. Awaits(Head(q), cl)
  BY <1>3 DEF QueueAt
<1>7. /\ Head(q).op \notin Asking => Head(q).client \notin Client
      /\ Head(q).op \in Asking => Head(q).client \in Client
  BY <1>3 DEF JobType, Asking, WorkerPoolAssumption
<1> QED
  BY <1>4, <1>5, <1>6, <1>7 DEF QueueAt

LEMMA QueueAtFrame ==
  ASSUME NEW q \in Seq(JobType), NEW cl, NEW cl2, NEW c, NEW c2, QueueAt(q, cl, c),
         c2 = c \/ c2 \notin Client,
         \A d \in Client : cl2[d] = cl[d] \/ d = c \/ cl[d].pc # "queued"
  PROVE  QueueAt(q, cl2, c2)
<1>1. \A i \in DOMAIN q : q[i] \in JobType
  OBVIOUS
<1>2. ASSUME NEW i \in DOMAIN q PROVE Awaits(q[i], cl2)
  <2>1. CASE q[i].op \in Asking
    <3>1. q[i].client \in Client /\ q[i].client # c /\ cl[q[i].client].pc = "queued"
      BY <1>1, <2>1 DEF JobType, Asking, QueueAt, Awaits
    <3>2. cl2[q[i].client] = cl[q[i].client]
      BY <3>1
    <3> QED
      BY <3>2 DEF QueueAt, Awaits
  <2>2. CASE q[i].op \notin Asking
    BY <2>2 DEF Awaits
  <2> QED
    BY <2>1, <2>2
<1> QED
  BY <1>2 DEF QueueAt

LEMMA QueueAtAppend ==
  ASSUME NEW q \in Seq(JobType), NEW cl, NEW c, QueueAt(q, cl, c),
         NEW job \in JobType, Awaits(job, cl),
         job.client \in Client =>
           job.client # c /\ \A i \in DOMAIN q : q[i].client # job.client
  PROVE  QueueAt(Append(q, job), cl, c)
<1>1. /\ DOMAIN Append(q, job) = DOMAIN q \cup {Len(q) + 1}
      /\ Append(q, job)[Len(q) + 1] = job
      /\ \A i \in DOMAIN q : Append(q, job)[i] = q[i]
  OBVIOUS
<1> DEFINE p == Append(q, job)
<1>2. ASSUME NEW i \in DOMAIN p PROVE Awaits(p[i], cl)
  BY <1>1 DEF QueueAt
<1>3. ASSUME NEW i \in DOMAIN p, p[i].client \in Client
      PROVE  p[i].client # c /\ \A j \in DOMAIN p : p[j].client = p[i].client => j = i
  <2>1. CASE i \in DOMAIN q
    <3>1. p[i] = q[i]
      BY <1>1, <2>1
    <3>2. q[i].client # c /\ \A j \in DOMAIN q : q[j].client = q[i].client => j = i
      BY <1>3, <2>1, <3>1 DEF QueueAt
    <3>3. job.client # q[i].client
      BY <1>3, <2>1, <3>1
    <3> QED
      BY <1>1, <3>1, <3>2, <3>3
  <2>2. CASE i = Len(q) + 1
    BY <1>1, <1>3, <2>2
  <2> QED
    BY <1>1, <2>1, <2>2
<1> HIDE DEF p
<1> QED
  BY <1>2, <1>3 DEF QueueAt, p

(* What a job may do about its request: wait on, or answer it; or it has   *)
(* none, and goes on or ends.                                              *)
Goes(op, c) == run'.op = op /\ run'.client = c /\ UNCHANGED client /\ PcAt'

Answers(c) ==
  /\ run' = NoJob
  /\ \E req : /\ client' = [client EXCEPT ![c] = req]
              /\ \/ req = IdleClient
                 \/ \E w \in Worker : req = [client[c] EXCEPT !.pc = "holds", !.worker = w]

Quits == run'.op \notin Asking /\ run'.client = None /\ PcAt'

LEMMA GrantAnswers ==
  ASSUME NEW c PROVE (Reject(c) => Answers(c)) /\ (\A w \in Worker : Grant(c, w) => Answers(c))
<1>1. ASSUME Reject(c) PROVE Answers(c)
  <2>1. run' = NoJob /\ client' = [client EXCEPT ![c] = IdleClient]
    BY <1>1 DEF Reject
  <2> QED
    BY <2>1, Zenon DEF Answers
<1>2. ASSUME NEW w \in Worker, Grant(c, w) PROVE Answers(c)
  <2> DEFINE req == [client[c] EXCEPT !.pc = "holds", !.worker = w]
  <2>1. run' = NoJob /\ client' = [client EXCEPT ![c] = req]
    BY <1>2, Zenon DEF Grant
  <2>2. req = IdleClient \/ \E v \in Worker : req = [client[c] EXCEPT !.pc = "holds", !.worker = v]
    BY Zenon
  <2> HIDE DEF req
  <2> QED
    BY <2>1, <2>2, Zenon DEF Answers
<1> QED
  BY <1>1, <1>2

LEMMA SelectedAsks ==
  ASSUME NEW op, NEW c, NEW w \in Worker, Selected(op, c, w)
  PROVE  Goes(op, c) \/ Answers(c)
<1>1. CASE Grant(c, w)
  BY <1>1, GrantAnswers
<1>2. CASE /\ run' = [NoJob EXCEPT !.op = op, !.pc = "switch", !.client = c, !.worker = w]
           /\ op = "session" /\ UNCHANGED client
  BY <1>2 DEF NoJob, Goes, PcAt
<1> QED
  BY <1>1, <1>2 DEF Selected

LEMMA SpawnReservedAsks ==
  ASSUME NEW op, NEW c, NEW ws, NEW timer, SpawnReserved(op, c, ws, timer)
  PROVE  Goes(op, c) \/ Answers(c)
<1>1. CASE /\ \E w : run' = [NoJob EXCEPT !.op = op, !.pc = "spawn", !.client = c, !.worker = w]
           /\ UNCHANGED client
  BY <1>1 DEF NoJob, Goes, PcAt
<1>2. CASE Reject(c)
  BY <1>2, GrantAnswers
<1> QED
  BY <1>1, <1>2, Zenon DEF SpawnReserved, BeginSpawn

LEMMA SelectWorkerAsks ==
  ASSUME TypeOK, NEW op, NEW c, NEW ws \in SUBSET Worker, NEW timer, SelectWorker(op, c, ws, timer)
  PROVE  Goes(op, c) \/ Answers(c)
<1>1. CASE SpawnReserved(op, c, ws, timer)
  BY <1>1, SpawnReservedAsks
<1>2. CASE Reject(c)
  BY <1>2, GrantAnswers
<1>3. CASE \E w \in Reusable(ws, client[c].cwd) : Selected(op, c, w)
  BY <1>3, SelectedAsks DEF Reusable
<1>4. CASE /\ \E w : run' = [NoJob EXCEPT !.op = op, !.pc = "victim", !.client = c, !.worker = w]
           /\ UNCHANGED client
  BY <1>4 DEF NoJob, Goes, PcAt
<1> QED
  BY <1>1, <1>2, <1>3, <1>4, Zenon DEF SelectWorker

(* The job's own step.                                                     *)
LEMMA AskJob ==
  ASSUME WorkerPoolAssumption, TypeOK, TypeOK', AskInv, NEW job,
         QueueAt(lifecycle', client, job.client), Awaits(job, client),
         job.op \in Asking <=> job.client \in Client,
         \/ Goes(job.op, job.client)
         \/ job.op \in Asking /\ Answers(job.client)
         \/ job.op \notin Asking /\ Quits /\ UNCHANGED client
  PROVE  AskInv'
<1>q. lifecycle' \in Seq(JobType) /\ client \in [Client -> ClientType]
  BY DEF TypeOK
<1>n. None \notin Client
  BY DEF WorkerPoolAssumption
<1>1. CASE Goes(job.op, job.client)
  BY <1>1 DEF AskInv, Goes, WritersApart, Awaits
<1>2. CASE job.op \in Asking /\ Answers(job.client)
  <2> DEFINE c == job.client
  <2>1. c \in Client /\ client[c].pc = "queued" /\ RequestAt(client[c])
    BY <1>2 DEF Awaits, AskInv
  <2>2. PICK req : /\ client' = [client EXCEPT ![c] = req]
                   /\ \/ req = IdleClient
                      \/ \E w \in Worker : req = [client[c] EXCEPT !.pc = "holds", !.worker = w]
    BY <1>2 DEF Answers
  <2>3. client'[c] = req /\ \A d \in Client : d # c => client'[d] = client[d]
    BY <1>q, <2>1, <2>2
  <2>4. RequestAt(req) /\ (req.kind \in Writers => req.kind = client[c].kind /\ req.thread = client[c].thread)
    <3>1. CASE req = IdleClient
      BY <3>1 DEF RequestAt, IdleClient, Writers
    <3>2. CASE \E w \in Worker : req = [client[c] EXCEPT !.pc = "holds", !.worker = w]
      <4>1. /\ req.pc = "holds" /\ req.kind = client[c].kind /\ req.thread = client[c].thread
        BY <1>q, <2>1, <3>2 DEF ClientType
      <4> QED
        BY <2>1, <4>1 DEF RequestAt
    <3> QED
      BY <2>2, <3>1, <3>2
  <2>5. \A d \in Client : RequestAt(client'[d])
    BY <2>3, <2>4 DEF AskInv
  <2>6. WritersApart'
    BY <2>1, <2>3, <2>4 DEF AskInv, WritersApart
  <2>7. run' = NoJob
    BY <1>2 DEF Answers
  <2>8. run'.op \notin Asking /\ run'.client = None /\ PcAt'
    BY <2>7 DEF NoJob, Asking, PcAt
  <2>9. QueueAt(lifecycle', client', run'.client)
    BY <1>q, <1>n, <2>3, <2>8, QueueAtFrame
  <2> QED
    BY <1>n, <2>5, <2>6, <2>8, <2>9 DEF AskInv, Awaits
<1>3. CASE job.op \notin Asking /\ Quits /\ UNCHANGED client
  <2>1. QueueAt(lifecycle', client', run'.client)
    BY <1>q, <1>n, <1>3, QueueAtFrame DEF Quits
  <2> QED
    BY <1>n, <1>3, <2>1 DEF AskInv, WritersApart, Awaits, Quits
<1> QED
  BY <1>1, <1>2, <1>3

LEMMA QuitAsks ==
  ASSUME NEW op, op \notin Asking
  PROVE  /\ run' = NoJob => Quits
         /\ \A dir, ws, wk : BeginSpawn(op, None, dir, ws, wk) => Quits
         /\ \A wk : MaintainLoop(op, wk) => Quits
         /\ \A todo, ws : ReapLoop(todo, ws) => Quits
<1>1. run' = NoJob => Quits
  BY DEF NoJob, Asking, Quits, PcAt
<1>2. ASSUME NEW dir, NEW ws, NEW wk, BeginSpawn(op, None, dir, ws, wk)
      PROVE  Quits
  <2>1. PICK w \in Forgotten :
          run' = [NoJob EXCEPT !.op = op, !.pc = "spawn", !.client = None, !.worker = w]
    BY <1>2, Zenon DEF BeginSpawn
  <2> QED
    BY <2>1 DEF NoJob, Quits, PcAt
<1>3. ASSUME NEW wk, MaintainLoop(op, wk) PROVE Quits
  BY <1>1, <1>2, <1>3, Zenon DEF MaintainLoop
<1>4. ASSUME NEW todo, NEW ws, ReapLoop(todo, ws) PROVE Quits
  <2>1. CASE run' = NoJob
    BY <1>1, <2>1
  <2>2. CASE \E w \in todo : run' = [NoJob EXCEPT !.op = "reap", !.pc = "reap", !.worker = w,
                                                  !.todo = todo \ {w}]
    BY <2>2 DEF NoJob, Asking, Quits, PcAt
  <2> QED
    BY <1>4, <2>1, <2>2, Zenon DEF ReapLoop
<1> QED
  BY <1>1, <1>2, <1>3, <1>4

LEMMA StartsAsks ==
  ASSUME WorkerPoolAssumption, TypeOK, AskInv, NEW op, Starts(op)
  PROVE  LET job == Head(lifecycle)
         IN /\ QueueAt(lifecycle', client, job.client) /\ Awaits(job, client)
            /\ job.op = op /\ (job.op \in Asking <=> job.client \in Client)
  BY QueueAtTail DEF TypeOK, Starts, AskInv

LEMMA JobStepAsks ==
  ASSUME WorkerPoolAssumption, TypeOK, AskInv, JobStep
  PROVE  AskInv'
<1>t. TypeOK'
  BY JobStepType
<1>w. workers \in SUBSET Worker /\ run \in RunType
      /\ (run.pc \notin {"free", "stopAll"} => run.worker \in Worker)
      /\ (run.pc \in {"victim", "moved", "switch", "unswitch"} => run.op \in Asking)
      /\ (run.op \in Asking => run.client \in Client)
      /\ {"new", "session"} = Asking
  BY DEF TypeOK, Asking
<1> DEFINE job == Head(lifecycle)
           c == job.client
<1>s. ASSUME NEW op, Starts(op),
             \/ Goes(op, c)
             \/ op \in Asking /\ Answers(c)
             \/ op \notin Asking /\ Quits /\ UNCHANGED client
      PROVE  AskInv'
  <2>1. /\ QueueAt(lifecycle', client, c) /\ Awaits(job, client)
        /\ job.op = op /\ (job.op \in Asking <=> c \in Client)
    BY <1>s, StartsAsks
  <2> HIDE DEF job
  <2> QED
    BY <1>s, <1>t, <2>1, AskJob
<1>r. ASSUME UNCHANGED lifecycle,
             \/ Goes(run.op, run.client)
             \/ run.op \in Asking /\ Answers(run.client)
             \/ run.op \notin Asking /\ Quits /\ UNCHANGED client
      PROVE  AskInv'
  <2>1. /\ QueueAt(lifecycle', client, run.client) /\ Awaits(run, client)
        /\ (run.op \in Asking <=> run.client \in Client)
    BY <1>r, <1>w DEF AskInv
  <2> QED
    BY <1>r, <1>t, <2>1, AskJob
<1>p. PcAt
  BY DEF AskInv
<1>g. ASSUME NEW p \in {"abandon", "unswitch"}, run' = [run EXCEPT !.pc = p], UNCHANGED client,
             p = "unswitch" => run.pc = "switch"
      PROVE  Goes(run.op, run.client)
  <2>1. run'.op = run.op /\ run'.client = run.client /\ run'.pc = p
    BY <1>g, <1>w DEF RunType
  <2> QED
    BY <1>g, <1>p, <2>1 DEF Goes, PcAt
<1>1. CASE StartNew
  <2>1. Starts("new") /\ "new" \in Asking
    BY <1>1 DEF StartNew, Asking
  <2>2. CASE Reject(c)
    BY <2>1, <2>2, <1>s, GrantAnswers
  <2>3. CASE SelectWorker("new", c, workers, recoveryTimer)
    <3>1. Goes("new", c) \/ Answers(c)
      BY <1>w, <2>3, SelectWorkerAsks
    <3> QED
      BY <2>1, <3>1, <1>s
  <2> QED
    BY <1>1, <2>2, <2>3, Zenon DEF StartNew
<1>2. CASE StartSession
  <2>1. Starts("session") /\ "session" \in Asking
    BY <1>2, Zenon DEF StartSession, Asking
  <2>2. CASE Reject(c)
    BY <2>1, <2>2, <1>s, GrantAnswers
  <2>3. CASE SelectWorker("session", c, workers, recoveryTimer)
    <3>1. Goes("session", c) \/ Answers(c)
      BY <1>w, <2>3, SelectWorkerAsks
    <3> QED
      BY <2>1, <3>1, <1>s
  <2>4. ASSUME NEW w \in workers,
               \/ Grant(c, w)
               \/ /\ run' = [NoJob EXCEPT !.op = "session", !.pc = "moved", !.client = c, !.worker = w]
                  /\ UNCHANGED client
        PROVE  AskInv'
    <3>1. CASE Grant(c, w)
      BY <1>w, <2>1, <3>1, <1>s, GrantAnswers
    <3>2. CASE /\ run' = [NoJob EXCEPT !.op = "session", !.pc = "moved", !.client = c, !.worker = w]
               /\ UNCHANGED client
      <4>1. Goes("session", c)
        BY <3>2 DEF NoJob, Goes, PcAt
      <4> QED
        BY <2>1, <4>1, <1>s
    <3> QED
      BY <2>4, <3>1, <3>2
  <2> QED
    BY <1>2, <2>2, <2>3, <2>4, Zenon DEF StartSession, FindByThread
<1>3. CASE StartMaintain
  <2>1. PICK op \in {"start", "maintain"} : Starts(op)
    BY <1>3 DEF StartMaintain
  <2>2. Head(lifecycle).op = op /\ op \notin Asking /\ UNCHANGED client
    BY <1>3, <2>1 DEF Starts, StartMaintain, Asking
  <2>3. Quits
    BY <1>3, <2>2, QuitAsks DEF StartMaintain
  <2> QED
    BY <2>1, <2>2, <2>3, <1>s
<1>4. CASE StartReap
  <2>1. Starts("reap") /\ "reap" \notin Asking /\ UNCHANGED client
    BY <1>4 DEF StartReap, Asking
  <2>2. run' = NoJob \/ \E todo : ReapLoop(todo, workers)
    BY <1>4, Zenon DEF StartReap
  <2>3. Quits
    BY <2>1, <2>2, QuitAsks
  <2> QED
    BY <2>1, <2>3, <1>s
<1>5. CASE StartStopAll
  <2>1. Starts("stopAll") /\ "stopAll" \notin Asking /\ UNCHANGED client
        /\ run' = [NoJob EXCEPT !.op = "stopAll", !.pc = "stopAll"]
    BY <1>5 DEF StartStopAll, Asking
  <2>2. Quits
    BY <2>1 DEF NoJob, Quits, PcAt, Asking
  <2> QED
    BY <2>1, <2>2, <1>s
<1>6. CASE SpawnSucceeds
  <2>1. UNCHANGED lifecycle /\ run.worker \in Worker
    BY <1>6, <1>w DEF SpawnSucceeds
  <2>2. CASE run' = [run EXCEPT !.pc = "abandon"] /\ UNCHANGED client
    BY <2>1, <2>2, <1>g, <1>r
  <2>3. CASE run.op \in Asking /\ Selected(run.op, run.client, run.worker)
    BY <2>1, <2>3, <1>r, SelectedAsks
  <2>4. CASE run.op \notin Asking /\ (\E wk : MaintainLoop(run.op, wk)) /\ UNCHANGED client
    BY <2>1, <2>4, <1>r, QuitAsks
  <2> QED
    BY <1>6, <1>w, <2>2, <2>3, <2>4, Zenon DEF SpawnSucceeds
<1>7. CASE SpawnFails
  <2>1. run' = [run EXCEPT !.pc = "abandon"] /\ UNCHANGED <<lifecycle, client>>
    BY <1>7 DEF SpawnFails
  <2> QED
    BY <2>1, <1>g, <1>r
<1>8. CASE SpawnAbandoned
  <2>1. UNCHANGED lifecycle
    BY <1>8 DEF SpawnAbandoned
  <2>2. CASE run.op \in Asking /\ Reject(run.client)
    BY <2>1, <2>2, <1>r, GrantAnswers
  <2>3. CASE run.op \notin Asking /\ run' = NoJob /\ UNCHANGED client
    BY <2>1, <2>3, <1>r, QuitAsks
  <2> QED
    BY <1>8, <1>w, <2>2, <2>3, Zenon DEF SpawnAbandoned
<1>9. CASE VictimStopped
  <2>1. UNCHANGED lifecycle /\ run.op \in Asking
        /\ SpawnReserved(run.op, run.client, workers \ {run.worker}, recoveryTimer)
    BY <1>9, <1>w DEF VictimStopped
  <2>2. Goes(run.op, run.client) \/ Answers(run.client)
    BY <2>1, SpawnReservedAsks
  <2> QED
    BY <2>1, <2>2, <1>r
<1>10. CASE MovedStopped
  <2> DEFINE ws == workers \ {run.worker}
  <2>1. UNCHANGED lifecycle /\ run.op \in Asking /\ run.pc = "moved"
        /\ SelectWorker("session", run.client, ws, Scheduled(ws, recoveryTimer))
    BY <1>10, <1>w DEF MovedStopped
  <2>2. ws \in SUBSET Worker
    BY <1>w
  <2> HIDE DEF ws
  <2>3. Goes("session", run.client) \/ Answers(run.client)
    BY <2>1, <2>2, SelectWorkerAsks
  <2>4. run.op = "session"
    BY <2>1, <1>p DEF PcAt
  <2> QED
    BY <2>1, <2>3, <2>4, <1>r
<1>11. CASE ReapedStopped
  <2>1. UNCHANGED <<lifecycle, client>> /\ run.pc = "reap" /\ ReapLoop(run.todo, workers')
    BY <1>11 DEF ReapedStopped
  <2>4. run.op \notin Asking
    BY <2>1, <1>p DEF PcAt
  <2> QED
    BY <2>1, <2>4, <1>r, QuitAsks
<1>12. CASE SwitchSucceeds
  <2>1. UNCHANGED lifecycle /\ run.op \in Asking /\ Grant(run.client, run.worker) /\ run.worker \in Worker
    BY <1>12, <1>w DEF SwitchSucceeds
  <2> QED
    BY <2>1, <1>r, GrantAnswers
<1>13. CASE SwitchFails
  <2>1. UNCHANGED lifecycle /\ run.op \in Asking /\ run.pc = "switch"
    BY <1>13, <1>w, Zenon DEF SwitchFails
  <2>2. CASE Reject(run.client)
    BY <2>1, <2>2, <1>r, GrantAnswers
  <2>3. CASE run' = [run EXCEPT !.pc = "unswitch"] /\ UNCHANGED client
    BY <2>1, <2>3, <1>g, <1>r
  <2> QED
    BY <1>13, <2>2, <2>3, Zenon DEF SwitchFails
<1>14. CASE UnswitchedStopped
  <2>1. UNCHANGED lifecycle /\ run.op \in Asking /\ Reject(run.client)
    BY <1>14, <1>w DEF UnswitchedStopped
  <2> QED
    BY <2>1, <1>r, GrantAnswers
<1>15. CASE AllStopped
  <2>1. UNCHANGED <<lifecycle, client>> /\ run.pc = "stopAll" /\ run' = NoJob
    BY <1>15 DEF AllStopped
  <2>4. run.op \notin Asking
    BY <2>1, <1>p DEF PcAt
  <2> QED
    BY <2>1, <2>4, <1>r, QuitAsks
<1> QED
  BY <1>1, <1>2, <1>3, <1>4, <1>5, <1>6, <1>7, <1>8, <1>9, <1>10, <1>11, <1>12, <1>13,
     <1>14, <1>15 DEF JobStep

(* Outside the jobs: requests that wait for none change, and may ask.      *)
LEMMA AskRequests ==
  ASSUME TypeOK, AskInv, UNCHANGED run,
         \A d \in Client : client'[d] = client[d]
                             \/ (client[d].pc # "queued" /\ RequestAt(client'[d])),
         WritersApart',
         \/ UNCHANGED lifecycle
         \/ \E job \in JobType :
              /\ lifecycle' = Append(lifecycle, job)
              /\ Awaits(job, client')
              /\ job.client \in Client => client[job.client].pc # "queued"
  PROVE  AskInv'
<1>q. lifecycle \in Seq(JobType)
  BY DEF TypeOK
<1>1. \A d \in Client : RequestAt(client'[d])
  BY DEF AskInv
<1>2. run.op \in Asking => run.client \in Client
  BY DEF TypeOK, Asking
<1>3. run.op \in Asking => client'[run.client] = client[run.client]
  BY <1>2 DEF AskInv, Awaits
<1>4. Awaits(run, client)' /\ (run'.op \notin Asking => run'.client \notin Client) /\ PcAt'
  BY <1>3 DEF AskInv, Awaits, PcAt
<1>5. QueueAt(lifecycle, client', run.client)
  BY <1>q, QueueAtFrame DEF AskInv
<1>6. CASE UNCHANGED lifecycle
  BY <1>1, <1>4, <1>5, <1>6 DEF AskInv
<1>7. ASSUME NEW job \in JobType, lifecycle' = Append(lifecycle, job), Awaits(job, client'),
             job.client \in Client => client[job.client].pc # "queued"
      PROVE  AskInv'
  <2>1. ASSUME job.client \in Client
        PROVE  job.client # run.client /\ \A i \in DOMAIN lifecycle : lifecycle[i].client # job.client
    <3>1. job.client # run.client
      BY <1>7, <2>1, <1>2 DEF AskInv, Awaits
    <3>2. \A i \in DOMAIN lifecycle : lifecycle[i].client \in Client => lifecycle[i].op \in Asking
      <4>1. \A i \in DOMAIN lifecycle : lifecycle[i] \in JobType
        BY <1>q
      <4> QED
        BY <4>1, WorkerPoolAssumption DEF JobType, Asking, WorkerPoolAssumption
    <3>3. \A i \in DOMAIN lifecycle : lifecycle[i].client \in Client =>
                                        client[lifecycle[i].client].pc = "queued"
      BY <3>2 DEF AskInv, QueueAt, Awaits
    <3> QED
      BY <1>7, <2>1, <3>1, <3>3
  <2>2. QueueAt(lifecycle', client', run.client)
    BY <1>q, <1>5, <1>7, <2>1, QueueAtAppend
  <2> QED
    BY <1>1, <1>4, <2>2 DEF AskInv
<1> QED
  BY <1>6, <1>7

(* Writers are apart as long as a new one finds nobody writing its thread. *)
LEMMA WritersStill ==
  ASSUME AskInv, NEW c,
         \A d \in Client : d # c /\ client'[d].kind \in Writers =>
                             client[d].kind \in Writers /\ client'[d].thread = client[d].thread,
         \/ \A d \in Client : client[d].kind \in Writers => client[d].thread # client'[c].thread
         \/ client'[c].kind \in Writers =>
              client[c].kind \in Writers /\ client'[c].thread = client[c].thread
  PROVE  WritersApart'
  BY DEF AskInv, WritersApart

LEMMA OutsideStepAsks ==
  ASSUME WorkerPoolAssumption, TypeOK, AskInv,
         \/ TimerStep
         \/ \E w \in Worker : ProcessStep(w)
         \/ \E c \in Client : RequestStep(c) \/ UseStep(c)
         \/ \E t \in Thread : Persist(t)
         \/ UNCHANGED vars
  PROVE  AskInv'
<1>t. /\ client \in [Client -> ClientType] /\ \A c \in Client : client[c] \in ClientType
      /\ \A c \in Client : RequestAt(client[c])
      /\ None \notin Client /\ None \notin Thread
  BY DEF TypeOK, AskInv, WorkerPoolAssumption
<1>i. RequestAt(IdleClient) /\ IdleClient.kind \notin Writers
  BY DEF RequestAt, IdleClient, Writers
<1>u. ASSUME UNCHANGED <<client, run>>,
             \/ UNCHANGED lifecycle
             \/ \E op \in {"maintain", "reap", "stopAll"} : lifecycle' = Append(lifecycle, Job(op, None))
      PROVE  AskInv'
  <2>1. \A op \in {"maintain", "reap", "stopAll"} :
          /\ Job(op, None) \in JobType /\ Awaits(Job(op, None), client')
          /\ Job(op, None).client \notin Client
    BY <1>t DEF Job, JobType, Awaits, Asking
  <2>2. WritersApart'
    BY <1>u DEF AskInv, WritersApart
  <2> QED
    BY <1>u, <2>1, <2>2, AskRequests
(* Some requests go on or end, none begins to write. *)
<1>m. ASSUME UNCHANGED <<run, lifecycle>>,
             \A d \in Client : \/ client'[d] = client[d]
                               \/ /\ client[d].pc # "queued" /\ RequestAt(client'[d])
                                  /\ \/ client'[d].kind \notin Writers
                                     \/ /\ client'[d].kind = client[d].kind
                                        /\ client'[d].thread = client[d].thread
      PROVE  AskInv'
  <2>1. WritersApart'
    BY <1>m DEF AskInv, WritersApart
  <2> QED
    BY <1>m, <2>1, AskRequests
(* One request goes on or ends. *)
<1>o. ASSUME NEW c \in Client, UNCHANGED <<run, lifecycle>>, client[c].pc # "queued",
             NEW req, client' = [client EXCEPT ![c] = req], RequestAt(req),
             \/ req.kind \notin Writers
             \/ req.kind = client[c].kind /\ req.thread = client[c].thread
      PROVE  AskInv'
  BY <1>o, <1>t, <1>m
<1>c. ASSUME NEW c \in Client, NEW pc,
             \/ pc \in {"turn", "cleanup"} /\ client[c].kind = "turn"
             \/ pc = "mutating" /\ client[c].kind = "mutate"
             \/ pc = "settling" /\ client[c].kind = "abort"
      PROVE  LET req == [client[c] EXCEPT !.pc = pc]
             IN RequestAt(req) /\ req.kind = client[c].kind /\ req.thread = client[c].thread
  <2>1. [client[c] EXCEPT !.pc = pc].pc = pc
    BY <1>t DEF ClientType
  <2>2. LET req == [client[c] EXCEPT !.pc = pc]
        IN req.kind = client[c].kind /\ req.thread = client[c].thread
    BY <1>t DEF ClientType
  <2> QED
    BY <1>c, <1>t, <2>1, <2>2 DEF RequestAt
<1>1. CASE TimerStep
  BY <1>1, <1>u DEF TimerStep, RecoveryTimerFires, ReaperTicks, StopAll
<1>2. ASSUME NEW w \in Worker, ProcessStep(w) PROVE AskInv'
  <2>1. CASE Close(w)
    <3>1. UNCHANGED <<run, lifecycle>>
      BY <2>1 DEF Close
    <3>2. \A d \in Client : client'[d] = client[d] \/ (client[d].pc = "turn" /\ client'[d] = IdleClient)
      BY <2>1, <1>t DEF Close, OnTurn
    <3> QED
      BY <3>1, <3>2, <1>i, <1>m
  <2>2. CASE AgentSettled(w)
    <3>1. UNCHANGED <<run, lifecycle>>
      BY <2>2 DEF AgentSettled
    <3>2. \A d \in Client : \/ client'[d] = client[d]
                            \/ client[d].pc = "turn" /\ client'[d] = [client[d] EXCEPT !.pc = "cleanup"]
      BY <2>2, <1>t DEF AgentSettled, OnTurn
    <3>3. \A d \in Client : client[d].pc = "turn" => client[d].kind = "turn"
      BY <1>t DEF RequestAt
    <3>4. \A d \in Client : client[d].pc = "turn" =>
            LET req == [client[d] EXCEPT !.pc = "cleanup"]
            IN RequestAt(req) /\ req.kind = client[d].kind /\ req.thread = client[d].thread
      BY <3>3, <1>c
    <3> QED
      BY <3>1, <3>2, <3>4, <1>m
  <2>3. CASE ~Close(w) /\ ~AgentSettled(w)
    <3>1. UNCHANGED <<lifecycle, run, client>>
      BY <1>2, <2>3 DEF ProcessStep, Escalate, CommandTimesOut, AgentStart
    <3> QED
      BY <3>1, <1>u
  <2> QED
    BY <2>1, <2>2, <2>3
<1>3. ASSUME NEW c \in Client, RequestStep(c) PROVE AskInv'
  <2>1. ASSUME NEW op \in Asking, NEW req \in ClientType, UNCHANGED run,
               client[c].pc = "idle", client' = [client EXCEPT ![c] = req],
               lifecycle' = Append(lifecycle, Job(op, c)), req.pc = "queued",
               op = "new" <=> req.kind = "new", RequestAt(req), Exclusive(req.kind, req.thread)
        PROVE  AskInv'
    <3>1. client'[c] = req /\ \A d \in Client : d # c => client'[d] = client[d]
      BY <2>1, <1>t
    <3>2. Job(op, c) \in JobType /\ Job(op, c).client = c /\ Job(op, c).op = op
      BY DEF Job, JobType, Asking
    <3>3. Awaits(Job(op, c), client')
      BY <2>1, <3>1, <3>2 DEF Awaits
    <3>4. WritersApart'
      BY <2>1, <3>1, WritersStill DEF Exclusive, Writers
    <3> QED
      BY <2>1, <3>1, <3>2, <3>3, <3>4, AskRequests
  <2>2. ASSUME NEW dir \in Cwd, RequestNew(c, dir) PROVE AskInv'
    <3> DEFINE req == [IdleClient EXCEPT !.pc = "queued", !.kind = "new", !.cwd = dir]
    <3>1. /\ req.pc = "queued" /\ req.kind = "new" /\ req.thread = None /\ req.worker = None
          /\ req \in ClientType
      BY DEF IdleClient, ClientType, AllKinds
    <3>2. RequestAt(req) /\ Exclusive(req.kind, req.thread) /\ "new" \in Asking
      BY <3>1 DEF RequestAt, Exclusive, Asking
    <3>3. /\ UNCHANGED run /\ client[c].pc = "idle" /\ client' = [client EXCEPT ![c] = req]
          /\ lifecycle' = Append(lifecycle, Job("new", c))
      BY <2>2 DEF RequestNew
    <3> HIDE DEF req
    <3> QED
      BY <3>1, <3>2, <3>3, <2>1
  <2>3. ASSUME NEW t \in Thread, NEW kind \in {"read", "turn", "mutate"},
               NEW dir \in Cwd, RequestSession(c, t, dir, kind)
        PROVE  AskInv'
    <3> DEFINE req == [IdleClient EXCEPT !.pc = "queued", !.kind = kind, !.thread = t, !.cwd = dir]
    <3>1. /\ req.pc = "queued" /\ req.kind = kind /\ req.thread = t /\ req.worker = None
          /\ req \in ClientType
      BY DEF IdleClient, ClientType, AllKinds
    <3>2. RequestAt(req) /\ "session" \in Asking
      BY <3>1, <1>t DEF RequestAt, Asking
    <3>3. /\ UNCHANGED run /\ client[c].pc = "idle" /\ client' = [client EXCEPT ![c] = req]
          /\ lifecycle' = Append(lifecycle, Job("session", c)) /\ Exclusive(kind, t)
      BY <2>3 DEF RequestSession
    <3> HIDE DEF req
    <3> QED
      BY <3>1, <3>2, <3>3, <2>1
  <2>4. ASSUME NEW t \in Thread, NEW kind \in {"read", "turn", "mutate"}, RetainOwner(c, t, kind)
        PROVE  AskInv'
    <3>1. PICK w \in workers :
            client' = [client EXCEPT ![c] = [IdleClient EXCEPT
                         !.pc = "holds", !.kind = kind, !.thread = t, !.worker = w]]
      BY <2>4, Zenon DEF RetainOwner, FindByThread
    <3> DEFINE req == [IdleClient EXCEPT !.pc = "holds", !.kind = kind, !.thread = t, !.worker = w]
    <3>2. req.pc = "holds" /\ req.kind = kind /\ req.thread = t
      BY DEF IdleClient
    <3>3. RequestAt(req)
      BY <3>2, <1>t DEF RequestAt
    <3>4. UNCHANGED <<run, lifecycle>> /\ client[c].pc = "idle" /\ Exclusive(kind, t)
      BY <2>4 DEF RetainOwner
    <3>5. client'[c] = req /\ \A d \in Client : d # c => client'[d] = client[d]
      BY <3>1, <1>t
    <3> HIDE DEF req
    <3>6. WritersApart'
      BY <3>2, <3>4, <3>5, WritersStill DEF Exclusive, Writers
    <3> QED
      BY <3>3, <3>4, <3>5, <3>6, AskRequests
  <2>5. ASSUME NEW kind \in {"steer", "abort"}, BeginCommand(c, kind) PROVE AskInv'
    <3>1. PICK w \in workers :
            client' = [client EXCEPT ![c] = [IdleClient EXCEPT
                         !.pc = "commanding", !.kind = kind, !.worker = w]]
      BY <2>5, Zenon DEF BeginCommand
    <3> DEFINE req == [IdleClient EXCEPT !.pc = "commanding", !.kind = kind, !.worker = w]
    <3>2. req.pc = "commanding" /\ req.kind = kind /\ req.thread = None
      BY DEF IdleClient
    <3>3. RequestAt(req) /\ req.kind \notin Writers
      BY <3>2 DEF RequestAt, Writers
    <3>4. UNCHANGED <<run, lifecycle>> /\ client[c].pc # "queued"
      BY <2>5 DEF BeginCommand
    <3> HIDE DEF req
    <3> QED
      BY <3>1, <3>3, <3>4, <1>o DEF req
  <2> QED
    BY <1>3, <2>2, <2>3, <2>4, <2>5 DEF RequestStep
<1>4. ASSUME NEW c \in Client, UseStep(c) PROVE AskInv'
  <2>i. ASSUME UNCHANGED <<run, lifecycle>>, client[c].pc # "queued",
               client' = [client EXCEPT ![c] = IdleClient]
        PROVE  AskInv'
    BY <2>i, <1>i, <1>o
  <2>p. ASSUME UNCHANGED <<run, lifecycle>>, client[c].pc # "queued", NEW pc,
               client' = [client EXCEPT ![c] = [client[c] EXCEPT !.pc = pc]],
               \/ pc \in {"turn", "cleanup"} /\ client[c].kind = "turn"
               \/ pc = "mutating" /\ client[c].kind = "mutate"
               \/ pc = "settling" /\ client[c].kind = "abort"
        PROVE  AskInv'
    BY <2>p, <1>c, <1>o
  <2>1. ASSUME NEW t \in Thread, StartThread(c, t) PROVE AskInv'
    <3> DEFINE req == [client[c] EXCEPT !.pc = "turn", !.kind = "turn", !.thread = t]
    <3>1. req.pc = "turn" /\ req.kind = "turn" /\ req.thread = t
      BY <1>t DEF ClientType
    <3>2. RequestAt(req)
      BY <3>1, <1>t DEF RequestAt
    <3>3. /\ UNCHANGED <<run, lifecycle>> /\ client[c].pc = "holds"
          /\ client' = [client EXCEPT ![c] = req] /\ UnusedThread(t)
      BY <2>1 DEF StartThread
    <3>4. client'[c] = req /\ \A d \in Client : d # c => client'[d] = client[d]
      BY <3>3, <1>t
    <3> HIDE DEF req
    <3>5. WritersApart'
      BY <3>1, <3>3, <3>4, WritersStill DEF UnusedThread
    <3> QED
      BY <3>2, <3>3, <3>4, <3>5, AskRequests
  <2>2. ASSUME NEW t \in Thread, Fork(c, t) PROVE AskInv'
    BY <2>2, <1>u DEF Fork
  <2>3. CASE StartTurn(c)
    BY <2>3, <2>p DEF StartTurn
  <2>4. CASE EndTurn(c)
    <3>1. client[c].pc = "turn" /\ client[c].kind = "turn" /\ UNCHANGED <<run, lifecycle>>
      BY <2>4, <1>t DEF EndTurn, RequestAt
    <3>2. \/ client' = [client EXCEPT ![c] = [client[c] EXCEPT !.pc = "cleanup"]]
          \/ client' = [client EXCEPT ![c] = IdleClient]
      BY <2>4, Zenon DEF EndTurn
    <3> QED
      BY <3>1, <3>2, <2>p, <2>i
  <2>5. CASE BeginMutation(c)
    BY <2>5, <2>p DEF BeginMutation
  <2>6. CASE ReleaseHeld(c)
    BY <2>6, <2>i DEF ReleaseHeld
  <2>7. CASE CommandReturns(c)
    <3>1. client[c].pc = "commanding" /\ UNCHANGED <<run, lifecycle>>
      BY <2>7 DEF CommandReturns
    <3>2. CASE client[c].kind = "abort"
      <4>1. client' = [client EXCEPT ![c] = [client[c] EXCEPT !.pc = "settling"]]
        BY <2>7, <3>2 DEF CommandReturns
      <4> QED
        BY <3>1, <3>2, <4>1, <2>p
    <3>3. CASE client[c].kind # "abort"
      <4>1. client' = [client EXCEPT ![c] = IdleClient]
        BY <2>7, <3>3 DEF CommandReturns
      <4> QED
        BY <3>1, <4>1, <2>i
    <3> QED
      BY <3>2, <3>3
  <2>8. CASE FinishAbort(c)
    BY <2>8, <2>i DEF FinishAbort
  <2> QED
    BY <1>4, <2>1, <2>2, <2>3, <2>4, <2>5, <2>6, <2>7, <2>8 DEF UseStep
<1>5. ASSUME NEW t \in Thread, Persist(t) PROVE AskInv'
  BY <1>5, <1>u DEF Persist
<1>6. CASE UNCHANGED vars
  BY <1>6, <1>u DEF vars
<1> QED
  BY <1>1, <1>2, <1>3, <1>4, <1>5, <1>6

LEMMA InitAsks == ASSUME WorkerPoolAssumption, Init PROVE AskInv
<1>1. /\ lifecycle = <<Job("start", None)>> /\ run = NoJob /\ \A c \in Client : client[c] = IdleClient
      /\ None \notin Client
  BY DEF Init, WorkerPoolAssumption
<1>2. DOMAIN lifecycle = {1} /\ lifecycle[1].op = "start" /\ lifecycle[1].client = None
  BY <1>1 DEF Job
<1>3. QueueAt(lifecycle, client, run.client)
  BY <1>1, <1>2 DEF QueueAt, Awaits, Asking
<1> QED
  BY <1>1, <1>3 DEF AskInv, RequestAt, IdleClient, WritersApart, Writers, Awaits, Asking, PcAt, NoJob

LEMMA AskInvariant == Spec => []AskInv
<1> USE WorkerPoolAssumption
<1>1. Init => AskInv
  BY InitAsks
<1>2. TypeOK /\ AskInv /\ [Next]_vars => AskInv'
  <2> SUFFICES ASSUME TypeOK, AskInv, [Next]_vars PROVE AskInv'
    OBVIOUS
  <2> QED
    BY JobStepAsks, OutsideStepAsks DEF Next, Halted
<1> QED
  BY <1>1, <1>2, TypeCorrect, PTL DEF Spec

-----------------------------------------------------------------------------
(* What is known of a worker survives what happens to the others.          *)

NotBusy(rn, w) == ~Spawning(rn, w) /\ ~Switching(rn, w)

LEMMA FrameAt ==
  ASSUME NEW v, NEW ws, NEW obj, NEW cl, NEW rn, NEW ws2, NEW cl2, NEW rn2,
         HeldAt(v, ws, obj, cl, rn), v \in ws2 <=> v \in ws,
         \A c \in Client : cl[c].worker = v \/ cl2[c].worker = v => cl2[c] = cl[c],
         rn2 = rn \/ (NotBusy(rn, v) /\ NotBusy(rn2, v))
  PROVE  HeldAt(v, ws2, obj, cl2, rn2)
<1>1. Holders(cl2, v) = Holders(cl, v) /\ Commanders(cl2, v) = Commanders(cl, v)
  BY DEF Holders, Commanders
<1>2. /\ Spawning(rn2, v) <=> Spawning(rn, v)
      /\ Switching(rn2, v) <=> Switching(rn, v)
      /\ Claims(rn2, v) <=> Claims(rn, v)
  BY DEF NotBusy, Claims
<1>3. \A c \in Holders(cl, v) : HolderAt(c, v, obj, cl) => HolderAt(c, v, obj, cl2)
  BY <1>1 DEF Holders, HolderAt
<1>4. UsableAt(v, obj, cl, rn) => UsableAt(v, obj, cl2, rn2)
  BY <1>1, <1>2, <1>3 DEF UsableAt
<1>5. PendingAt(v, obj, cl2) /\ (v \in ws => WithdrawnAt(v, obj, cl2))
  BY <1>1 DEF HeldAt, PendingAt, WithdrawnAt
<1>6. KnownAt(v, ws2, obj, cl2)
  BY DEF HeldAt, KnownAt
<1>7. SpawnAt(v, ws2, obj, cl2, rn2) /\ SwitchAt(v, ws2, obj, cl2, rn2)
  BY <1>1, <1>2 DEF HeldAt, SpawnAt, SwitchAt
<1> QED
  BY <1>4, <1>5, <1>6, <1>7 DEF HeldAt

(* A step that concerns one worker, or none.                               *)
LEMMA OneWorker ==
  ASSUME WorkerPoolAssumption, NEW w,
         NEW ws, NEW wk, NEW cl, NEW rn, NEW ws2, NEW wk2, NEW cl2, NEW rn2,
         Held(ws, wk, cl, rn),
         \A v \in Worker : v # w => wk2[v] = wk[v] /\ (v \in ws2 <=> v \in ws),
         \A c \in Client : \/ cl2[c] = cl[c]
                           \/ cl[c].worker \in {None, w} /\ cl2[c].worker \in {None, w},
         \/ rn2 = rn
         \/ \A v \in Worker : v # w => NotBusy(rn, v) /\ NotBusy(rn2, v),
         w \in Worker => HeldAt(w, ws2, wk2[w], cl2, rn2)
  PROVE  Held(ws2, wk2, cl2, rn2)
<1>1. ASSUME NEW v \in Worker, v # w PROVE HeldAt(v, ws2, wk2[v], cl2, rn2)
  <2>1. HeldAt(v, ws, wk[v], cl, rn) /\ wk2[v] = wk[v] /\ (v \in ws2 <=> v \in ws)
    BY <1>1 DEF Held
  <2>2. \A c \in Client : cl[c].worker = v \/ cl2[c].worker = v => cl2[c] = cl[c]
    BY <1>1 DEF WorkerPoolAssumption
  <2> QED
    BY <1>1, <2>1, <2>2, FrameAt
<1> QED
  BY <1>1 DEF Held

(* Who holds and who commands a worker as one request changes.             *)
LEMMA HoldersChange ==
  ASSUME NEW cl, NEW cl2, NEW w, NEW c \in Client, \A d \in Client : d # c => cl2[d] = cl[d],
         IsFiniteSet(Holders(cl, w))
  PROVE  /\ IsFiniteSet(Holders(cl2, w))
         /\ Cardinality(Holders(cl, w)) \in Nat
         /\ c \in Holders(cl2, w) /\ c \notin Holders(cl, w) =>
              /\ Holders(cl2, w) = Holders(cl, w) \cup {c}
              /\ Cardinality(Holders(cl2, w)) = Cardinality(Holders(cl, w)) + 1
         /\ c \notin Holders(cl2, w) /\ c \in Holders(cl, w) =>
              /\ Holders(cl2, w) = Holders(cl, w) \ {c}
              /\ Cardinality(Holders(cl2, w)) = Cardinality(Holders(cl, w)) - 1
         /\ (c \in Holders(cl2, w) <=> c \in Holders(cl, w)) => Holders(cl2, w) = Holders(cl, w)
<1>1. \A d \in Client : d # c => (d \in Holders(cl2, w) <=> d \in Holders(cl, w))
  BY DEF Holders
<1>2. Holders(cl2, w) \subseteq Client /\ Holders(cl, w) \subseteq Client
  BY DEF Holders
<1> DEFINE S == Holders(cl, w)
           T == Holders(cl2, w)
<1> HIDE DEF S, T
<1>3. IsFiniteSet(S) /\ Cardinality(S) \in Nat
  BY FS_CardinalityType DEF S
<1>4. CASE c \in T /\ c \notin S
  <2>1. T = S \cup {c}
    BY <1>1, <1>2, <1>4 DEF S, T
  <2>2. IsFiniteSet(T) /\ Cardinality(T) = Cardinality(S) + 1
    BY <1>3, <1>4, <2>1, FS_AddElement
  <2> QED
    BY <1>3, <1>4, <2>1, <2>2 DEF S, T
<1>5. CASE c \notin T /\ c \in S
  <2>1. T = S \ {c}
    BY <1>1, <1>2, <1>5 DEF S, T
  <2>2. IsFiniteSet(T) /\ Cardinality(T) = Cardinality(S) - 1
    BY <1>3, <1>5, <2>1, FS_RemoveElement
  <2> QED
    BY <1>3, <1>5, <2>1, <2>2 DEF S, T
<1>6. CASE c \in T <=> c \in S
  <2>1. T = S
    BY <1>1, <1>2, <1>6 DEF S, T
  <2> QED
    BY <1>3, <1>6, <2>1 DEF S, T
<1> QED
  BY <1>4, <1>5, <1>6

LEMMA HolderAdded ==
  ASSUME NEW cl, NEW cl2, NEW w, NEW c \in Client, \A d \in Client : d # c => cl2[d] = cl[d],
         IsFiniteSet(Holders(cl, w)), c \in Holders(cl2, w), c \notin Holders(cl, w)
  PROVE  /\ IsFiniteSet(Holders(cl2, w))
         /\ Holders(cl2, w) = Holders(cl, w) \cup {c}
         /\ Cardinality(Holders(cl2, w)) = Cardinality(Holders(cl, w)) + 1
  BY HoldersChange

LEMMA HolderRemoved ==
  ASSUME NEW cl, NEW cl2, NEW w, NEW c \in Client, \A d \in Client : d # c => cl2[d] = cl[d],
         IsFiniteSet(Holders(cl, w)), c \notin Holders(cl2, w), c \in Holders(cl, w)
  PROVE  /\ IsFiniteSet(Holders(cl2, w))
         /\ Holders(cl2, w) = Holders(cl, w) \ {c}
         /\ Cardinality(Holders(cl2, w)) = Cardinality(Holders(cl, w)) - 1
  BY HoldersChange

LEMMA CommandersChange ==
  ASSUME NEW cl, NEW cl2, NEW w, NEW c \in Client, \A d \in Client : d # c => cl2[d] = cl[d],
         IsFiniteSet(Commanders(cl, w))
  PROVE  /\ IsFiniteSet(Commanders(cl2, w))
         /\ Cardinality(Commanders(cl, w)) \in Nat
         /\ c \in Commanders(cl2, w) /\ c \notin Commanders(cl, w) =>
              /\ Commanders(cl2, w) = Commanders(cl, w) \cup {c}
              /\ Cardinality(Commanders(cl2, w)) = Cardinality(Commanders(cl, w)) + 1
         /\ c \notin Commanders(cl2, w) /\ c \in Commanders(cl, w) =>
              /\ Commanders(cl2, w) = Commanders(cl, w) \ {c}
              /\ Cardinality(Commanders(cl2, w)) = Cardinality(Commanders(cl, w)) - 1
         /\ (c \in Commanders(cl2, w) <=> c \in Commanders(cl, w)) =>
              Commanders(cl2, w) = Commanders(cl, w)
<1>1. \A d \in Client : d # c => (d \in Commanders(cl2, w) <=> d \in Commanders(cl, w))
  BY DEF Commanders
<1>2. Commanders(cl2, w) \subseteq Client /\ Commanders(cl, w) \subseteq Client
  BY DEF Commanders
<1> DEFINE S == Commanders(cl, w)
           T == Commanders(cl2, w)
<1> HIDE DEF S, T
<1>3. IsFiniteSet(S) /\ Cardinality(S) \in Nat
  BY FS_CardinalityType DEF S
<1>4. CASE c \in T /\ c \notin S
  <2>1. T = S \cup {c}
    BY <1>1, <1>2, <1>4 DEF S, T
  <2>2. IsFiniteSet(T) /\ Cardinality(T) = Cardinality(S) + 1
    BY <1>3, <1>4, <2>1, FS_AddElement
  <2> QED
    BY <1>3, <1>4, <2>1, <2>2 DEF S, T
<1>5. CASE c \notin T /\ c \in S
  <2>1. T = S \ {c}
    BY <1>1, <1>2, <1>5 DEF S, T
  <2>2. IsFiniteSet(T) /\ Cardinality(T) = Cardinality(S) - 1
    BY <1>3, <1>5, <2>1, FS_RemoveElement
  <2> QED
    BY <1>3, <1>5, <2>1, <2>2 DEF S, T
<1>6. CASE c \in T <=> c \in S
  <2>1. T = S
    BY <1>1, <1>2, <1>6 DEF S, T
  <2> QED
    BY <1>3, <1>6, <2>1 DEF S, T
<1> QED
  BY <1>4, <1>5, <1>6

LEMMA CommanderRemoved ==
  ASSUME NEW cl, NEW cl2, NEW w, NEW c \in Client, \A d \in Client : d # c => cl2[d] = cl[d],
         IsFiniteSet(Commanders(cl, w)), c \notin Commanders(cl2, w), c \in Commanders(cl, w)
  PROVE  /\ IsFiniteSet(Commanders(cl2, w))
         /\ Commanders(cl2, w) = Commanders(cl, w) \ {c}
         /\ Cardinality(Commanders(cl2, w)) = Cardinality(Commanders(cl, w)) - 1
  BY CommandersChange

LEMMA CommanderAdded ==
  ASSUME NEW cl, NEW cl2, NEW w, NEW c \in Client, \A d \in Client : d # c => cl2[d] = cl[d],
         IsFiniteSet(Commanders(cl, w)), c \in Commanders(cl2, w), c \notin Commanders(cl, w)
  PROVE  /\ IsFiniteSet(Commanders(cl2, w))
         /\ Commanders(cl2, w) = Commanders(cl, w) \cup {c}
         /\ Cardinality(Commanders(cl2, w)) = Cardinality(Commanders(cl, w)) + 1
  BY CommandersChange

(* A quiescent worker is used by nobody.                                   *)
Quiet(obj) ==
  /\ obj.state \in {"idle", "assigned"}
  /\ ~obj.turn /\ ~obj.aborting /\ ~obj.retiring
  /\ obj.res = 0 /\ obj.pending = 0

LEMMA QuietUnused ==
  ASSUME NEW w, NEW ws, NEW obj, NEW cl, NEW rn, HeldAt(w, ws, obj, cl, rn), w \in ws, Quiet(obj)
  PROVE  /\ obj.proc = "live" /\ ~Gone(obj)
         /\ Holders(cl, w) = {} /\ Commanders(cl, w) = {}
         /\ NotBusy(rn, w)
<1>1. ~Gone(obj) /\ obj.state # "starting"
  BY DEF Quiet, Gone
<1>2. UsableAt(w, obj, cl, rn) /\ PendingAt(w, obj, cl)
  BY <1>1 DEF HeldAt
<1>3. IsFiniteSet(Commanders(cl, w)) /\ Cardinality(Commanders(cl, w)) = 0
  BY <1>2 DEF PendingAt, Quiet
<1>4. IsFiniteSet(Holders(cl, w)) /\ Cardinality(Holders(cl, w)) \in Nat
      /\ Cardinality(Holders(cl, w)) + (IF Claims(rn, w) THEN 1 ELSE 0) = 0
  BY <1>2, FS_CardinalityType DEF UsableAt, Quiet
<1>5. ~Claims(rn, w) /\ Cardinality(Holders(cl, w)) = 0
  BY <1>4
<1>6. Holders(cl, w) = {} /\ Commanders(cl, w) = {}
  BY <1>3, <1>4, <1>5, FS_EmptySet
<1>7. ~Spawning(rn, w)
  BY <1>1 DEF HeldAt, SpawnAt
<1> QED
  BY <1>1, <1>2, <1>5, <1>6, <1>7 DEF UsableAt, NotBusy, Claims

(* A worker that was stopped, crashed or replaced.                         *)
LEMMA GoneAt ==
  ASSUME NEW w, NEW ws, NEW obj, NEW cl, NEW rn, NEW ws2, NEW obj2, NEW cl2, NEW rn2,
         HeldAt(w, ws, obj, cl, rn), Gone(obj2), obj2.pending = obj.pending,
         Commanders(cl2, w) = Commanders(cl, w),
         ~Spawning(rn2, w),
         Switching(rn2, w) =>
           obj2.thread = None /\ ~obj2.turn /\ Holders(cl2, w) = {} /\ Commanders(cl2, w) = {},
         w \in ws2 /\ obj2.retiring =>
           ~obj2.turn /\ Holders(cl2, w) = {} /\ Commanders(cl2, w) = {}
  PROVE  HeldAt(w, ws2, obj2, cl2, rn2)
  BY DEF HeldAt, PendingAt, WithdrawnAt, KnownAt, SpawnAt, SwitchAt

(* One that has left the Map.                                              *)
LEMMA RemovedAt ==
  ASSUME NEW w, NEW ws, NEW obj, NEW cl, NEW rn, NEW ws2, NEW obj2, NEW rn2,
         HeldAt(w, ws, obj, cl, rn), w \notin ws2, obj2.pending = obj.pending, NotBusy(rn2, w),
         Gone(obj2) \/ (obj2.state = "starting" /\ obj2.proc = "none"),
         \A c \in Client : cl[c].worker = w => Gone(obj2) \/ cl[c].pc \in {"idle", "queued"}
  PROVE  HeldAt(w, ws2, obj2, cl, rn2)
  BY DEF HeldAt, PendingAt, KnownAt, SpawnAt, SwitchAt, NotBusy

(* A new one.                                                              *)
LEMMA FreshAt ==
  ASSUME NEW w, NEW ws, NEW cl, NEW rn, NEW dir, NEW reserve,
         w \in ws, \A c \in Client : cl[c].worker # w,
         Spawning(rn, w), rn.op \in Asking <=> reserve
  PROVE  HeldAt(w, ws, FreshWorker(dir, reserve), cl, rn)
<1> DEFINE obj == FreshWorker(dir, reserve)
<1>1. /\ obj.state = "starting" /\ obj.proc = "none"
      /\ obj.thread = None /\ ~obj.turn /\ ~obj.aborting /\ ~obj.retiring
      /\ obj.pending = 0 /\ obj.res = (IF reserve THEN 1 ELSE 0) /\ (obj.claimed <=> reserve)
  BY DEF FreshWorker
<1>2. Holders(cl, w) = {} /\ Commanders(cl, w) = {}
  BY DEF Holders, Commanders
<1>3. IsFiniteSet(Holders(cl, w)) /\ Cardinality(Holders(cl, w)) = 0
      /\ IsFiniteSet(Commanders(cl, w)) /\ Cardinality(Commanders(cl, w)) = 0
  BY <1>2, FS_EmptySet
<1>4. ~Switching(rn, w) /\ (Claims(rn, w) <=> reserve)
  BY DEF Spawning, Switching, Claims
<1> HIDE DEF obj
<1>5. UsableAt(w, obj, cl, rn)
  BY <1>1, <1>2, <1>3, <1>4 DEF UsableAt
<1>6. PendingAt(w, obj, cl) /\ WithdrawnAt(w, obj, cl) /\ KnownAt(w, ws, obj, cl)
  BY <1>1, <1>3 DEF PendingAt, WithdrawnAt, KnownAt
<1>7. SpawnAt(w, ws, obj, cl, rn) /\ SwitchAt(w, ws, obj, cl, rn)
  BY <1>1, <1>4 DEF SpawnAt, SwitchAt
<1> QED
  BY <1>5, <1>6, <1>7 DEF HeldAt, obj

(* One that nobody holds, in nobody's hands, or in those of the job that   *)
(* switches its session.                                                   *)
LEMMA FreeAt ==
  ASSUME NEW w, NEW ws, NEW obj, NEW cl, NEW rn,
         w \in ws, obj.state \in {"idle", "assigned"}, obj.proc = "live",
         ~obj.turn, ~obj.aborting, ~obj.retiring, obj.pending = 0,
         Holders(cl, w) = {}, Commanders(cl, w) = {}, ~Spawning(rn, w),
         obj.res = (IF Switching(rn, w) THEN 1 ELSE 0),
         Switching(rn, w) => obj.thread = None,
         obj.thread # None \/ obj.res # 0 => obj.claimed
  PROVE  HeldAt(w, ws, obj, cl, rn)
<1>3. IsFiniteSet(Holders(cl, w)) /\ Cardinality(Holders(cl, w)) = 0
      /\ IsFiniteSet(Commanders(cl, w)) /\ Cardinality(Commanders(cl, w)) = 0
  BY FS_EmptySet
<1>4. Claims(rn, w) <=> Switching(rn, w)
  BY DEF Claims
<1>5. UsableAt(w, obj, cl, rn)
  BY <1>3, <1>4 DEF UsableAt
<1>6. PendingAt(w, obj, cl) /\ WithdrawnAt(w, obj, cl) /\ KnownAt(w, ws, obj, cl)
  BY <1>3 DEF PendingAt, WithdrawnAt, KnownAt
<1>7. SpawnAt(w, ws, obj, cl, rn) /\ SwitchAt(w, ws, obj, cl, rn)
  BY DEF SpawnAt, SwitchAt
<1> QED
  BY <1>5, <1>6, <1>7 DEF HeldAt

(* One that nobody held and that is given to request c.                    *)
Given(c, w, cl, cl2) ==
  /\ cl[c].pc = "queued" /\ cl[c].kind # "abort"
  /\ cl2[c].worker = w /\ cl2[c].pc = "holds" /\ cl2[c].kind = cl[c].kind
  /\ \A d \in Client : d # c => cl2[d] = cl[d]

HeldOnce(obj) ==
  /\ obj.state \in {"idle", "assigned"} /\ obj.proc = "live"
  /\ ~obj.turn /\ ~obj.retiring /\ obj.res = 1 /\ obj.claimed

Suits(obj, req) ==
  /\ req.kind = "new" => obj.thread = None
  /\ req.kind \in Writers => obj.thread # None /\ obj.thread = req.thread

LEMMA GrantedAt ==
  ASSUME NEW w, NEW ws, NEW obj, NEW obj2, NEW cl, NEW cl2, NEW rn, NEW c \in Client,
         Holders(cl, w) = {}, PendingAt(w, obj, cl), Given(c, w, cl, cl2),
         w \in ws, HeldOnce(obj2), obj2.pending = obj.pending,
         obj2.aborting => \E d \in Client : cl[d].worker = w /\ cl[d].kind = "abort",
         Suits(obj2, cl2[c]), NotBusy(rn, w)
  PROVE  HeldAt(w, ws, obj2, cl2, rn)
<1>1. IsFiniteSet(Holders(cl, w)) /\ Cardinality(Holders(cl, w)) = 0
  BY FS_EmptySet
<1>2. c \in Holders(cl2, w) /\ c \notin Holders(cl, w)
      /\ c \notin Commanders(cl2, w) /\ c \notin Commanders(cl, w)
  BY DEF Given, Holders, Commanders
<1>3. /\ IsFiniteSet(Holders(cl2, w)) /\ Holders(cl2, w) = {c}
      /\ Cardinality(Holders(cl2, w)) = 1
  <2>1. /\ IsFiniteSet(Holders(cl2, w))
        /\ Holders(cl2, w) = Holders(cl, w) \cup {c}
        /\ Cardinality(Holders(cl2, w)) = Cardinality(Holders(cl, w)) + 1
    BY <1>1, <1>2, HolderAdded DEF Given
  <2> QED
    BY <1>1, <2>1
<1>4. IsFiniteSet(Commanders(cl, w)) /\ Commanders(cl2, w) = Commanders(cl, w)
  BY <1>2, CommandersChange DEF PendingAt, Given
<1>5. ~Claims(rn, w)
  BY DEF NotBusy, Claims
<1>6. obj2.aborting => \E d \in Client : cl2[d].worker = w /\ cl2[d].kind = "abort"
  BY DEF Given
<1>7. HolderAt(c, w, obj2, cl2)
  BY <1>3 DEF HolderAt, Suits
<1>8. UsableAt(w, obj2, cl2, rn)
  BY <1>3, <1>5, <1>6, <1>7 DEF UsableAt, HeldOnce
<1>9. PendingAt(w, obj2, cl2) /\ WithdrawnAt(w, obj2, cl2) /\ KnownAt(w, ws, obj2, cl2)
  BY <1>4 DEF PendingAt, WithdrawnAt, KnownAt, HeldOnce
<1>10. SpawnAt(w, ws, obj2, cl2, rn) /\ SwitchAt(w, ws, obj2, cl2, rn)
  BY DEF SpawnAt, SwitchAt, NotBusy
<1> QED
  BY <1>8, <1>9, <1>10 DEF HeldAt

(* One whose marks change, or the phases of those who hold it.             *)
LEMMA MarkedAt ==
  ASSUME NEW w, NEW ws, NEW obj, NEW obj2, NEW cl, NEW cl2, NEW rn,
         HeldAt(w, ws, obj, cl, rn),
         obj2.proc = obj.proc, obj2.res = obj.res, obj2.pending = obj.pending,
         obj2.retiring = obj.retiring, obj2.claimed = obj.claimed,
         ~Gone(obj), ~Gone(obj2), obj2.state = obj.state \/ obj2.state # "starting",
         Holders(cl2, w) = Holders(cl, w), Commanders(cl2, w) = Commanders(cl, w),
         Holders(cl, w) # {},
         \A c \in Client : cl[c].kind = "abort" => cl2[c] = cl[c],
         \A c \in Client : cl2[c] = cl[c] \/ cl[c].worker # w \/ c \in Holders(cl, w),
         \A c \in Client : cl2[c] = cl[c] \/ cl2[c].worker # w \/ c \in Holders(cl, w),
         obj2.aborting => obj.aborting,
         obj2.turn => \E c \in Client : cl2[c].worker = w /\ cl2[c].pc = "turn",
         UsableAt(w, obj, cl, rn) => \A c \in Holders(cl, w) : HolderAt(c, w, obj2, cl2)
  PROVE  HeldAt(w, ws, obj2, cl2, rn) /\ w \in ws
<1>1. PICK h \in Client : cl[h].worker = w /\ cl[h].pc \notin {"idle", "queued"}
  BY DEF Holders
<1>2. w \in ws
  BY <1>1 DEF HeldAt, KnownAt
<1>3. NotBusy(rn, w)
  BY <1>1 DEF HeldAt, SpawnAt, SwitchAt, NotBusy
<1>4. UsableAt(w, obj, cl, rn) /\ obj.state # "starting"
  BY <1>2, <1>3 DEF HeldAt, UsableAt, NotBusy
<1>5. ~Claims(rn, w)
  BY <1>3 DEF NotBusy, Claims
<1>6. obj.claimed
  <2>1. obj.res = Cardinality(Holders(cl, w)) /\ IsFiniteSet(Holders(cl, w))
    BY <1>4, <1>5, FS_CardinalityType DEF UsableAt
  <2>2. obj.res # 0
    BY <2>1, FS_EmptySet
  <2> QED
    BY <1>4, <2>2 DEF UsableAt
<1>7. UsableAt(w, obj2, cl2, rn)
  <2>1. obj2.aborting => \E c \in Client : cl2[c].worker = w /\ cl2[c].kind = "abort"
    BY <1>4 DEF UsableAt
  <2> QED
    BY <1>4, <1>5, <1>6, <2>1 DEF UsableAt
<1>8. PendingAt(w, obj2, cl2) /\ WithdrawnAt(w, obj2, cl2) /\ KnownAt(w, ws, obj2, cl2)
  BY <1>2 DEF HeldAt, PendingAt, WithdrawnAt, KnownAt
<1>9. SpawnAt(w, ws, obj2, cl2, rn) /\ SwitchAt(w, ws, obj2, cl2, rn)
  BY <1>3 DEF SpawnAt, SwitchAt, NotBusy
<1> QED
  BY <1>2, <1>7, <1>8, <1>9 DEF HeldAt

-----------------------------------------------------------------------------
(* The parts of a job's step.                                              *)

(* The job op of request c goes on with these workers, none in its hands.  *)
Ready(ws, wk, op, c) ==
  /\ UseAt(ws, wk, client, NoJob)
  /\ op = "session" => Unowned(ws, wk, client[c].thread)
  /\ op \in Asking => c \in Client /\ Awaits(Job(op, c), client)

(* Fewer workers are usable, or fewer of those have a thread.              *)
Shrinks(ws, wk, ws2, wk2) ==
  \A w \in ws2 : ~Gone(wk2[w]) /\ wk2[w].thread # None =>
                   w \in ws /\ ~Gone(wk[w]) /\ wk[w].thread = wk2[w].thread

LEMMA ShrinksOwned ==
  ASSUME NEW ws, NEW wk, NEW ws2, NEW wk2, Shrinks(ws, wk, ws2, wk2)
  PROVE  /\ OwnedOnce(ws, wk) => OwnedOnce(ws2, wk2)
         /\ \A t : t # None /\ Unowned(ws, wk, t) => Unowned(ws2, wk2, t)
  BY DEF Shrinks, OwnedOnce, Unowned

(* A request that waits for a session names its thread.                    *)
LEMMA AskedThread ==
  ASSUME AskInv, NEW op, NEW c, op = "session", c \in Client, Awaits(Job(op, c), client)
  PROVE  client[c].thread # None /\ client[c].pc = "queued" /\ client[c].worker = None
         /\ client[c].kind \in {"read", "turn", "mutate"}
  BY DEF AskInv, RequestAt, Awaits, Job, Asking

LEMMA NoJobQuiet == \A w : NotBusy(NoJob, w) /\ NoJob.op = "none" /\ NoJob.client = None
  BY DEF NotBusy, NoJob, Spawning, Switching

LEMMA RetireFields ==
  ASSUME NEW obj \in WorkerType, Quiet(obj), obj.proc = "live"
  PROVE  LET o == Retire(obj)
         IN Gone(o) /\ o.pending = obj.pending /\ ~o.turn /\ o.thread = obj.thread
  BY DEF WorkerType, Quiet, Retire, Stop, Gone

LEMMA ReassignedFields ==
  ASSUME NEW obj \in WorkerType
  PROVE  LET o == Reassigned(obj)
         IN /\ o.state = "assigned" /\ o.res = obj.res + 1 /\ o.claimed /\ o.thread = None
            /\ o.proc = obj.proc /\ o.pending = obj.pending /\ o.turn = obj.turn
            /\ o.aborting = obj.aborting /\ o.retiring = obj.retiring
  BY DEF WorkerType, Reassigned

(* The job ends without a worker.                                          *)
LEMMA QuitUse ==
  ASSUME NEW ws, NEW wk, UseAt(ws, wk, client, NoJob),
         workers' = ws, worker' = wk, run' = NoJob, UNCHANGED client
  PROVE  UseInv'
  BY DEF UseInv, UseAt, Unasked

LEMMA RejectUse ==
  ASSUME WorkerPoolAssumption, TypeOK, AskInv, NEW ws, NEW wk, UseAt(ws, wk, client, NoJob),
         NEW op \in Asking, NEW c \in Client, Awaits(Job(op, c), client),
         workers' = ws, worker' = wk, Reject(c)
  PROVE  UseInv'
<1>1. c \in Client /\ client[c].pc = "queued" /\ client[c].worker = None
  BY DEF Awaits, Job, AskInv, RequestAt
<1>2. client \in [Client -> ClientType]
  BY DEF TypeOK
<1>3. client' = [client EXCEPT ![c] = IdleClient] /\ run' = NoJob
  BY DEF Reject
<1>4. client'[c].worker = None /\ \A d \in Client : d # c => client'[d] = client[d]
  BY <1>1, <1>2, <1>3 DEF IdleClient
<1>5. Held(ws, wk, client', NoJob)
  <2>1. \A d \in Client : \/ client'[d] = client[d]
                          \/ client[d].worker \in {None} /\ client'[d].worker \in {None}
    BY <1>1, <1>4
  <2> QED
    BY ZenonT(60), <2>1, OneWorker, WorkerPoolAssumption DEF UseAt
<1> QED
  BY <1>3, <1>5, NoJobQuiet DEF UseInv, UseAt, Unasked

(* spawn adds a new worker.                                                *)
LEMMA BeginSpawnUse ==
  ASSUME WorkerPoolAssumption, TypeOK, AskInv, NEW ws \in SUBSET workers, NEW wk \in [Worker -> WorkerType],
         NEW op, NEW c, NEW dir, Ready(ws, wk, op, c),
         BeginSpawn(op, c, dir, ws, wk), UNCHANGED client
  PROVE  UseInv'
<1>1. PICK w \in Forgotten :
        /\ workers' = ws \cup {w}
        /\ worker' = [wk EXCEPT ![w] = FreshWorker(dir, op \in {"new", "session"})]
        /\ run' = [NoJob EXCEPT !.op = op, !.pc = "spawn", !.client = c, !.worker = w]
  BY DEF BeginSpawn
<1>2. w \in Worker /\ w \notin workers /\ \A d \in Client : client[d].worker # w
  BY DEF Forgotten
<1>3. run'.op = op /\ run'.pc = "spawn" /\ run'.client = c /\ run'.worker = w
  BY <1>1 DEF NoJob
<1>4. /\ worker'[w] = FreshWorker(dir, op \in Asking)
      /\ \A v \in Worker : v # w => worker'[v] = wk[v]
  BY <1>1, <1>2 DEF Asking
<1>5. HeldAt(w, workers', worker'[w], client', run')
  <2>1. Spawning(run', w) /\ w \in workers'
    BY <1>1, <1>3 DEF Spawning
  <2>3. HeldAt(w, workers', FreshWorker(dir, op \in Asking), client, run')
    BY <1>2, <1>3, <2>1, FreshAt
  <2> QED
    BY <1>4, <2>3
<1>6. Held(workers', worker', client', run')
  <2>1. \A v \in Worker : v # w => NotBusy(NoJob, v) /\ NotBusy(run', v)
    BY <1>3, NoJobQuiet DEF NotBusy, Spawning, Switching
  <2>2. \A v \in Worker : v # w => worker'[v] = wk[v] /\ (v \in workers' <=> v \in ws)
    BY <1>1, <1>4
  <2>3. Held(ws, wk, client, NoJob)
    BY DEF Ready, UseAt
  <2> QED
    BY <1>5, <2>1, <2>2, <2>3, OneWorker
<1>7. Shrinks(ws, wk, workers', worker')
  <2>1. worker'[w].thread = None
    BY <1>4 DEF FreshWorker
  <2>2. ws \subseteq Worker
    BY DEF TypeOK
  <2> QED
    BY <1>1, <1>4, <2>1, <2>2 DEF Shrinks
<1>8. Unasked(workers', worker', client', run')
  BY <1>3, <1>7, ShrinksOwned, AskedThread DEF Ready, Unasked, Asking
<1> QED
  BY <1>6, <1>7, <1>8, ShrinksOwned DEF Ready, UseInv, UseAt

(* A worker nobody uses is selected: granted, or switched first.           *)
LEMMA SelectedUse ==
  ASSUME WorkerPoolAssumption, TypeOK, AskInv, NEW ws \in SUBSET workers, NEW rn,
         NEW op \in Asking, NEW c \in Client, NEW w \in ws, NEW obj,
         Held(ws, worker, client, rn), \A v \in Worker : v # w => NotBusy(rn, v),
         OwnedOnce(ws, worker), op = "session" => Unowned(ws, worker, client[c].thread),
         Awaits(Job(op, c), client),
         Holders(client, w) = {}, Commanders(client, w) = {},
         obj.state = "assigned", obj.proc = "live", ~obj.turn, ~obj.aborting, ~obj.retiring,
         obj.pending = worker[w].pending, obj.res = 1, obj.claimed, obj.thread = None,
         workers' = ws, worker'[w] = obj, \A v \in Worker : v # w => worker'[v] = worker[v],
         Selected(op, c, w)
  PROVE  UseInv'
<1>1. /\ w \in Worker /\ worker \in [Worker -> WorkerType] /\ ws \subseteq Worker
      /\ client \in [Client -> ClientType]
  BY DEF TypeOK
<1>2. /\ worker'[w] = obj
      /\ \A v \in Worker : v # w => worker'[v] = worker[v] /\ (v \in workers' <=> v \in ws)
  BY <1>1
<1>3. PendingAt(w, worker[w], client)
  BY <1>1 DEF Held, HeldAt
<1>4. obj.pending = 0
  BY <1>3, FS_EmptySet DEF PendingAt
<1>5. client[c].pc = "queued" /\ client[c].worker = None /\ (op = "new" <=> client[c].kind = "new")
      /\ client[c].kind # "abort"
  BY DEF Awaits, Job, AskInv, RequestAt
<1>6. Shrinks(ws, worker, workers', worker')
  BY <1>1, <1>2 DEF Shrinks
<1>7. OwnedOnce(workers', worker')
  BY <1>6, ShrinksOwned
<1>8. CASE op = "new" /\ Grant(c, w)
  <2>1. run' = NoJob /\ client' = [client EXCEPT ![c].pc = "holds", ![c].worker = w]
    BY <1>8 DEF Grant
  <2>2. /\ client'[c].pc = "holds" /\ client'[c].worker = w /\ client'[c].kind = client[c].kind
        /\ \A d \in Client : d # c => client'[d] = client[d]
    BY <1>1, <2>1 DEF ClientType
  <2>3. HeldAt(w, workers', worker'[w], client', NoJob)
    <3>1. NotBusy(NoJob, w) /\ client'[c].kind = "new" /\ client'[c].kind \notin Writers
      BY <1>5, <1>8, <2>2, NoJobQuiet DEF Writers
    <3>2. HeldOnce(obj) /\ Suits(obj, client'[c]) /\ Given(c, w, client, client')
      BY <1>5, <2>2, <3>1 DEF HeldOnce, Suits, Given
    <3>3. HeldAt(w, ws, obj, client', NoJob)
      BY <1>3, <3>1, <3>2, GrantedAt
    <3> QED
      BY <1>2, <3>3
  <2>4. Held(workers', worker', client', NoJob)
    <3>1. \A d \in Client : \/ client'[d] = client[d]
                            \/ client[d].worker \in {None, w} /\ client'[d].worker \in {None, w}
      BY <1>5, <2>2
    <3>2. \A v \in Worker : v # w => NotBusy(rn, v) /\ NotBusy(NoJob, v)
      BY NoJobQuiet
    <3> QED
      BY <1>2, <2>3, <3>1, <3>2, OneWorker
  <2> QED
    BY <1>7, <2>1, <2>4, NoJobQuiet DEF UseInv, UseAt, Unasked
<1>9. CASE /\ op = "session" /\ UNCHANGED client
           /\ run' = [NoJob EXCEPT !.op = op, !.pc = "switch", !.client = c, !.worker = w]
  <2>1. run'.op = op /\ run'.pc = "switch" /\ run'.client = c /\ run'.worker = w
    BY <1>9 DEF NoJob
  <2>2. Switching(run', w) /\ ~Spawning(run', w) /\ \A v \in Worker : v # w => NotBusy(run', v)
    BY <2>1 DEF NotBusy, Spawning, Switching
  <2>3. HeldAt(w, workers', worker'[w], client', run')
    BY <1>2, <1>4, <1>9, <2>2, FreeAt
  <2>4. Held(workers', worker', client', run')
    <3>1. \A d \in Client : client'[d] = client[d]
      BY <1>9
    <3>2. \A v \in Worker : v # w => NotBusy(rn, v) /\ NotBusy(run', v)
      BY <2>2
    <3>3. Held(workers', worker', client, run')
      BY SMTT(30), <1>2, <1>9, <2>3, <3>2, OneWorker
    <3> QED
      BY <1>9, <3>3
  <2>5. Unasked(workers', worker', client', run')
    BY <1>6, <1>9, <2>1, ShrinksOwned, AskedThread DEF Unasked
  <2> QED
    BY <1>7, <2>4, <2>5 DEF UseInv, UseAt
<1> QED
  BY <1>8, <1>9 DEF Selected

(* A worker nobody uses is stopped, and its stop awaited.                  *)
LEMMA RetireUse ==
  ASSUME WorkerPoolAssumption, TypeOK, AskInv, NEW ws \in SUBSET workers, NEW op, NEW c,
         NEW w \in ws, IsQuiescent(w),
         UseAt(ws, worker, client, NoJob),
         op = "session" =>
           /\ c \in Client /\ Awaits(Job(op, c), client)
           /\ \A v \in ws : v # w /\ ~Gone(worker[v]) => worker[v].thread # client[c].thread,
         workers' = ws, worker'[w] = Retire(worker[w]), \A v \in Worker : v # w => worker'[v] = worker[v],
         run'.op = op, run'.client = c, run'.worker = w, run'.pc \notin {"spawn", "switch"},
         UNCHANGED client
  PROVE  UseInv'
<1>1. /\ w \in Worker /\ worker \in [Worker -> WorkerType] /\ worker[w] \in WorkerType
      /\ ws \subseteq Worker
  BY DEF TypeOK
<1>2. /\ worker'[w] = Retire(worker[w])
      /\ \A v \in Worker : v # w => worker'[v] = worker[v] /\ (v \in workers' <=> v \in ws)
  BY <1>1
<1>3. Quiet(worker[w])
  BY DEF IsQuiescent, Quiet
<1>4. HeldAt(w, ws, worker[w], client, NoJob)
  BY <1>1 DEF UseAt, Held
<1>5. worker[w].proc = "live" /\ Holders(client, w) = {} /\ Commanders(client, w) = {}
  BY <1>3, <1>4, QuietUnused
<1>6. /\ Gone(worker'[w]) /\ worker'[w].pending = worker[w].pending /\ ~worker'[w].turn
      /\ worker'[w].thread = worker[w].thread
  BY <1>1, <1>2, <1>3, <1>5, RetireFields
<1>7. \A v \in Worker : NotBusy(run', v)
  BY DEF NotBusy, Spawning, Switching
<1>8. HeldAt(w, workers', worker'[w], client', run')
  BY <1>1, <1>4, <1>5, <1>6, <1>7, GoneAt DEF NotBusy
<1>9. Held(workers', worker', client', run')
  <2>1. \A d \in Client : client'[d] = client[d]
    OBVIOUS
  <2>2. \A v \in Worker : v # w => NotBusy(NoJob, v) /\ NotBusy(run', v)
    BY <1>7, NoJobQuiet
  <2>3. Held(ws, worker, client, NoJob)
    BY DEF UseAt
  <2> QED
    BY <1>2, <1>8, <2>1, <2>2, <2>3, OneWorker
<1>10. Shrinks(ws, worker, workers', worker')
  BY <1>1, <1>2, <1>6 DEF Shrinks
<1>11. Unasked(workers', worker', client', run')
  BY <1>1, <1>2, <1>6 DEF Unasked, Unowned
<1> QED
  BY <1>9, <1>10, <1>11, ShrinksOwned DEF UseInv, UseAt

LEMMA SpawnReservedUse ==
  ASSUME WorkerPoolAssumption, TypeOK, AskInv, NEW ws \in SUBSET workers,
         NEW op \in Asking, NEW c, Ready(ws, worker, op, c),
         NEW timer, SpawnReserved(op, c, ws, timer)
  PROVE  UseInv'
<1>1. CASE BeginSpawn(op, c, client[c].cwd, ws, worker) /\ UNCHANGED client
  <2>1. worker \in [Worker -> WorkerType]
    BY DEF TypeOK
  <2> QED
    BY <1>1, <2>1, BeginSpawnUse
<1>2. CASE Reject(c) /\ workers' = ws /\ UNCHANGED worker
  BY <1>2, RejectUse DEF Ready
<1> QED
  BY <1>1, <1>2, Zenon DEF SpawnReserved

(* Selecting a worker: reuse, refusal, replacement of a victim, or spawn.  *)
LEMMA SelectWorkerUse ==
  ASSUME WorkerPoolAssumption, TypeOK, AskInv, NEW ws \in SUBSET workers,
         NEW op \in Asking, NEW c, Ready(ws, worker, op, c),
         NEW timer, SelectWorker(op, c, ws, timer)
  PROVE  UseInv'
<1>t. worker \in [Worker -> WorkerType] /\ ws \subseteq Worker
  BY DEF TypeOK
<1>r. /\ UseAt(ws, worker, client, NoJob) /\ c \in Client /\ Awaits(Job(op, c), client)
      /\ op = "session" => Unowned(ws, worker, client[c].thread)
  BY DEF Ready
<1>1. ASSUME NEW w \in ws, IsReclaimable(w), worker' = [worker EXCEPT ![w] = Reassigned(@)],
             Selected(op, c, w), workers' = ws
      PROVE  UseInv'
  <2> DEFINE obj == Reassigned(worker[w])
  <2>1. w \in Worker /\ worker[w] \in WorkerType /\ Quiet(worker[w])
    BY <1>t, <1>1 DEF IsReclaimable, IsQuiescent, Quiet
  <2>2. HeldAt(w, ws, worker[w], client, NoJob)
    BY <1>r, <2>1 DEF UseAt, Held
  <2>3. worker[w].proc = "live" /\ Holders(client, w) = {} /\ Commanders(client, w) = {}
    BY <2>1, <2>2, QuietUnused
  <2>4. /\ obj.state = "assigned" /\ obj.proc = "live" /\ ~obj.turn /\ ~obj.aborting /\ ~obj.retiring
        /\ obj.pending = worker[w].pending /\ obj.res = 1 /\ obj.claimed /\ obj.thread = None
    BY <2>1, <2>3, ReassignedFields DEF Quiet
  <2>5. worker'[w] = obj /\ \A v \in Worker : v # w => worker'[v] = worker[v]
    BY <1>t, <1>1, <2>1
  <2>6. \A v \in Worker : v # w => NotBusy(NoJob, v)
    BY NoJobQuiet
  <2>7. Held(ws, worker, client, NoJob) /\ OwnedOnce(ws, worker)
    BY <1>r DEF UseAt
  <2> HIDE DEF obj
  <2>8. workers' = ws /\ Selected(op, c, w)
    BY <1>1
  <2> QED
    BY <1>r, <2>3, <2>4, <2>5, <2>6, <2>7, <2>8, SelectedUse
<1>2. CASE Reject(c) /\ workers' = ws /\ UNCHANGED worker
  BY <1>2, <1>r, RejectUse
<1>3. ASSUME NEW w \in ws, IsReclaimable(w), worker' = [worker EXCEPT ![w] = Retire(@)],
             run' = [NoJob EXCEPT !.op = op, !.pc = "victim", !.client = c, !.worker = w],
             workers' = ws, UNCHANGED client
      PROVE  UseInv'
  <2>1. IsQuiescent(w)
    BY <1>3 DEF IsReclaimable
  <2>2. worker'[w] = Retire(worker[w]) /\ \A v \in Worker : v # w => worker'[v] = worker[v]
    BY <1>t, <1>3
  <2>3. run'.op = op /\ run'.client = c /\ run'.worker = w /\ run'.pc \notin {"spawn", "switch"}
    BY <1>3 DEF NoJob
  <2>4. op = "session" =>
          \A v \in ws : v # w /\ ~Gone(worker[v]) => worker[v].thread # client[c].thread
    BY <1>r DEF Unowned
  <2>5. workers' = ws /\ UNCHANGED client
    BY <1>3
  <2> QED
    BY <1>r, <2>1, <2>2, <2>3, <2>4, <2>5, RetireUse
<1>4. CASE SpawnReserved(op, c, ws, timer)
  BY <1>4, SpawnReservedUse
<1> QED
  BY <1>1, <1>2, <1>3, <1>4, Zenon DEF SelectWorker, Reusable

LEMMA MaintainLoopUse ==
  ASSUME WorkerPoolAssumption, TypeOK, AskInv, NEW wk \in [Worker -> WorkerType],
         NEW op, op \notin Asking, UseAt(workers, wk, client, NoJob),
         MaintainLoop(op, wk), UNCHANGED client
  PROVE  UseInv'
<1>1. Ready(workers, wk, op, None)
  BY DEF Ready, Asking
<1>2. CASE BeginSpawn(op, None, PrewarmCwd, workers, wk)
  BY <1>1, <1>2, BeginSpawnUse
<1>3. CASE worker' = wk /\ run' = NoJob /\ UNCHANGED workers
  BY <1>3, QuitUse
<1> QED
  BY <1>2, <1>3, Zenon DEF MaintainLoop

LEMMA ReapLoopUse ==
  ASSUME WorkerPoolAssumption, TypeOK, AskInv, NEW ws \in SUBSET workers, NEW todo \in SUBSET Worker,
         UseAt(ws, worker, client, NoJob), ReapLoop(todo, ws), workers' = ws, UNCHANGED client
  PROVE  UseInv'
<1>t. worker \in [Worker -> WorkerType]
  BY DEF TypeOK
<1>1. CASE run' = NoJob /\ UNCHANGED worker
  BY <1>1, QuitUse
<1>2. ASSUME NEW w \in todo, IsReclaimable(w), worker' = [worker EXCEPT ![w] = Retire(@)],
             run' = [NoJob EXCEPT !.op = "reap", !.pc = "reap", !.worker = w, !.todo = todo \ {w}]
      PROVE  UseInv'
  <2>1. IsQuiescent(w)
    BY <1>2 DEF IsReclaimable
  <2>2. w \in ws
    <3>1. HeldAt(w, ws, worker[w], client, NoJob)
      BY DEF UseAt, Held
    <3> QED
      BY <2>1, <3>1 DEF IsQuiescent, HeldAt, Gone
  <2>3. worker'[w] = Retire(worker[w]) /\ \A v \in Worker : v # w => worker'[v] = worker[v]
    BY <1>t, <1>2
  <2>4. /\ run'.op = "reap" /\ run'.client = None /\ run'.worker = w
        /\ run'.pc \notin {"spawn", "switch"} /\ "reap" # "session"
    BY <1>2 DEF NoJob
  <2> QED
    BY <2>1, <2>2, <2>3, <2>4, RetireUse
<1> QED
  BY <1>1, <1>2, Zenon DEF ReapLoop

(* A job starts: no worker is in its hands.                                *)
LEMMA StartsReady ==
  ASSUME WorkerPoolAssumption, TypeOK, AskInv, UseInv, NEW op, Starts(op)
  PROVE  /\ UseAt(workers, worker, client, NoJob)
         /\ LET c == Head(lifecycle).client
            IN op \in Asking => c \in Client /\ Awaits(Job(op, c), client)
<1>1. run = NoJob
  BY DEF Starts
<1>2. LET c == Head(lifecycle).client
      IN op \in Asking => c \in Client /\ Awaits(Job(op, c), client)
  BY StartsAsks DEF Job, Awaits
<1> QED
  BY <1>1, <1>2 DEF UseInv

(* A job resumes: the stop of its worker has returned, which leaves the    *)
(* Map and is of no use to anyone.                                         *)
LEMMA ResumesReady ==
  ASSUME WorkerPoolAssumption, TypeOK, AskInv, UseInv,
         run.pc \in {"victim", "moved", "reap", "unswitch"}, StopReturned(run.worker)
  PROVE  LET ws == workers \ {run.worker}
         IN /\ UseAt(ws, worker, client, NoJob)
            /\ run.op = "session" => Unowned(ws, worker, client[run.client].thread)
            /\ ws \in SUBSET workers
            /\ run.op \in Asking => run.client \in Client /\ Awaits(Job(run.op, run.client), client)
<1> DEFINE w == run.worker
           ws == workers \ {w}
<1>1. w \in Worker
  BY DEF TypeOK
<1>2. HeldAt(w, workers, worker[w], client, run)
  BY <1>1 DEF UseInv, UseAt, Held
<1>3. \A v \in Worker : NotBusy(run, v) /\ NotBusy(NoJob, v)
  BY NoJobQuiet DEF NotBusy, Spawning, Switching
<1>4. Gone(worker[w]) \/ (worker[w].state = "starting" /\ worker[w].proc = "none")
  BY <1>1, <1>2, <1>3 DEF HeldAt, UsableAt, StopReturned, NotBusy
<1>5. \A c \in Client : client[c].worker = w => Gone(worker[w]) \/ client[c].pc \in {"idle", "queued"}
  <2>1. w \in workers => Gone(worker[w])
    BY <1>1, <1>2, <1>3 DEF HeldAt, UsableAt, StopReturned, NotBusy
  <2> QED
    BY <1>2, <2>1 DEF HeldAt, KnownAt
<1>6. HeldAt(w, ws, worker[w], client, NoJob)
  BY <1>1, <1>2, <1>3, <1>4, <1>5, RemovedAt
<1>7. Held(ws, worker, client, NoJob)
  <2>1. \A v \in Worker : v # w => worker[v] = worker[v] /\ (v \in ws <=> v \in workers)
    OBVIOUS
  <2>2. Held(workers, worker, client, run)
    BY DEF UseInv, UseAt
  <2> HIDE DEF w, ws
  <2> QED
    BY <1>3, <1>6, <2>1, <2>2, OneWorker
<1>8. Shrinks(workers, worker, ws, worker)
  BY DEF Shrinks
<1>9. OwnedOnce(ws, worker) /\ Unasked(ws, worker, client, NoJob)
  BY <1>8, ShrinksOwned, NoJobQuiet DEF UseInv, UseAt, Unasked
<1>10. run.op = "session" => Unowned(ws, worker, client[run.client].thread)
  BY DEF UseInv, UseAt, Unasked, Unowned
<1>11. run.op \in Asking => run.client \in Client /\ Awaits(Job(run.op, run.client), client)
  BY DEF TypeOK, Asking, AskInv, Awaits, Job
<1> QED
  BY <1>7, <1>9, <1>10, <1>11 DEF UseAt

(* The worker of a thread is granted to the request that asked for it.     *)
LEMMA GrantUse ==
  ASSUME WorkerPoolAssumption, TypeOK, AskInv, UseInv, NEW c \in Client, NEW w \in workers,
         Awaits(Job("session", c), client), \A v \in Worker : v # w => NotBusy(run, v),
         Holders(client, w) = {}, ~Gone(worker[w]),
         HeldOnce(worker'[w]), worker'[w].pending = worker[w].pending,
         worker'[w].aborting = worker[w].aborting, worker'[w].thread = client[c].thread,
         \A v \in Worker : v # w => worker'[v] = worker[v], workers' = workers,
         OwnedOnce(workers', worker'), Grant(c, w)
  PROVE  UseInv'
<1>1. w \in Worker /\ client \in [Client -> ClientType]
  BY DEF TypeOK
<1>2. run' = NoJob /\ client' = [client EXCEPT ![c].pc = "holds", ![c].worker = w]
  BY DEF Grant
<1>3. /\ client'[c].pc = "holds" /\ client'[c].worker = w /\ client'[c].kind = client[c].kind
      /\ client'[c].thread = client[c].thread
      /\ \A d \in Client : d # c => client'[d] = client[d]
  BY <1>1, <1>2 DEF ClientType
<1>4. /\ client[c].pc = "queued" /\ client[c].thread # None /\ client[c].worker = None
      /\ client[c].kind \in {"read", "turn", "mutate"}
  BY AskedThread DEF Asking
<1>5. HeldAt(w, workers, worker[w], client, run)
  BY <1>1 DEF UseInv, UseAt, Held
<1>6. /\ PendingAt(w, worker[w], client)
      /\ worker[w].aborting => \E d \in Client : client[d].worker = w /\ client[d].kind = "abort"
  BY <1>5 DEF HeldAt, UsableAt
<1>7. Given(c, w, client, client') /\ Suits(worker'[w], client'[c]) /\ NotBusy(NoJob, w)
  BY <1>3, <1>4, NoJobQuiet DEF Given, Suits
<1>8. HeldAt(w, workers, worker'[w], client', NoJob)
  BY <1>6, <1>7, GrantedAt
<1>9. Held(workers, worker', client', NoJob)
  <2>1. \A d \in Client : \/ client'[d] = client[d]
                          \/ client[d].worker \in {None, w} /\ client'[d].worker \in {None, w}
    BY <1>3, <1>4
  <2>2. \A v \in Worker : v # w => NotBusy(run, v) /\ NotBusy(NoJob, v)
    BY NoJobQuiet
  <2>3. \A v \in Worker : v # w => worker'[v] = worker[v] /\ (v \in workers <=> v \in workers)
    OBVIOUS
  <2>4. Held(workers, worker, client, run)
    BY DEF UseInv, UseAt
  <2> QED
    BY <1>8, <2>1, <2>2, <2>3, <2>4, OneWorker
<1> QED
  BY <1>2, <1>9, NoJobQuiet DEF UseInv, UseAt, Unasked

(* A job that neither spawns nor switches has no worker that matters.      *)
LEMMA LoosenUse ==
  ASSUME WorkerPoolAssumption, UseInv, NEW rn, rn.pc \notin {"spawn", "switch"},
         run.pc \notin {"spawn", "switch"}
  PROVE  Held(workers, worker, client, rn) /\ OwnedOnce(workers, worker)
<1>1. \A v \in Worker : NotBusy(run, v) /\ NotBusy(rn, v)
  BY DEF NotBusy, Spawning, Switching
<1>2. \A v \in Worker : HeldAt(v, workers, worker[v], client, run)
  BY DEF UseInv, UseAt, Held
<1>3. \A v \in Worker : HeldAt(v, workers, worker[v], client, rn)
  BY <1>1, <1>2, FrameAt
<1> QED
  BY <1>3 DEF UseInv, UseAt, Held

LEMMA StopFields ==
  ASSUME NEW obj \in WorkerType
  PROVE  LET o == Stop(obj)
         IN /\ o.pending = obj.pending /\ o.turn = obj.turn /\ o.thread = obj.thread
            /\ o.retiring = obj.retiring
            /\ obj.proc # "none" \/ Gone(obj) => Gone(o)
  BY DEF WorkerType, Stop, Gone

LEMMA ReleaseFields ==
  ASSUME NEW w, worker[w] \in WorkerType
  PROVE  LET o == Release(w)
             remaining == IF worker[w].res = 0 THEN 0 ELSE worker[w].res - 1
         IN /\ o \in WorkerType
            /\ o.pending = worker[w].pending /\ o.turn = worker[w].turn
            /\ o.thread = worker[w].thread /\ o.proc = worker[w].proc
            /\ o.aborting = worker[w].aborting /\ o.retiring = worker[w].retiring
            /\ o.claimed = worker[w].claimed /\ o.res = remaining
            /\ o.state = worker[w].state \/ (o.state \in {"idle", "assigned"} /\ ~Gone(worker[w]))
            /\ ~Gone(worker[w]) /\ ~worker[w].retiring /\ remaining = 0 /\ ~worker[w].turn
                 => o.state \in {"idle", "assigned"}
<1> DEFINE remaining == IF worker[w].res = 0 THEN 0 ELSE worker[w].res - 1
           kept == \/ Unavailable(w) \/ worker[w].retiring
                   \/ remaining > 0  \/ worker[w].turn
           state == IF kept THEN worker[w].state
                    ELSE IF worker[w].thread = None THEN "idle" ELSE "assigned"
<1>1. Release(w) = [worker[w] EXCEPT !.res = remaining, !.state = state]
  BY DEF Release
<1>2. remaining \in Nat
  BY DEF WorkerType
<1>3. /\ state = worker[w].state \/ (state \in {"idle", "assigned"} /\ ~Gone(worker[w]))
      /\ ~Gone(worker[w]) /\ ~worker[w].retiring /\ remaining = 0 /\ ~worker[w].turn
           => state \in {"idle", "assigned"}
  BY DEF Unavailable, Gone
<1> HIDE DEF remaining, state
<1>4. state \in {"starting", "idle", "assigned", "running", "crashed", "stopped"}
  BY <1>3 DEF WorkerType
<1>5. /\ Release(w) \in WorkerType
      /\ Release(w).pending = worker[w].pending /\ Release(w).turn = worker[w].turn
      /\ Release(w).thread = worker[w].thread /\ Release(w).proc = worker[w].proc
      /\ Release(w).aborting = worker[w].aborting /\ Release(w).retiring = worker[w].retiring
      /\ Release(w).claimed = worker[w].claimed /\ Release(w).res = remaining
      /\ Release(w).state = state
  BY <1>1, <1>2, <1>4 DEF WorkerType
<1> QED
  BY <1>3, <1>5 DEF remaining

(* The jobs start.                                                         *)
LEMMA StartsUse ==
  ASSUME WorkerPoolAssumption, TypeOK, AskInv, UseInv,
         StartNew \/ StartSession \/ StartMaintain \/ StartReap \/ StartStopAll
  PROVE  UseInv'
<1>t. /\ worker \in [Worker -> WorkerType] /\ workers \subseteq Worker /\ workers \in SUBSET workers
      /\ \A w \in workers : w \in Worker /\ worker[w] \in WorkerType
  BY DEF TypeOK
<1>h. \A w \in workers : HeldAt(w, workers, worker[w], client, run)
  BY <1>t DEF UseInv, UseAt, Held
<1> DEFINE c == Head(lifecycle).client
<1>1. CASE StartNew
  <2>1. Starts("new") /\ "new" \in Asking
    BY <1>1 DEF StartNew, Asking
  <2>2. /\ UseAt(workers, worker, client, NoJob) /\ c \in Client /\ Awaits(Job("new", c), client)
    BY <2>1, StartsReady
  <2>3. Ready(workers, worker, "new", c)
    BY <2>2 DEF Ready
  <2>4. CASE Reject(c) /\ UNCHANGED <<workers, worker>>
    BY <2>1, <2>2, <2>4, RejectUse
  <2>5. CASE SelectWorker("new", c, workers, recoveryTimer)
    BY <1>t, <2>1, <2>3, <2>5, SelectWorkerUse
  <2> HIDE DEF c
  <2> QED
    BY <1>1, <2>4, <2>5, Zenon DEF StartNew, c
<1>2. CASE StartSession
  <2> DEFINE assigned == FindByThread(client[c].thread)
  <2>1. Starts("session") /\ "session" \in Asking
    BY <1>2, Zenon DEF StartSession, Asking
  <2>2. UseAt(workers, worker, client, NoJob) /\ c \in Client /\ Awaits(Job("session", c), client)
    BY <2>1, StartsReady
  <2>3. client[c].thread # None
    BY <2>1, <2>2, AskedThread
  <2>r. run = NoJob
    BY <2>1 DEF Starts
  <2>n. \A v \in Worker : NotBusy(run, v)
    BY <2>r, NoJobQuiet
  <2>4. CASE Reject(c) /\ UNCHANGED <<workers, worker>>
    BY <2>1, <2>2, <2>4, RejectUse
  <2>5. CASE assigned = {} /\ SelectWorker("session", c, workers, recoveryTimer)
    <3>1. \A w \in workers : ~Gone(worker[w]) => ~worker[w].retiring
      BY <1>h DEF HeldAt, WithdrawnAt
    <3>2. Unowned(workers, worker, client[c].thread)
      BY <2>5, <3>1 DEF Unowned, FindByThread, Unavailable, Gone
    <3>3. Ready(workers, worker, "session", c)
      BY <2>2, <3>2 DEF Ready
    <3> QED
      BY <1>t, <2>1, <2>5, <3>3, SelectWorkerUse
  <2>6. ASSUME NEW w \in assigned, IsQuiescent(w), worker' = [worker EXCEPT ![w].res = @ + 1],
               Grant(c, w), UNCHANGED workers
        PROVE  UseInv'
    <3>1. w \in workers /\ worker[w].thread = client[c].thread /\ ~Gone(worker[w])
      BY <2>6 DEF FindByThread, Unavailable, Gone
    <3>2. Quiet(worker[w]) /\ HeldAt(w, workers, worker[w], client, run)
      BY <1>h, <2>6, <3>1 DEF IsQuiescent, Quiet
    <3>3. worker[w].proc = "live" /\ Holders(client, w) = {}
      BY <3>1, <3>2, QuietUnused
    <3>4. worker[w].claimed
      BY <2>3, <3>1, <3>2 DEF HeldAt, UsableAt
    <3>5. \A v \in Worker : v # w => worker'[v] = worker[v]
      BY <1>t, <2>6
    <3>6. worker'[w] = [worker[w] EXCEPT !.res = @ + 1]
      BY <1>t, <2>6, <3>1
    <3>7. /\ HeldOnce(worker'[w]) /\ worker'[w].pending = worker[w].pending
          /\ worker'[w].aborting = worker[w].aborting /\ worker'[w].thread = client[c].thread
          /\ worker'[w].state = worker[w].state
      <4>1. worker[w] \in WorkerType
        BY <1>t, <3>1
      <4> QED
        BY <3>1, <3>2, <3>3, <3>4, <3>6, <4>1 DEF Quiet, HeldOnce, WorkerType
    <3>8. Shrinks(workers, worker, workers', worker')
      BY <1>t, <2>6, <3>1, <3>5, <3>7 DEF Shrinks, Gone
    <3>9. OwnedOnce(workers', worker')
      BY <3>8, ShrinksOwned DEF UseInv, UseAt
    <3>10. Grant(c, w) /\ workers' = workers
      BY <2>6
    <3> HIDE DEF c, assigned
    <3> QED
      BY <2>2, <2>n, <3>1, <3>3, <3>5, <3>7, <3>9, <3>10, GrantUse
  <2>7. ASSUME NEW w \in assigned, IsReclaimable(w), worker' = [worker EXCEPT ![w] = Retire(@)],
               run' = [NoJob EXCEPT !.op = "session", !.pc = "moved", !.client = c, !.worker = w],
               UNCHANGED <<client, workers>>
        PROVE  UseInv'
    <3>1. w \in workers /\ worker[w].thread = client[c].thread /\ ~Gone(worker[w]) /\ IsQuiescent(w)
      BY <2>7 DEF FindByThread, Unavailable, Gone, IsReclaimable
    <3>2. worker'[w] = Retire(worker[w]) /\ \A v \in Worker : v # w => worker'[v] = worker[v]
      BY <1>t, <2>7, <3>1
    <3>3. /\ run'.op = "session" /\ run'.client = c /\ run'.worker = w
          /\ run'.pc \notin {"spawn", "switch"}
      BY <2>7 DEF NoJob
    <3>4. \A v \in workers : v # w /\ ~Gone(worker[v]) => worker[v].thread # client[c].thread
      BY <2>3, <3>1 DEF UseInv, UseAt, OwnedOnce
    <3>5. UNCHANGED <<client, workers>>
      BY <2>7
    <3> HIDE DEF c, assigned
    <3> QED
      BY <1>t, <2>2, <3>1, <3>2, <3>3, <3>4, <3>5, RetireUse
  <2> HIDE DEF c, assigned
  <2> QED
    BY <1>2, <2>4, <2>5, <2>6, <2>7, Zenon DEF StartSession, c, assigned
<1>3. CASE StartMaintain
  <2>1. PICK op \in {"start", "maintain"} : Starts(op)
    BY <1>3 DEF StartMaintain
  <2>2. op \notin Asking /\ Head(lifecycle).op = op
    BY <2>1 DEF Starts, Asking
  <2>3. MaintainLoop(op, worker) /\ UNCHANGED client
    BY <1>3, <2>2 DEF StartMaintain
  <2>4. UseAt(workers, worker, client, NoJob)
    BY <2>1, StartsReady
  <2> QED
    BY <1>t, <2>2, <2>3, <2>4, MaintainLoopUse
<1>4. CASE StartReap
  <2>1. Starts("reap") /\ UNCHANGED <<workers, client>>
    BY <1>4 DEF StartReap
  <2>2. UseAt(workers, worker, client, NoJob)
    BY <2>1, StartsReady
  <2>3. CASE run' = NoJob /\ UNCHANGED worker
    BY <2>1, <2>2, <2>3, QuitUse
  <2>4. ASSUME NEW todo \in SUBSET {w \in workers : IsReclaimable(w)}, ReapLoop(todo, workers)
        PROVE  UseInv'
    BY <1>t, <2>1, <2>2, <2>4, ReapLoopUse
  <2> QED
    BY <1>4, <2>3, <2>4, Zenon DEF StartReap
<1>5. CASE StartStopAll
  <2>1. /\ Starts("stopAll") /\ UNCHANGED <<workers, client>> /\ run = NoJob
        /\ \A w \in workers : worker'[w] = Stop(worker[w])
        /\ \A w \in Worker : w \notin workers => worker'[w] = worker[w]
        /\ run' = [NoJob EXCEPT !.op = "stopAll", !.pc = "stopAll"]
    BY <1>t, <1>5 DEF StartStopAll, Starts
  <2>2. run'.pc = "stopAll" /\ run'.op = "stopAll"
    BY <2>1 DEF NoJob
  <2>3. \A v \in Worker : NotBusy(run, v) /\ NotBusy(run', v)
    BY <2>1, <2>2, NoJobQuiet DEF NotBusy, Spawning, Switching
  <2>4. ASSUME NEW w \in workers PROVE Gone(worker'[w]) /\ HeldAt(w, workers, worker'[w], client, run')
    <3>1. HeldAt(w, workers, worker[w], client, run) /\ w \in Worker /\ worker[w] \in WorkerType
      BY <1>t, <1>h
    <3>2. worker[w].proc # "none" \/ Gone(worker[w])
      BY <2>3, <3>1 DEF HeldAt, UsableAt, NotBusy
    <3>3. /\ worker'[w].pending = worker[w].pending /\ worker'[w].turn = worker[w].turn
          /\ worker'[w].retiring = worker[w].retiring /\ Gone(worker'[w])
      BY <2>1, <3>1, <3>2, StopFields
    <3>4. worker[w].retiring => ~worker[w].turn /\ Holders(client, w) = {} /\ Commanders(client, w) = {}
      BY <3>1 DEF HeldAt, WithdrawnAt
    <3>5. ~Spawning(run', w) /\ ~Switching(run', w)
      BY <2>3, <3>1 DEF NotBusy
    <3> QED
      BY <3>1, <3>3, <3>4, <3>5, GoneAt
  <2>5. ASSUME NEW w \in Worker, w \notin workers PROVE HeldAt(w, workers, worker'[w], client, run')
    <3>1. HeldAt(w, workers, worker[w], client, run)
      BY DEF UseInv, UseAt, Held
    <3>2. NotBusy(run, w) /\ NotBusy(run', w)
      BY <2>3
    <3>3. HeldAt(w, workers, worker[w], client, run')
      BY <3>1, <3>2, FrameAt
    <3> QED
      BY <2>1, <2>5, <3>3
  <2>6. Held(workers', worker', client', run')
    BY <1>t, <2>1, <2>4, <2>5 DEF Held
  <2>7. OwnedOnce(workers', worker') /\ Unasked(workers', worker', client', run')
    BY <2>1, <2>2, <2>4 DEF OwnedOnce, Unasked
  <2> QED
    BY <2>6, <2>7 DEF UseInv, UseAt
<1> QED
  BY <1>1, <1>2, <1>3, <1>4, <1>5

(* The jobs resume.                                                        *)
LEMMA SpawnedUse ==
  ASSUME WorkerPoolAssumption, TypeOK, AskInv, UseInv, SpawnSucceeds
  PROVE  UseInv'
<1> DEFINE w == run.worker
           up == [worker[w] EXCEPT !.proc = "live", !.state = "idle"]
<1>t. /\ worker \in [Worker -> WorkerType] /\ w \in Worker /\ worker[w] \in WorkerType
      /\ run \in RunType /\ run.pc = "spawn" /\ {"new", "session"} = Asking
      /\ run.op \in Asking => run.client \in Client
  BY DEF TypeOK, SpawnSucceeds, Asking
<1>1. HeldAt(w, workers, worker[w], client, run)
  BY <1>t DEF UseInv, UseAt, Held
<1>s. Spawning(run, w) /\ ~Switching(run, w) /\ \A v \in Worker : v # w => NotBusy(run, v)
  BY <1>t DEF NotBusy, Spawning, Switching
<1>2. /\ w \in workers /\ worker[w].state = "starting" /\ worker[w].thread = None
      /\ ~worker[w].turn /\ ~worker[w].aborting /\ \A d \in Client : client[d].worker # w
  BY <1>1, <1>s DEF HeldAt, SpawnAt
<1>3. Holders(client, w) = {} /\ Commanders(client, w) = {}
  BY <1>2 DEF Holders, Commanders
<1>4. ~Gone(worker[w])
  BY <1>2 DEF Gone
<1>5. /\ worker[w].res = (IF run.op \in Asking THEN 1 ELSE 0)
      /\ worker[w].pending = 0 /\ ~worker[w].retiring
      /\ worker[w].res # 0 => worker[w].claimed
  <2>1. Cardinality(Holders(client, w)) = 0 /\ Cardinality(Commanders(client, w)) = 0
    BY <1>3, FS_EmptySet
  <2>2. Claims(run, w) <=> run.op \in Asking
    BY <1>s DEF Claims
  <2>3. UsableAt(w, worker[w], client, run) /\ PendingAt(w, worker[w], client)
        /\ WithdrawnAt(w, worker[w], client)
    BY <1>1, <1>2, <1>4 DEF HeldAt
  <2> QED
    BY <1>4, <2>1, <2>2, <2>3 DEF UsableAt, PendingAt, WithdrawnAt
<1>6. /\ up \in WorkerType /\ up.proc = "live" /\ up.state = "idle" /\ up.thread = None
      /\ ~up.turn /\ ~up.aborting /\ ~up.retiring /\ up.pending = 0
      /\ up.res = worker[w].res /\ up.claimed = worker[w].claimed
  BY <1>t, <1>2, <1>5 DEF WorkerType
<1>7. \A wk : (\A v \in Worker : v # w => wk[v] = worker[v]) /\ wk[w].thread = None =>
        \A ws \in SUBSET workers : OwnedOnce(ws, wk) /\ \A t : t # None /\ Unowned(workers, worker, t) => Unowned(ws, wk, t)
  <2>1. SUFFICES ASSUME NEW wk, \A v \in Worker : v # w => wk[v] = worker[v], wk[w].thread = None,
                        NEW ws \in SUBSET workers
                 PROVE  Shrinks(workers, worker, ws, wk)
    BY ShrinksOwned DEF UseInv, UseAt
  <2>2. workers \subseteq Worker
    BY DEF TypeOK
  <2> QED
    BY <2>1, <2>2 DEF Shrinks
<1>8. CASE /\ stopped /\ workers' = workers \ {w} /\ worker' = [worker EXCEPT ![w] = Stop(up)]
           /\ run' = [run EXCEPT !.pc = "abandon"] /\ UNCHANGED client
  <2>1. /\ worker'[w] = Stop(up) /\ \A v \in Worker : v # w => worker'[v] = worker[v]
        /\ run'.pc = "abandon" /\ run'.op = run.op /\ run'.client = run.client
    BY <1>8, <1>t DEF RunType
  <2>2. /\ Gone(worker'[w]) /\ worker'[w].pending = worker[w].pending /\ worker'[w].thread = None
    <3> HIDE DEF up
    <3> QED
      BY <1>5, <1>6, <2>1, StopFields
  <2>3. \A v \in Worker : NotBusy(run', v)
    BY <2>1 DEF NotBusy, Spawning, Switching
  <2>4. workers' = workers \ {w} /\ UNCHANGED client /\ Held(workers, worker, client, run)
    BY <1>8 DEF UseInv, UseAt
  <2> HIDE DEF w, up
  <2>5. HeldAt(w, workers', worker'[w], client, run')
    BY <1>t, <1>1, <2>2, <2>3, <2>4, RemovedAt
  <2>6. Held(workers', worker', client, run')
    <3>1. \A v \in Worker : v # w => worker'[v] = worker[v] /\ (v \in workers' <=> v \in workers)
      BY <2>1, <2>4
    <3>2. \A v \in Worker : v # w => NotBusy(run, v) /\ NotBusy(run', v)
      BY <1>s, <2>3
    <3> QED
      BY <2>4, <2>5, <3>1, <3>2, OneWorker
  <2>7. workers' \in SUBSET workers
    BY <2>4
  <2>8. OwnedOnce(workers', worker')
    BY <1>7, <2>1, <2>2, <2>7
  <2>9. Unasked(workers', worker', client', run')
    <3>1. ASSUME run.op = "session" PROVE Unowned(workers', worker', client[run.client].thread)
      <4>1. run.op \in Asking /\ Awaits(Job(run.op, run.client), client)
        BY <3>1 DEF Asking, AskInv, Awaits, Job
      <4>2. client[run.client].thread # None
        BY <1>t, <3>1, <4>1, AskedThread
      <4>3. Unowned(workers, worker, client[run.client].thread)
        BY <3>1 DEF UseInv, UseAt, Unasked
      <4> QED
        BY <1>7, <2>1, <2>2, <2>7, <4>2, <4>3
    <3> QED
      BY <2>1, <2>4, <3>1 DEF Unasked
  <2> QED
    BY <2>4, <2>6, <2>8, <2>9 DEF UseInv, UseAt
<1>9. CASE /\ run.op \in Asking /\ worker' = [worker EXCEPT ![w] = [up EXCEPT !.state = "assigned"]]
           /\ Selected(run.op, run.client, w) /\ UNCHANGED workers
  <2> DEFINE obj == [up EXCEPT !.state = "assigned"]
  <2>1. worker'[w] = obj /\ \A v \in Worker : v # w => worker'[v] = worker[v]
    BY <1>9, <1>t
  <2> HIDE DEF up
  <2>2. /\ obj.state = "assigned" /\ obj.proc = "live" /\ obj.thread = None
        /\ ~obj.turn /\ ~obj.aborting /\ ~obj.retiring /\ obj.pending = worker[w].pending
        /\ obj.res = 1 /\ obj.claimed
    BY <1>5, <1>6, <1>9 DEF WorkerType
  <2>3. run.op \in Asking /\ Awaits(Job(run.op, run.client), client) /\ run.client \in Client
    BY <1>t, <1>9 DEF AskInv, Awaits, Job
  <2>4. /\ Held(workers, worker, client, run) /\ OwnedOnce(workers, worker)
        /\ run.op = "session" => Unowned(workers, worker, client[run.client].thread)
    BY DEF UseInv, UseAt, Unasked
  <2>5. workers \in SUBSET workers /\ workers' = workers /\ Selected(run.op, run.client, w)
    BY <1>9
  <2> HIDE DEF obj, w
  <2> QED
    BY <1>s, <1>2, <1>3, <2>1, <2>2, <2>3, <2>4, <2>5, SelectedUse
<1>10. CASE /\ run.op \notin Asking /\ MaintainLoop(run.op, [worker EXCEPT ![w] = up])
            /\ UNCHANGED client
  <2> DEFINE wk == [worker EXCEPT ![w] = up]
  <2>1. wk[w] = up /\ (\A v \in Worker : v # w => wk[v] = worker[v]) /\ wk \in [Worker -> WorkerType]
    BY <1>t, <1>6
  <2> HIDE DEF wk, up
  <2>2. ~Spawning(NoJob, w) /\ ~Switching(NoJob, w)
    BY NoJobQuiet DEF NotBusy
  <2>3. HeldAt(w, workers, up, client, NoJob)
    BY <1>2, <1>3, <1>5, <1>6, <1>10, <2>2, FreeAt
  <2>4. Held(workers, wk, client, NoJob)
    <3>1. \A v \in Worker : v # w => wk[v] = worker[v] /\ (v \in workers <=> v \in workers)
      BY <2>1
    <3>2. \A v \in Worker : v # w => NotBusy(run, v) /\ NotBusy(NoJob, v)
      BY <1>s, NoJobQuiet
    <3>3. Held(workers, worker, client, run)
      BY DEF UseInv, UseAt
    <3> HIDE DEF w
    <3> QED
      BY <2>1, <2>3, <3>1, <3>2, <3>3, OneWorker
  <2>5. OwnedOnce(workers, wk)
    BY <1>7, <1>6, <2>1
  <2>6. UseAt(workers, wk, client, NoJob)
    BY <2>4, <2>5, NoJobQuiet DEF UseAt, Unasked
  <2>7. MaintainLoop(run.op, wk)
    BY <1>10 DEF wk
  <2> QED
    BY <1>10, <2>1, <2>6, <2>7, MaintainLoopUse
<1> QED
  BY <1>t, <1>8, <1>9, <1>10, Zenon DEF SpawnSucceeds

LEMMA SwitchedUse ==
  ASSUME WorkerPoolAssumption, TypeOK, AskInv, UseInv, SwitchSucceeds \/ SwitchFails
  PROVE  UseInv'
<1> DEFINE w == run.worker
           c == run.client
<1>t. /\ worker \in [Worker -> WorkerType] /\ w \in Worker /\ worker[w] \in WorkerType
      /\ run \in RunType /\ run.pc = "switch" /\ run.op = "session" /\ "session" \in Asking
      /\ c \in Client /\ Awaits(Job("session", c), client)
  <2>1. run.pc = "switch"
    BY Zenon DEF SwitchSucceeds, SwitchFails
  <2>2. run.op = "session" /\ "session" \in Asking
    BY <2>1 DEF AskInv, PcAt, Asking
  <2>3. w \in Worker /\ run \in RunType /\ worker \in [Worker -> WorkerType] /\ c \in Client
    BY <2>1, <2>2 DEF TypeOK
  <2>4. Awaits(Job("session", c), client)
    BY <2>2 DEF AskInv, Awaits, Job
  <2> QED
    BY <2>1, <2>2, <2>3, <2>4
<1>1. HeldAt(w, workers, worker[w], client, run)
  BY <1>t DEF UseInv, UseAt, Held
<1>s. Switching(run, w) /\ ~Spawning(run, w) /\ \A v \in Worker : v # w => NotBusy(run, v)
  BY <1>t DEF NotBusy, Spawning, Switching
<1>2. /\ w \in workers \/ Gone(worker[w])
      /\ worker[w].thread = None /\ ~worker[w].turn
      /\ Holders(client, w) = {} /\ Commanders(client, w) = {}
  BY <1>1, <1>s DEF HeldAt, SwitchAt
<1>3. ~Gone(worker[w]) => /\ w \in workers /\ ~worker[w].retiring /\ worker[w].proc = "live"
                          /\ worker[w].res = 1 /\ worker[w].claimed
                          /\ worker[w].state \notin {"running", "starting"}
  <2>1. Cardinality(Holders(client, w)) = 0
    BY <1>2, FS_EmptySet
  <2>2. Claims(run, w)
    BY <1>s DEF Claims
  <2>3. ~Gone(worker[w]) => w \in workers /\ UsableAt(w, worker[w], client, run)
                            /\ WithdrawnAt(w, worker[w], client)
    BY <1>1, <1>2 DEF HeldAt
  <2> QED
    BY <1>2, <1>s, <2>1, <2>2, <2>3 DEF UsableAt, WithdrawnAt
<1>u. UseAt(workers, worker, client, run) /\ client[c].thread # None
  BY <1>t, AskedThread DEF UseInv
<1>4. CASE SwitchSucceeds
  <2>1. /\ ~Gone(worker[w]) /\ Grant(c, w) /\ workers' = workers
        /\ worker' = [worker EXCEPT ![w].thread = client[c].thread]
    BY <1>4 DEF SwitchSucceeds, Unavailable, Gone
  <2>2. /\ worker'[w] = [worker[w] EXCEPT !.thread = client[c].thread]
        /\ \A v \in Worker : v # w => worker'[v] = worker[v]
    BY <1>t, <2>1
  <2>3. /\ worker'[w].thread = client[c].thread /\ worker'[w].pending = worker[w].pending
        /\ worker'[w].aborting = worker[w].aborting
        /\ worker'[w].state = worker[w].state /\ worker'[w].proc = "live"
        /\ ~worker'[w].turn /\ ~worker'[w].retiring /\ worker'[w].res = 1 /\ worker'[w].claimed
    BY <1>t, <1>2, <1>3, <2>1, <2>2 DEF WorkerType
  <2>4. HeldOnce(worker'[w])
    <3>1. worker[w].state \in {"idle", "assigned"}
      BY <1>t, <1>3, <2>1 DEF WorkerType, Gone
    <3> QED
      BY <2>3, <3>1 DEF HeldOnce
  <2>5. OwnedOnce(workers', worker')
    <3>1. \A v \in workers : v # w => worker'[v] = worker[v]
      BY <2>2 DEF TypeOK
    <3>2. Unowned(workers, worker, client[c].thread) /\ OwnedOnce(workers, worker)
      BY <1>t, <1>u DEF UseAt, Unasked
    <3> HIDE DEF w, c
    <3> QED
      BY <1>u, <2>1, <2>3, <3>1, <3>2 DEF OwnedOnce, Unowned
  <2>6. w \in workers /\ ~Gone(worker[w])
    BY <1>3, <2>1
  <2> HIDE DEF w, c
  <2> QED
    BY <1>t, <1>s, <1>2, <2>1, <2>2, <2>3, <2>4, <2>5, <2>6, GrantUse
<1>5. ASSUME NEW obj, worker' = [worker EXCEPT ![w] = obj], Gone(obj),
             obj.pending = worker[w].pending, ~obj.turn,
             NEW rn, rn.pc \notin {"spawn", "switch"}, rn.op = "session" => rn.client = c
      PROVE  UseAt(workers, worker', client, rn)
  <2>1. worker'[w] = obj /\ \A v \in Worker : v # w => worker'[v] = worker[v]
    BY <1>t, <1>5
  <2>2. \A v \in Worker : NotBusy(rn, v)
    BY <1>5 DEF NotBusy, Spawning, Switching
  <2>3. ~Spawning(rn, w) /\ ~Switching(rn, w) /\ Gone(obj)
        /\ obj.pending = worker[w].pending /\ ~obj.turn
    BY <1>5, <1>t, <2>2 DEF NotBusy
  <2>4. HeldAt(w, workers, obj, client, rn)
    BY <1>1, <1>2, <2>3, GoneAt
  <2>5. Held(workers, worker', client, rn)
    <3>1. \A v \in Worker : v # w => worker'[v] = worker[v] /\ (v \in workers <=> v \in workers)
      BY <2>1
    <3>2. \A v \in Worker : v # w => NotBusy(run, v) /\ NotBusy(rn, v)
      BY <1>s, <2>2
    <3>3. HeldAt(w, workers, worker'[w], client, rn)
      BY <2>1, <2>4
    <3>4. Held(workers, worker, client, run)
      BY <1>u DEF UseAt
    <3> HIDE DEF w, c
    <3> QED
      BY <3>1, <3>2, <3>3, <3>4, OneWorker
  <2>6. Shrinks(workers, worker, workers, worker')
    BY <2>1, <2>3 DEF TypeOK, Shrinks
  <2>7. Unasked(workers, worker', client, rn)
    BY <1>t, <1>u, <1>5, <2>6, ShrinksOwned DEF UseAt, Unasked
  <2> QED
    BY <1>u, <2>5, <2>6, <2>7, ShrinksOwned DEF UseAt
<1>6. CASE SwitchFails
  <2>1. LET o == Release(w)
        IN /\ o \in WorkerType /\ o.pending = worker[w].pending /\ ~o.turn
           /\ o.proc = worker[w].proc /\ (Gone(worker[w]) => Gone(o))
    BY <1>t, <1>2, ReleaseFields DEF Gone
  <2>2. CASE /\ Unavailable(w) /\ worker' = [worker EXCEPT ![w] = Release(w)]
             /\ Reject(c) /\ UNCHANGED workers
    <3>1. Gone(worker[w])
      BY <2>2 DEF Unavailable, Gone
    <3>2. NoJob.pc \notin {"spawn", "switch"} /\ NoJob.op # "session"
      BY DEF NoJob
    <3>3. UseAt(workers, worker', client, NoJob)
      BY <1>5, <2>1, <2>2, <3>1, <3>2
    <3> QED
      BY <1>t, <2>2, <3>3, RejectUse
  <2>3. CASE /\ ~Unavailable(w) /\ worker' = [worker EXCEPT ![w] = Retire(Release(w))]
             /\ run' = [run EXCEPT !.pc = "unswitch"] /\ UNCHANGED <<client, workers>>
    <3>1. Release(w).proc = "live"
      BY <1>3, <2>1, <2>3 DEF Unavailable, Gone
    <3>2. LET o == Retire(Release(w))
          IN Gone(o) /\ o.pending = worker[w].pending /\ ~o.turn
      <4> DEFINE o == [Release(w) EXCEPT !.retiring = TRUE]
      <4>1. o \in WorkerType /\ o.pending = worker[w].pending /\ ~o.turn /\ o.proc = "live"
        BY <2>1, <3>1 DEF WorkerType
      <4> HIDE DEF o
      <4>2. Gone(Stop(o)) /\ Stop(o).pending = worker[w].pending /\ ~Stop(o).turn
        BY <4>1, StopFields
      <4> QED
        BY <4>2 DEF Retire, o
    <3>3. run'.pc = "unswitch" /\ run'.client = c
      BY <1>t, <2>3 DEF RunType
    <3>4. UseAt(workers, worker', client, run')
      BY <1>5, <2>3, <3>2, <3>3
    <3> QED
      BY <2>3, <3>4 DEF UseInv
  <2> QED
    BY <1>6, <2>2, <2>3, Zenon DEF SwitchFails
<1> QED
  BY <1>4, <1>6

LEMMA ResumesUse ==
  ASSUME WorkerPoolAssumption, TypeOK, AskInv, UseInv,
         \/ SpawnFails \/ SpawnAbandoned \/ VictimStopped \/ MovedStopped
         \/ UnswitchedStopped \/ ReapedStopped \/ AllStopped
  PROVE  UseInv'
<1> DEFINE w == run.worker
           c == run.client
           ws == workers \ {w}
<1>t. /\ worker \in [Worker -> WorkerType] /\ run \in RunType /\ {"new", "session"} = Asking
      /\ run.op \in Asking => c \in Client /\ Awaits(Job(run.op, c), client)
      /\ run.pc \notin {"free", "stopAll"} => w \in Worker
      /\ run.pc \in {"victim", "moved", "switch", "unswitch"} => run.op \in Asking
  BY DEF TypeOK, Asking, AskInv, Awaits, Job
<1>u. UseAt(workers, worker, client, run)
  BY DEF UseInv
<1>1. CASE SpawnFails
  <2>1. /\ run.pc = "spawn" /\ workers' = ws /\ run' = [run EXCEPT !.pc = "abandon"]
        /\ UNCHANGED <<worker, client>> /\ w \in Worker
    BY <1>1, <1>t DEF SpawnFails
  <2>2. run'.pc = "abandon" /\ run'.op = run.op /\ run'.client = run.client
    BY <1>t, <2>1 DEF RunType
  <2>3. HeldAt(w, workers, worker[w], client, run) /\ Spawning(run, w)
    BY <1>u, <2>1 DEF UseAt, Held, Spawning
  <2>4. worker[w].state = "starting" /\ worker[w].proc = "none" /\ \A d \in Client : client[d].worker # w
    BY <2>3 DEF HeldAt, SpawnAt
  <2>5. \A v \in Worker : v # w => NotBusy(run, v)
    BY <2>1 DEF NotBusy, Spawning, Switching
  <2>6. \A v \in Worker : NotBusy(run', v)
    BY <2>2 DEF NotBusy, Spawning, Switching
  <2>7. w \notin ws
    OBVIOUS
  <2>8. \A v \in Worker : v # w => worker[v] = worker[v] /\ (v \in ws <=> v \in workers)
    OBVIOUS
  <2>9. Shrinks(workers, worker, ws, worker)
    BY DEF Shrinks
  <2>10. Unasked(ws, worker, client, run')
    BY <1>u, <2>2 DEF UseAt, Unasked, Unowned
  <2> HIDE DEF w, ws
  <2>11. HeldAt(w, ws, worker[w], client, run')
    BY <2>1, <2>3, <2>4, <2>6, <2>7, RemovedAt
  <2>12. Held(ws, worker, client, run')
    <3>1. Held(workers, worker, client, run)
      BY <1>u DEF UseAt
    <3> QED
      BY <2>5, <2>6, <2>8, <2>11, <3>1, OneWorker
  <2> QED
    BY <1>u, <2>1, <2>9, <2>10, <2>12, ShrinksOwned DEF UseAt, UseInv
<1>2. CASE SpawnAbandoned
  <2>1. run.pc = "abandon" /\ UNCHANGED <<workers, worker>>
    BY <1>2 DEF SpawnAbandoned
  <2>2. UseAt(workers, worker, client, NoJob)
    <3>1. NoJob.pc \notin {"spawn", "switch"} /\ NoJob.op # "session"
      BY DEF NoJob
    <3> QED
      BY <2>1, <3>1, LoosenUse DEF UseAt, Unasked
  <2>3. CASE run.op \in Asking /\ Reject(c)
    BY <1>t, <2>1, <2>2, <2>3, RejectUse
  <2>4. CASE run' = NoJob /\ UNCHANGED client
    BY <2>1, <2>2, <2>4, QuitUse
  <2> QED
    BY <1>2, <1>t, <2>3, <2>4, Zenon DEF SpawnAbandoned
<1>r. ASSUME run.pc \in {"victim", "moved", "reap", "unswitch"}, StopReturned(w)
      PROVE  /\ UseAt(ws, worker, client, NoJob)
             /\ run.op = "session" => Unowned(ws, worker, client[c].thread)
             /\ ws \in SUBSET workers
  BY <1>r, ResumesReady
<1>3. CASE VictimStopped
  <2>1. /\ run.op \in Asking /\ SpawnReserved(run.op, c, ws, recoveryTimer)
        /\ run.pc = "victim" /\ StopReturned(w)
    BY <1>3, <1>t DEF VictimStopped
  <2>2. Ready(ws, worker, run.op, c) /\ ws \in SUBSET workers
    BY <1>t, <1>r, <2>1 DEF Ready
  <2> HIDE DEF ws, c
  <2> QED
    BY <2>1, <2>2, SpawnReservedUse
<1>4. CASE MovedStopped
  <2>1. /\ SelectWorker("session", c, ws, Scheduled(ws, recoveryTimer))
        /\ run.pc = "moved" /\ StopReturned(w)
    BY <1>4 DEF MovedStopped
  <2>2. run.op = "session" /\ "session" \in Asking
    BY <2>1 DEF AskInv, PcAt, Asking
  <2>3. Ready(ws, worker, "session", c) /\ ws \in SUBSET workers
    BY <1>t, <1>r, <2>1, <2>2 DEF Ready
  <2> HIDE DEF ws, c
  <2> QED
    BY <2>1, <2>2, <2>3, SelectWorkerUse
<1>5. CASE UnswitchedStopped
  <2>1. /\ Reject(c) /\ workers' = ws /\ UNCHANGED worker
        /\ run.pc = "unswitch" /\ StopReturned(w) /\ run.op \in Asking
    BY <1>5, <1>t DEF UnswitchedStopped
  <2>2. UseAt(ws, worker, client, NoJob)
    BY <1>r, <2>1
  <2> HIDE DEF ws, c
  <2> QED
    BY <1>t, <2>1, <2>2, RejectUse
<1>6. CASE ReapedStopped
  <2>1. /\ ReapLoop(run.todo, ws) /\ workers' = ws /\ UNCHANGED client
        /\ run.pc = "reap" /\ StopReturned(w) /\ run.todo \in SUBSET Worker
    BY <1>6, <1>t DEF ReapedStopped, RunType
  <2>2. UseAt(ws, worker, client, NoJob) /\ ws \in SUBSET workers
    BY <1>r, <2>1
  <2> HIDE DEF ws
  <2> QED
    BY <2>1, <2>2, ReapLoopUse
<1>7. CASE AllStopped
  <2>1. /\ run.pc = "stopAll" /\ \A v \in workers : StopReturned(v)
        /\ workers' = {} /\ run' = NoJob /\ UNCHANGED <<worker, client>>
    BY <1>7 DEF AllStopped
  <2>2. \A v \in Worker : NotBusy(run, v) /\ NotBusy(NoJob, v)
    BY <2>1, NoJobQuiet DEF NotBusy, Spawning, Switching
  <2>3. ASSUME NEW v \in Worker PROVE HeldAt(v, {}, worker[v], client, NoJob)
    <3>1. HeldAt(v, workers, worker[v], client, run) /\ NotBusy(run, v) /\ NotBusy(NoJob, v)
      BY <1>u, <2>2 DEF UseAt, Held
    <3>2. v \in workers => Gone(worker[v])
      BY <2>1, <3>1 DEF HeldAt, UsableAt, StopReturned, NotBusy
    <3>3. Gone(worker[v]) \/ (worker[v].state = "starting" /\ worker[v].proc = "none")
      BY <3>1, <3>2 DEF HeldAt
    <3>4. \A d \in Client : client[d].worker = v => Gone(worker[v]) \/ client[d].pc \in {"idle", "queued"}
      BY <3>1, <3>2 DEF HeldAt, KnownAt
    <3> QED
      BY <3>1, <3>3, <3>4, RemovedAt
  <2>4. Held({}, worker, client, NoJob)
    BY <2>3 DEF Held
  <2>5. OwnedOnce({}, worker) /\ Unasked({}, worker, client, NoJob)
    BY DEF OwnedOnce, Unasked, Unowned
  <2> QED
    BY <2>1, <2>4, <2>5 DEF UseInv, UseAt
<1> QED
  BY <1>1, <1>2, <1>3, <1>4, <1>5, <1>6, <1>7

LEMMA JobStepUse ==
  ASSUME WorkerPoolAssumption, TypeOK, AskInv, UseInv, JobStep
  PROVE  UseInv'
  BY StartsUse, SpawnedUse, SwitchedUse, ResumesUse DEF JobStep

-----------------------------------------------------------------------------
(* Outside the jobs.                                                       *)

(* A step that concerns one worker, or none, and no request that waits.    *)
LEMMA OutsideHeld ==
  ASSUME WorkerPoolAssumption, NEW w, Held(workers, worker, client, run),
         \A v \in Worker : v # w => worker'[v] = worker[v] /\ (v \in workers' <=> v \in workers),
         \A d \in Client : \/ client'[d] = client[d]
                           \/ /\ client[d].pc # "queued"
                              /\ client[d].worker \in {None, w} /\ client'[d].worker \in {None, w},
         w \in Worker => HeldAt(w, workers', worker'[w], client', run)
  PROVE  Held(workers', worker', client', run)
<1>1. ASSUME NEW v \in Worker, v # w PROVE HeldAt(v, workers', worker'[v], client', run)
  <2>1. HeldAt(v, workers, worker[v], client, run) /\ worker'[v] = worker[v] /\ (v \in workers' <=> v \in workers)
    BY <1>1 DEF Held
  <2>2. \A d \in Client : client[d].worker = v \/ client'[d].worker = v => client'[d] = client[d]
    BY <1>1 DEF WorkerPoolAssumption
  <2> QED
    BY <2>1, <2>2, FrameAt
<1> QED
  BY <1>1 DEF Held

LEMMA OutsideUse ==
  ASSUME WorkerPoolAssumption, TypeOK, AskInv, UseInv, NEW w, UNCHANGED run,
         \A v \in Worker : v # w => worker'[v] = worker[v] /\ (v \in workers' <=> v \in workers),
         \A d \in Client : \/ client'[d] = client[d]
                           \/ /\ client[d].pc # "queued"
                              /\ client[d].worker \in {None, w} /\ client'[d].worker \in {None, w},
         w \in Worker => HeldAt(w, workers', worker'[w], client', run),
         \/ Shrinks(workers, worker, workers', worker')
         \/ \E t \in Thread : UNCHANGED workers /\ worker'[w].thread = t /\ UnusedThread(t)
  PROVE  UseInv'
<1>1. /\ Held(workers, worker, client, run) /\ OwnedOnce(workers, worker)
      /\ Unasked(workers, worker, client, run)
  BY DEF UseInv, UseAt
<1>2. Held(workers', worker', client', run)
  BY <1>1, OutsideHeld
<1>3. ASSUME run.op = "session"
      PROVE  /\ run.client \in Client /\ client'[run.client] = client[run.client]
             /\ client[run.client].thread # None
  <2>1. run.client \in Client /\ client[run.client].pc = "queued" /\ client[run.client].thread # None
    <3>1. run.client \in Client /\ Awaits(Job(run.op, run.client), client)
      BY <1>3 DEF TypeOK, AskInv, Awaits, Asking, Job
    <3> QED
      BY <1>3, <3>1, AskedThread
  <2> QED
    BY <2>1
<1>4. CASE Shrinks(workers, worker, workers', worker')
  <2>1. Unasked(workers', worker', client', run)
    BY <1>1, <1>3, <1>4, ShrinksOwned DEF Unasked
  <2> QED
    BY <1>1, <1>2, <1>4, <2>1, ShrinksOwned DEF UseInv, UseAt
<1>5. ASSUME NEW t \in Thread, UNCHANGED workers, worker'[w].thread = t, UnusedThread(t)
      PROVE  UseInv'
  <2>1. /\ \A v \in workers : v # w => worker'[v] = worker[v]
        /\ \A v \in workers : worker[v].thread # t /\ \A d \in Client : client[d].thread # t
    BY <1>5 DEF TypeOK, UnusedThread
  <2>2. OwnedOnce(workers, worker')
    BY <1>1, <1>5, <2>1 DEF OwnedOnce
  <2>3. Unasked(workers, worker', client', run)
    BY <1>1, <1>3, <1>5, <2>1 DEF Unasked, Unowned, UnusedThread
  <2> QED
    BY <1>2, <1>5, <2>2, <2>3 DEF UseInv, UseAt
<1> QED
  BY <1>4, <1>5

(* No worker is concerned.                                                 *)
LEMMA QuietUse ==
  ASSUME WorkerPoolAssumption, TypeOK, AskInv, UseInv, UNCHANGED <<workers, worker, run>>,
         \A d \in Client : \/ client'[d] = client[d]
                           \/ client[d].pc = "idle" /\ client'[d].worker = None
  PROVE  UseInv'
<1>1. None \notin Worker /\ \A d \in Client : client[d].pc = "idle" => client[d].worker = None
  BY DEF WorkerPoolAssumption, AskInv, RequestAt, IdleClient
<1>2. \A d \in Client : \/ client'[d] = client[d]
                        \/ /\ client[d].pc # "queued"
                           /\ client[d].worker \in {None, None} /\ client'[d].worker \in {None, None}
  BY <1>1
<1>3. Shrinks(workers, worker, workers', worker')
  BY DEF Shrinks
<1>4. \A v \in Worker : v # None => worker'[v] = worker[v] /\ (v \in workers' <=> v \in workers)
  OBVIOUS
<1> QED
  BY <1>1, <1>2, <1>3, <1>4, OutsideUse

(* The object of one worker changes, its thread and place in the Map do    *)
(* not, and it is of no more use than before.                              *)
LEMMA WorkerUse ==
  ASSUME WorkerPoolAssumption, TypeOK, AskInv, UseInv, NEW w \in Worker, NEW obj,
         UNCHANGED <<workers, run>>, worker' = [worker EXCEPT ![w] = obj],
         ~Gone(obj) => ~Gone(worker[w]) /\ obj.thread = worker[w].thread,
         \A d \in Client : \/ client'[d] = client[d]
                           \/ /\ client[d].pc # "queued"
                              /\ client[d].worker \in {None, w} /\ client'[d].worker \in {None, w},
         HeldAt(w, workers, obj, client', run)
  PROVE  UseInv'
<1>1. worker'[w] = obj /\ \A v \in Worker : v # w => worker'[v] = worker[v]
  BY DEF TypeOK
<1>2. Shrinks(workers, worker, workers', worker')
  BY <1>1 DEF Shrinks, TypeOK
<1>3. \A v \in Worker : v # w => worker'[v] = worker[v] /\ (v \in workers' <=> v \in workers)
  BY <1>1
<1>4. HeldAt(w, workers', worker'[w], client', run)
  BY <1>1
<1> QED
  BY <1>2, <1>3, <1>4, OutsideUse

(* What the invariant says of a worker someone holds.                      *)
LEMMA HeldUsable ==
  ASSUME WorkerPoolAssumption, TypeOK, UseInv, NEW c \in Client, NEW w \in Worker, c \in Holders(client, w)
  PROVE  /\ HeldAt(w, workers, worker[w], client, run)
         /\ NotBusy(run, w)
         /\ w \in workers \/ Gone(worker[w])
         /\ ~Gone(worker[w]) =>
              /\ w \in workers /\ UsableAt(w, worker[w], client, run)
              /\ ~worker[w].retiring /\ worker[w].proc = "live" /\ worker[w].state # "starting"
              /\ HolderAt(c, w, worker[w], client)
<1>1. HeldAt(w, workers, worker[w], client, run)
  BY DEF UseInv, UseAt, Held
<1>2. client[c].worker = w /\ client[c].pc \in {"holds", "turn", "cleanup", "mutating"}
  BY DEF Holders
<1>3. NotBusy(run, w)
  BY <1>1, <1>2 DEF NotBusy, HeldAt, SpawnAt, SwitchAt
<1>4. w \in workers \/ Gone(worker[w])
  BY <1>1, <1>2 DEF HeldAt, KnownAt
<1>5. ~Gone(worker[w]) => /\ w \in workers /\ UsableAt(w, worker[w], client, run)
                          /\ WithdrawnAt(w, worker[w], client)
  BY <1>1, <1>4 DEF HeldAt
<1> QED
  BY <1>1, <1>3, <1>4, <1>5 DEF UsableAt, WithdrawnAt, NotBusy

(* An object that is of no use any more, or was not yet, stays one.        *)
LEMMA GoneUse ==
  ASSUME WorkerPoolAssumption, TypeOK, AskInv, UseInv, NEW w \in Worker, NEW ws, NEW obj,
         NEW cl, Gone(obj), ~Spawning(run, w), obj.pending = worker[w].pending,
         obj.thread = worker[w].thread, obj.turn => worker[w].turn,
         obj.retiring => worker[w].retiring \/ w \notin ws, w \in ws => w \in workers,
         Commanders(cl, w) = Commanders(client, w), Holders(cl, w) \subseteq Holders(client, w)
  PROVE  HeldAt(w, ws, obj, cl, run)
<1>1. HeldAt(w, workers, worker[w], client, run)
  BY DEF UseInv, UseAt, Held
<1>2. Switching(run, w) =>
        obj.thread = None /\ ~obj.turn /\ Holders(cl, w) = {} /\ Commanders(cl, w) = {}
  BY <1>1 DEF HeldAt, SwitchAt
<1>3. w \in ws /\ obj.retiring =>
        ~obj.turn /\ Holders(cl, w) = {} /\ Commanders(cl, w) = {}
  BY <1>1 DEF HeldAt, WithdrawnAt
<1> QED
  BY <1>1, <1>2, <1>3, GoneAt

LEMMA CloseUse ==
  ASSUME WorkerPoolAssumption, TypeOK, AskInv, UseInv, NEW w \in Worker, Close(w)
  PROVE  UseInv'
<1>t. /\ worker \in [Worker -> WorkerType] /\ worker[w] \in WorkerType
      /\ client \in [Client -> ClientType] /\ UNCHANGED run /\ Alive(w)
  BY DEF TypeOK, Close
<1>1. HeldAt(w, workers, worker[w], client, run)
  BY DEF UseInv, UseAt, Held
<1>2. ~Spawning(run, w)
  BY <1>t, <1>1 DEF HeldAt, SpawnAt, Alive
<1>3. CASE /\ worker' = [worker EXCEPT ![w].proc = "dead", ![w].state = "crashed", ![w].turn = FALSE]
           /\ workers' = workers \ {w}
           /\ client' = [c \in Client |-> IF OnTurn(c, w) /\ ~stopped THEN IdleClient ELSE client[c]]
  <2>1. /\ worker'[w].state = "crashed" /\ worker'[w].pending = worker[w].pending
        /\ worker'[w].thread = worker[w].thread /\ ~worker'[w].turn
        /\ \A v \in Worker : v # w => worker'[v] = worker[v] /\ (v \in workers' <=> v \in workers)
    BY <1>t, <1>3 DEF WorkerType
  <2>2. \A d \in Client : \/ client'[d] = client[d]
                          \/ OnTurn(d, w) /\ client'[d] = IdleClient
    BY <1>3
  <2>3. /\ Commanders(client', w) = Commanders(client, w)
        /\ Holders(client', w) \subseteq Holders(client, w)
    BY <2>2 DEF Commanders, Holders, OnTurn, IdleClient
  <2>4. \A d \in Client : \/ client'[d] = client[d]
                          \/ /\ client[d].pc # "queued"
                             /\ client[d].worker \in {None, w} /\ client'[d].worker \in {None, w}
    BY <2>2 DEF OnTurn, IdleClient
  <2>5. w \notin workers' /\ Gone(worker'[w])
    BY <1>3, <2>1 DEF Gone
  <2>6. HeldAt(w, workers', worker'[w], client', run)
    BY <1>2, <2>1, <2>3, <2>5, GoneUse
  <2>7. Shrinks(workers, worker, workers', worker')
    BY <1>3, <2>1, <2>5 DEF Shrinks, TypeOK
  <2> QED
    BY <1>t, <2>1, <2>4, <2>6, <2>7, OutsideUse
<1>4. CASE /\ worker[w].state = "stopped" /\ worker' = [worker EXCEPT ![w].proc = "dead"]
           /\ UNCHANGED <<workers, client>>
  <2> DEFINE obj == [worker[w] EXCEPT !.proc = "dead"]
  <2>1. worker' = [worker EXCEPT ![w] = obj]
    BY <1>t, <1>4
  <2>2. /\ Gone(obj) /\ obj.pending = worker[w].pending /\ obj.thread = worker[w].thread
        /\ obj.turn = worker[w].turn /\ obj.retiring = worker[w].retiring
    BY <1>t, <1>4 DEF WorkerType, Gone
  <2> HIDE DEF obj
  <2>3. HeldAt(w, workers, obj, client', run)
    BY <1>2, <1>4, <2>2, GoneUse
  <2>4. \A d \in Client : client'[d] = client[d]
    BY <1>4
  <2> QED
    BY <1>t, <1>4, <2>1, <2>2, <2>3, <2>4, WorkerUse
<1> QED
  BY <1>3, <1>4, Zenon DEF Close

LEMMA ProcessStepUse ==
  ASSUME WorkerPoolAssumption, ~StrayEvents, TypeOK, AskInv, UseInv, NEW w \in Worker, ProcessStep(w)
  PROVE  UseInv'
<1>t. /\ worker \in [Worker -> WorkerType] /\ worker[w] \in WorkerType
      /\ client \in [Client -> ClientType] /\ \A d \in Client : RequestAt(client[d])
  BY DEF TypeOK, AskInv
<1>1. HeldAt(w, workers, worker[w], client, run)
  BY DEF UseInv, UseAt, Held
<1>2. CASE Escalate(w)
  <2> DEFINE obj == [worker[w] EXCEPT !.proc = "killed"]
  <2>1. /\ worker' = [worker EXCEPT ![w] = obj] /\ UNCHANGED <<workers, run, client>>
        /\ worker[w].proc = "term"
    BY <1>t, <1>2 DEF Escalate
  <2>2. /\ obj.pending = worker[w].pending /\ obj.thread = worker[w].thread
        /\ obj.turn = worker[w].turn /\ obj.retiring = worker[w].retiring
        /\ obj.state = worker[w].state
    BY <1>t DEF WorkerType
  <2>3. ~Spawning(run, w)
    BY <1>1, <2>1 DEF HeldAt, SpawnAt
  <2>4. Gone(worker[w])
    BY <1>1, <2>1, <2>3 DEF HeldAt, UsableAt
  <2> HIDE DEF obj
  <2>5. Gone(obj)
    BY <2>2, <2>4 DEF Gone
  <2>6. HeldAt(w, workers, obj, client', run)
    BY <2>1, <2>2, <2>3, <2>5, GoneUse
  <2>7. \A d \in Client : client'[d] = client[d]
    BY <2>1
  <2>8. UNCHANGED <<workers, run>>
    BY <2>1
  <2> QED
    BY <2>1, <2>5, <2>6, <2>7, <2>8, WorkerUse
<1>3. CASE CommandTimesOut(w)
  <2> DEFINE obj == [worker[w] EXCEPT !.state = "crashed", !.proc = "killed"]
  <2>1. /\ worker' = [worker EXCEPT ![w] = obj] /\ UNCHANGED <<workers, run, client>>
        /\ worker[w].proc \in {"live", "term"}
    BY <1>t, <1>3 DEF CommandTimesOut
  <2>2. /\ obj.pending = worker[w].pending /\ obj.thread = worker[w].thread
        /\ obj.turn = worker[w].turn /\ obj.retiring = worker[w].retiring
        /\ obj.state = "crashed"
    BY <1>t DEF WorkerType
  <2>3. ~Spawning(run, w)
    BY <1>1, <2>1 DEF HeldAt, SpawnAt
  <2> HIDE DEF obj
  <2>5. Gone(obj)
    BY <2>2 DEF Gone
  <2>6. HeldAt(w, workers, obj, client', run)
    BY <2>1, <2>2, <2>3, <2>5, GoneUse
  <2>7. \A d \in Client : client'[d] = client[d]
    BY <2>1
  <2>8. UNCHANGED <<workers, run>>
    BY <2>1
  <2> QED
    BY <2>1, <2>5, <2>6, <2>7, <2>8, WorkerUse
<1>m. ASSUME MayReport(w)
      PROVE  /\ worker[w].turn /\ ~Gone(worker[w]) /\ w \in workers
             /\ UsableAt(w, worker[w], client, run) /\ Holders(client, w) # {}
  <2>1. worker[w].turn /\ worker[w].proc = "live" /\ ~Gone(worker[w])
    BY <1>m DEF MayReport, Unavailable, Gone
  <2>2. w \in workers
    BY <1>1, <2>1 DEF HeldAt
  <2>3. UsableAt(w, worker[w], client, run)
    BY <1>1, <2>1, <2>2 DEF HeldAt
  <2> QED
    BY <2>1, <2>2, <2>3 DEF UsableAt, Holders
<1>4. CASE AgentStart(w)
  <2> DEFINE obj == [worker[w] EXCEPT !.state = "running"]
  <2>1. /\ worker' = [worker EXCEPT ![w] = obj] /\ UNCHANGED <<workers, run, client>> /\ MayReport(w)
    BY <1>t, <1>4 DEF AgentStart
  <2>2. /\ obj.pending = worker[w].pending /\ obj.thread = worker[w].thread
        /\ obj.turn = worker[w].turn /\ obj.retiring = worker[w].retiring
        /\ obj.proc = worker[w].proc /\ obj.res = worker[w].res /\ obj.claimed = worker[w].claimed
        /\ obj.aborting = worker[w].aborting /\ obj.state = "running"
    BY <1>t DEF WorkerType
  <2> HIDE DEF obj
  <2>3. ~Gone(obj) /\ obj.state # "starting"
    BY <2>2 DEF Gone
  <2>4. /\ obj.turn => \E c \in Client : client[c].worker = w /\ client[c].pc = "turn"
        /\ UsableAt(w, worker[w], client, run) => \A c \in Holders(client, w) : HolderAt(c, w, obj, client)
    BY <1>m, <2>1, <2>2 DEF UsableAt, HolderAt
  <2>5. HeldAt(w, workers, obj, client, run)
    BY <1>1, <1>m, <2>1, <2>2, <2>3, <2>4, MarkedAt
  <2>6. UNCHANGED <<workers, run>> /\ \A d \in Client : client'[d] = client[d]
    BY <2>1
  <2>7. HeldAt(w, workers, obj, client', run)
    BY <2>1, <2>5
  <2> QED
    BY <1>m, <2>1, <2>2, <2>6, <2>7, WorkerUse
<1>5. CASE AgentSettled(w)
  <2> DEFINE ends == {c \in Client : OnTurn(c, w) /\ ~stopped}
  <2>1. PICK mark \in {FALSE, worker[w].aborting} :
          worker' = [worker EXCEPT ![w].state = "assigned", ![w].turn = @ /\ ends = {},
                                   ![w].aborting = mark]
    BY <1>5, Zenon DEF AgentSettled
  <2> DEFINE turn == worker[w].turn /\ ends = {}
             obj == [worker[w] EXCEPT !.state = "assigned", !.turn = turn, !.aborting = mark]
  <2>2. /\ worker' = [worker EXCEPT ![w] = obj] /\ UNCHANGED <<workers, run>> /\ MayReport(w)
        /\ client' = [c \in Client |->
                     IF c \in ends THEN [client[c] EXCEPT !.pc = "cleanup"] ELSE client[c]]
    BY <1>t, <1>5, <2>1 DEF AgentSettled
  <2>3. \A d \in Client : client'[d] = IF d \in ends THEN [client[d] EXCEPT !.pc = "cleanup"] ELSE client[d]
    BY <2>2
  <2>4. \A d \in Client : \/ d \notin ends /\ client'[d] = client[d]
                          \/ /\ OnTurn(d, w) /\ client'[d].pc = "cleanup" /\ client'[d].worker = w
                             /\ client'[d].kind = client[d].kind /\ client'[d].thread = client[d].thread
    BY <1>t, <2>3 DEF OnTurn, ClientType
  <2>5. /\ obj.pending = worker[w].pending /\ obj.thread = worker[w].thread
        /\ obj.turn = turn /\ obj.retiring = worker[w].retiring
        /\ obj.proc = worker[w].proc /\ obj.res = worker[w].res /\ obj.claimed = worker[w].claimed
        /\ obj.aborting = mark /\ obj.state = "assigned"
    BY <1>t DEF WorkerType
  <2>6. obj.turn => \E c \in Client : client'[c].worker = w /\ client'[c].pc = "turn"
    <3>1. ASSUME turn PROVE \E c \in Client : client'[c].worker = w /\ client'[c].pc = "turn"
      <4>1. worker[w].turn /\ ends = {}
        BY <3>1
      <4>2. PICK c \in Client : client[c].worker = w /\ client[c].pc = "turn"
        BY <1>m, <2>2, <4>1 DEF UsableAt
      <4>3. client'[c] = client[c]
        BY <2>3, <4>1
      <4> QED
        BY <4>2, <4>3
    <3> QED
      BY <2>5, <3>1
  <2> HIDE DEF obj, turn, ends
  <2>7. Holders(client', w) = Holders(client, w) /\ Commanders(client', w) = Commanders(client, w)
    BY <2>4 DEF Holders, Commanders, OnTurn
  <2>8. ASSUME NEW c \in Holders(client, w) PROVE HolderAt(c, w, obj, client')
    <3>1. HolderAt(c, w, worker[w], client) /\ c \in Client
      BY <1>m, <2>2, <2>8 DEF UsableAt, Holders
    <3>2. client[c].pc = "turn" => client[c].pc # "mutating"
      OBVIOUS
    <3> QED
      BY <2>4, <2>5, <2>7, <3>1, <3>2 DEF HolderAt, OnTurn
  <2>9. ~Gone(obj) /\ obj.state # "starting" /\ (obj.aborting => worker[w].aborting)
    BY <2>1, <2>5 DEF Gone
  <2>10. \A c \in Client : client[c].kind = "abort" => client'[c] = client[c]
    BY <1>t, <2>4 DEF OnTurn, RequestAt
  <2>11. \A c \in Client : client'[c] = client[c] \/ c \in Holders(client, w)
    BY <2>4 DEF Holders, OnTurn
  <2>12. HeldAt(w, workers, obj, client', run)
    BY <1>1, <1>m, <2>2, <2>5, <2>6, <2>7, <2>8, <2>9, <2>10, <2>11, MarkedAt
  <2>13. \A d \in Client : \/ client'[d] = client[d]
                           \/ /\ client[d].pc # "queued"
                              /\ client[d].worker \in {None, w} /\ client'[d].worker \in {None, w}
    BY <2>4 DEF OnTurn
  <2>14. UNCHANGED <<workers, run>>
    BY <2>2
  <2> QED
    BY <1>m, <2>2, <2>5, <2>12, <2>13, <2>14, WorkerUse
<1> QED
  BY <1>2, <1>3, <1>4, <1>5, CloseUse DEF ProcessStep

(* A request begins to use its worker, or goes on, or leaves its turn.     *)
LEMMA HolderGoesOn ==
  ASSUME WorkerPoolAssumption, TypeOK, AskInv, UseInv, NEW c \in Client, NEW w \in Worker,
         c \in Holders(client, w), ~Gone(worker[w]), NEW obj,
         obj.proc = worker[w].proc, obj.res = worker[w].res, obj.pending = worker[w].pending,
         obj.retiring = worker[w].retiring, obj.claimed = worker[w].claimed,
         obj.aborting = worker[w].aborting,
         obj.state = worker[w].state \/ obj.state = "running",
         obj.thread = worker[w].thread \/ UNCHANGED client,
         obj.turn => \E d \in Client : client'[d].worker = w /\ client'[d].pc = "turn",
         \A d \in Client : d # c => client'[d] = client[d],
         client'[c].worker = w, client'[c].pc \in {"turn", "cleanup", "mutating"},
         HolderAt(c, w, worker[w], client) =>
           \A d \in Holders(client, w) : HolderAt(d, w, worker[w], client) => HolderAt(d, w, obj, client')
  PROVE  HeldAt(w, workers, obj, client', run)
<1>1. /\ HeldAt(w, workers, worker[w], client, run) /\ UsableAt(w, worker[w], client, run)
      /\ worker[w].state # "starting" /\ HolderAt(c, w, worker[w], client)
  BY HeldUsable
<1>2. client[c].worker = w /\ client[c].pc \in {"holds", "turn", "cleanup", "mutating"}
  BY DEF Holders
<1>3. Holders(client', w) = Holders(client, w) /\ Commanders(client', w) = Commanders(client, w)
  BY <1>2 DEF Holders, Commanders
<1>4. \A d \in Client : client[d].kind = "abort" => client'[d] = client[d]
  BY <1>2 DEF AskInv, RequestAt
<1>5. \A d \in Holders(client, w) : HolderAt(d, w, obj, client')
  BY <1>1 DEF UsableAt
<1>6. ~Gone(obj) /\ obj.state # "starting"
  BY <1>1 DEF Gone
<1>7. \A d \in Client : client'[d] = client[d] \/ d \in Holders(client, w)
  OBVIOUS
<1> QED
  BY <1>1, <1>3, <1>4, <1>5, <1>6, <1>7, MarkedAt

LEMMA TurnUse ==
  ASSUME WorkerPoolAssumption, TypeOK, AskInv, UseInv, NEW c \in Client,
         \/ \E t \in Thread : StartThread(c, t) \/ Fork(c, t)
         \/ StartTurn(c) \/ EndTurn(c) \/ BeginMutation(c)
  PROVE  UseInv'
<1> DEFINE w == client[c].worker
<1>t. /\ worker \in [Worker -> WorkerType] /\ w \in Worker /\ worker[w] \in WorkerType
      /\ client \in [Client -> ClientType] /\ client[c] \in ClientType /\ RequestAt(client[c])
      /\ c \in Holders(client, w) /\ UNCHANGED <<workers, run>>
      /\ client[c].pc \in {"holds", "turn", "cleanup", "mutating"}
  <2>1. client[c].pc \in {"holds", "turn", "cleanup", "mutating"} /\ UNCHANGED <<workers, run>>
    BY DEF StartThread, Fork, StartTurn, EndTurn, BeginMutation
  <2>2. w \in Worker
    BY <2>1 DEF TypeOK
  <2> QED
    BY <2>1, <2>2 DEF TypeOK, AskInv, Holders
<1>n. None \notin Thread
  BY DEF WorkerPoolAssumption
<1>h. ~Gone(worker[w]) =>
        /\ w \in workers /\ UsableAt(w, worker[w], client, run) /\ ~worker[w].retiring
        /\ HolderAt(c, w, worker[w], client)
  BY <1>t, HeldUsable
<1>c. ASSUME NEW req, client' = [client EXCEPT ![c] = req], req.worker \in {None, w}
      PROVE  /\ client'[c] = req /\ \A d \in Client : d # c => client'[d] = client[d]
             /\ \A d \in Client : \/ client'[d] = client[d]
                                  \/ /\ client[d].pc # "queued"
                                     /\ client[d].worker \in {None, w} /\ client'[d].worker \in {None, w}
  BY <1>c, <1>t
<1>1. ASSUME NEW t \in Thread, StartThread(c, t) PROVE UseInv'
  <2> DEFINE obj == [worker[w] EXCEPT !.thread = t, !.turn = TRUE, !.state = "running"]
             req == [client[c] EXCEPT !.pc = "turn", !.kind = "turn", !.thread = t]
  <2>1. /\ worker' = [worker EXCEPT ![w] = obj] /\ client' = [client EXCEPT ![c] = req]
        /\ ~Gone(worker[w]) /\ UnusedThread(t) /\ client[c].kind = "new"
    BY <1>t, <1>1 DEF StartThread, Unavailable, Gone
  <2>2. /\ obj.proc = worker[w].proc /\ obj.res = worker[w].res /\ obj.pending = worker[w].pending
        /\ obj.retiring = worker[w].retiring /\ obj.claimed = worker[w].claimed
        /\ obj.aborting = worker[w].aborting /\ obj.state = "running" /\ obj.turn /\ obj.thread = t
    BY <1>t DEF WorkerType
  <2>3. req.worker = w /\ req.pc = "turn" /\ req.kind = "turn" /\ req.thread = t
    BY <1>t DEF ClientType
  <2>4. worker'[w] = obj /\ \A v \in Worker : v # w => worker'[v] = worker[v] /\ (v \in workers' <=> v \in workers)
    BY <1>t, <2>1
  <2> HIDE DEF obj, req
  <2>5. /\ client'[c] = req /\ \A d \in Client : d # c => client'[d] = client[d]
        /\ \A d \in Client : \/ client'[d] = client[d]
                             \/ /\ client[d].pc # "queued"
                                /\ client[d].worker \in {None, w} /\ client'[d].worker \in {None, w}
    BY <1>c, <2>1, <2>3
  <2>6. Holders(client, w) = {c}
    BY <1>h, <2>1 DEF HolderAt
  <2>7. HolderAt(c, w, obj, client')
    BY <1>n, <2>2, <2>3, <2>5 DEF HolderAt
  <2> HIDE DEF w
  <2>m. /\ HeldAt(w, workers, worker[w], client, run) /\ worker[w].state # "starting"
    BY <1>t, <2>1, HeldUsable
  <2>8. Holders(client', w) = Holders(client, w) /\ Commanders(client', w) = Commanders(client, w)
    BY <1>t, <2>3, <2>5 DEF Holders, Commanders
  <2>9. /\ ~Gone(obj) /\ obj.state # "starting"
        /\ \A d \in Client : client[d].kind = "abort" => client'[d] = client[d]
        /\ \A d \in Client : client'[d] = client[d] \/ d \in Holders(client, w)
        /\ \A d \in Holders(client, w) : HolderAt(d, w, obj, client')
        /\ \E d \in Client : client'[d].worker = w /\ client'[d].pc = "turn"
    BY <1>t, <2>1, <2>2, <2>3, <2>5, <2>6, <2>7 DEF Gone
  <2>10. HeldAt(w, workers, obj, client', run)
    <3>1. /\ Holders(client, w) # {} /\ ~Gone(worker[w])
          /\ obj.aborting => worker[w].aborting
          /\ obj.turn => \E d \in Client : client'[d].worker = w /\ client'[d].pc = "turn"
      BY <2>1, <2>2, <2>6, <2>9
    <3> QED
      BY <2>2, <2>8, <2>9, <2>m, <3>1, MarkedAt
  <2>11. HeldAt(w, workers', worker'[w], client', run)
    BY <1>t, <2>4, <2>10
  <2>12. worker'[w].thread = t
    BY <2>2, <2>4
  <2> QED
    BY <1>t, <2>1, <2>4, <2>5, <2>11, <2>12, OutsideUse
<1>2. ASSUME NEW t \in Thread, Fork(c, t) PROVE UseInv'
  <2> DEFINE obj == [worker[w] EXCEPT !.thread = t]
  <2>1. /\ worker' = [worker EXCEPT ![w] = obj] /\ UNCHANGED client
        /\ ~Gone(worker[w]) /\ UnusedThread(t) /\ client[c].pc = "mutating"
        /\ worker[w].thread = client[c].thread
    BY <1>t, <1>2 DEF Fork, Unavailable, Gone
  <2>2. /\ obj.proc = worker[w].proc /\ obj.res = worker[w].res /\ obj.pending = worker[w].pending
        /\ obj.retiring = worker[w].retiring /\ obj.claimed = worker[w].claimed
        /\ obj.aborting = worker[w].aborting /\ obj.state = worker[w].state
        /\ obj.turn = worker[w].turn /\ obj.thread = t
    BY <1>t DEF WorkerType
  <2>4. worker'[w] = obj /\ \A v \in Worker : v # w => worker'[v] = worker[v] /\ (v \in workers' <=> v \in workers)
    BY <1>t, <2>1
  <2>5. client[c].kind = "mutate" /\ client[c].thread # None
    BY <1>t, <2>1 DEF RequestAt
  <2>6. ASSUME NEW d \in Holders(client, w), HolderAt(d, w, worker[w], client)
        PROVE  HolderAt(d, w, obj, client')
    <3>1. d \in Client /\ WritersApart
      BY DEF Holders, AskInv
    <3>2. client[d].kind # "new"
      BY <1>t, <2>5, <2>6 DEF HolderAt
    <3>3. client[d].kind \in Writers => client[d].pc = "mutating"
      BY <1>n, <2>1, <2>5, <2>6, <3>1 DEF HolderAt, WritersApart, Writers
    <3> QED
      BY <1>n, <2>1, <2>2, <3>2, <3>3 DEF HolderAt
  <2>7. obj.turn => \E d \in Client : client'[d].worker = w /\ client'[d].pc = "turn"
    BY <1>h, <2>1, <2>2 DEF UsableAt
  <2> HIDE DEF obj, w
  <2>8. /\ client'[c].worker = w /\ client'[c].pc \in {"turn", "cleanup", "mutating"}
        /\ \A d \in Client : client'[d] = client[d]
    BY <1>t, <2>1 DEF w
  <2>10. HeldAt(w, workers, obj, client', run)
    BY <1>t, <2>1, <2>2, <2>6, <2>7, <2>8, HolderGoesOn
  <2>11. HeldAt(w, workers', worker'[w], client', run)
    BY <1>t, <2>4, <2>10
  <2>12. worker'[w].thread = t
    BY <2>2, <2>4
  <2> QED
    BY <1>t, <2>1, <2>4, <2>8, <2>11, <2>12, OutsideUse
<1>w. ASSUME NEW obj, NEW req, worker' = [worker EXCEPT ![w] = obj], ~Gone(worker[w]),
             client' = [client EXCEPT ![c] = req], req.worker = w,
             req.kind = client[c].kind, req.thread = client[c].thread,
             \/ req.pc = "turn" /\ client[c].kind = "turn"
             \/ req.pc = "cleanup" /\ client[c].kind = "turn"
             \/ req.pc = "mutating" /\ client[c].kind = "mutate",
             obj.proc = worker[w].proc, obj.res = worker[w].res, obj.pending = worker[w].pending,
             obj.retiring = worker[w].retiring, obj.claimed = worker[w].claimed,
             obj.aborting = worker[w].aborting,
             obj.state = worker[w].state \/ obj.state = "running",
             obj.thread = worker[w].thread,
             obj.turn => req.pc = "turn" \/ (worker[w].turn /\ req.pc = "mutating")
      PROVE  UseInv'
  <2> HIDE DEF w
  <2>1. /\ client'[c] = req /\ \A d \in Client : d # c => client'[d] = client[d]
        /\ \A d \in Client : \/ client'[d] = client[d]
                             \/ /\ client[d].pc # "queued"
                                /\ client[d].worker \in {None, w} /\ client'[d].worker \in {None, w}
    BY <1>c, <1>w
  <2>2. Holders(client', w) = Holders(client, w)
    BY <1>t, <1>w, <2>1 DEF Holders
  <2>3. ASSUME NEW d \in Holders(client, w), HolderAt(d, w, worker[w], client)
        PROVE  HolderAt(d, w, obj, client')
    <3>1. d \in Client /\ client'[d].kind = client[d].kind /\ client'[d].thread = client[d].thread
      BY <1>w, <2>1, <2>3 DEF Holders
    <3>2. client'[d].pc = "mutating" \/ client[d].pc # "mutating" \/ d = c
      BY <2>1, <3>1
    <3>3. client[c].pc = "mutating" => client'[c].pc = "mutating"
      BY <1>t, <1>w, <2>1 DEF RequestAt
    <3> QED
      BY <1>w, <2>2, <2>3, <3>1, <3>2, <3>3 DEF HolderAt
  <2>4. obj.turn => \E d \in Client : client'[d].worker = w /\ client'[d].pc = "turn"
    <3>1. CASE req.pc = "turn"
      BY <1>w, <2>1, <3>1
    <3>2. CASE worker[w].turn /\ req.pc = "mutating"
      <4>1. PICK d \in Client : client[d].worker = w /\ client[d].pc = "turn"
        BY <1>h, <1>w, <3>2 DEF UsableAt
      <4>2. d # c
        BY <1>t, <1>w, <3>2, <4>1 DEF RequestAt
      <4> QED
        BY <2>1, <4>1, <4>2
    <3> QED
      BY <1>w, <3>1, <3>2
  <2>5. client'[c].worker = w /\ client'[c].pc \in {"turn", "cleanup", "mutating"}
    BY <1>w, <2>1
  <2>6. HeldAt(w, workers, obj, client', run)
    BY <1>t, <1>w, <2>1, <2>3, <2>4, <2>5, HolderGoesOn
  <2> QED
    BY <1>t, <1>w, <2>1, <2>6, WorkerUse
<1>3. CASE StartTurn(c)
  <2> DEFINE obj == [worker[w] EXCEPT !.thread = client[c].thread, !.turn = TRUE, !.state = "running"]
             req == [client[c] EXCEPT !.pc = "turn"]
  <2>1. /\ worker' = [worker EXCEPT ![w] = obj] /\ client' = [client EXCEPT ![c] = req]
        /\ ~Gone(worker[w]) /\ client[c].kind = "turn" /\ client[c].pc = "holds"
    BY <1>t, <1>3 DEF StartTurn, Unavailable, Gone
  <2>2. /\ obj.proc = worker[w].proc /\ obj.res = worker[w].res /\ obj.pending = worker[w].pending
        /\ obj.retiring = worker[w].retiring /\ obj.claimed = worker[w].claimed
        /\ obj.aborting = worker[w].aborting /\ obj.state = "running" /\ obj.turn
        /\ obj.thread = client[c].thread
    BY <1>t DEF WorkerType
  <2>3. req.worker = w /\ req.pc = "turn" /\ req.kind = client[c].kind /\ req.thread = client[c].thread
    BY <1>t DEF ClientType
  <2>4. worker[w].thread = client[c].thread
    BY <1>h, <2>1 DEF HolderAt, Writers
  <2> HIDE DEF obj, req, w
  <2> QED
    BY <1>w, <2>1, <2>2, <2>3, <2>4
<1>4. CASE BeginMutation(c)
  <2> DEFINE obj == [worker[w] EXCEPT !.state = "running"]
             req == [client[c] EXCEPT !.pc = "mutating"]
  <2>1. /\ worker' = [worker EXCEPT ![w] = obj] /\ client' = [client EXCEPT ![c] = req]
        /\ ~Gone(worker[w]) /\ client[c].kind = "mutate"
    BY <1>t, <1>4 DEF BeginMutation, Unavailable, Gone
  <2>2. /\ obj.proc = worker[w].proc /\ obj.res = worker[w].res /\ obj.pending = worker[w].pending
        /\ obj.retiring = worker[w].retiring /\ obj.claimed = worker[w].claimed
        /\ obj.aborting = worker[w].aborting /\ obj.state = "running" /\ obj.turn = worker[w].turn
        /\ obj.thread = worker[w].thread
    BY <1>t DEF WorkerType
  <2>3. req.worker = w /\ req.pc = "mutating" /\ req.kind = client[c].kind /\ req.thread = client[c].thread
    BY <1>t DEF ClientType
  <2> HIDE DEF obj, req, w
  <2> QED
    BY <1>w, <2>1, <2>2, <2>3
<1>5. CASE EndTurn(c)
  <2>1. client[c].pc = "turn" /\ client[c].kind = "turn"
    BY <1>t, <1>5 DEF EndTurn, RequestAt
  <2> DEFINE found == FindByThread(client[c].thread)
  <2>2. CASE /\ w \in found /\ worker' = [worker EXCEPT ![w].turn = FALSE]
             /\ client' = [client EXCEPT ![c].pc = "cleanup"]
    <3> DEFINE obj == [worker[w] EXCEPT !.turn = FALSE]
               req == [client[c] EXCEPT !.pc = "cleanup"]
    <3>1. /\ worker' = [worker EXCEPT ![w] = obj] /\ client' = [client EXCEPT ![c] = req]
          /\ ~Gone(worker[w])
      BY <1>t, <2>2 DEF FindByThread, Unavailable, Gone
    <3>2. /\ obj.proc = worker[w].proc /\ obj.res = worker[w].res /\ obj.pending = worker[w].pending
          /\ obj.retiring = worker[w].retiring /\ obj.claimed = worker[w].claimed
          /\ obj.aborting = worker[w].aborting /\ obj.state = worker[w].state /\ ~obj.turn
          /\ obj.thread = worker[w].thread
      BY <1>t DEF WorkerType
    <3>3. req.worker = w /\ req.pc = "cleanup" /\ req.kind = client[c].kind /\ req.thread = client[c].thread
      BY <1>t DEF ClientType
    <3> HIDE DEF obj, req, w
    <3> QED
      BY <1>w, <2>1, <3>1, <3>2, <3>3
  <2>3. CASE found # {w} /\ client' = [client EXCEPT ![c] = IdleClient] /\ UNCHANGED worker
    <3>1. Gone(worker[w])
      <4> SUFFICES ASSUME ~Gone(worker[w]) PROVE FALSE
        OBVIOUS
      <4>1. w \in workers /\ worker[w].thread = client[c].thread /\ worker[w].thread # None
            /\ ~worker[w].retiring
        BY <1>h, <2>1 DEF HolderAt, Writers
      <4>2. w \in found
        BY <4>1 DEF FindByThread, Unavailable, Gone
      <4>3. \A v \in found : v \in workers /\ ~Gone(worker[v]) /\ worker[v].thread = worker[w].thread
        BY <4>1 DEF FindByThread, Unavailable, Gone
      <4>4. OwnedOnce(workers, worker)
        BY DEF UseInv, UseAt
      <4> HIDE DEF w, found
      <4>5. found \subseteq {w}
        BY <4>1, <4>3, <4>4 DEF OwnedOnce
      <4> QED
        BY <2>3, <4>2, <4>5
    <3>2. IdleClient.worker = None /\ IdleClient.pc = "idle"
      BY DEF IdleClient
    <3> HIDE DEF w, found
    <3>3. /\ client'[c] = IdleClient /\ \A d \in Client : d # c => client'[d] = client[d]
          /\ \A d \in Client : \/ client'[d] = client[d]
                               \/ /\ client[d].pc # "queued"
                                  /\ client[d].worker \in {None, w} /\ client'[d].worker \in {None, w}
      BY <1>c, <2>3, <3>2
    <3>4. /\ Commanders(client', w) = Commanders(client, w)
          /\ Holders(client', w) \subseteq Holders(client, w)
      BY <2>1, <3>2, <3>3 DEF Commanders, Holders
    <3>5. NotBusy(run, w)
      BY <1>t, HeldUsable
    <3>6. HeldAt(w, workers, worker[w], client', run)
      BY <1>t, <3>1, <3>4, <3>5, GoneUse DEF NotBusy
    <3>7. HeldAt(w, workers', worker'[w], client', run)
      BY <1>t, <2>3, <3>6
    <3>8. Shrinks(workers, worker, workers', worker')
      BY <1>t, <2>3 DEF Shrinks
    <3>9. \A v \in Worker : v # w => worker'[v] = worker[v] /\ (v \in workers' <=> v \in workers)
      BY <1>t, <2>3
    <3> QED
      BY <1>t, <3>3, <3>7, <3>8, <3>9, OutsideUse
  <2> HIDE DEF found
  <2> QED
    BY <1>5, <2>2, <2>3, Zenon DEF EndTurn, found
<1> QED
  BY <1>1, <1>2, <1>3, <1>4, <1>5

(* A request retains the worker of its thread.                             *)
LEMMA RetainUse ==
  ASSUME WorkerPoolAssumption, TypeOK, AskInv, UseInv, NEW c \in Client, NEW t \in Thread,
         NEW kind \in {"read", "turn", "mutate"}, RetainOwner(c, t, kind)
  PROVE  UseInv'
<1> DEFINE retained(w) == [worker[w] EXCEPT !.res = @ + 1]
           asking(w) == [IdleClient EXCEPT !.pc = "holds", !.kind = kind, !.thread = t, !.worker = w]
<1>1. PICK w \in FindByThread(t) :
        /\ worker' = [worker EXCEPT ![w].res = @ + 1]
        /\ client' = [client EXCEPT ![c] = asking(w)]
  BY Zenon DEF RetainOwner
<1> DEFINE obj == retained(w)
           req == asking(w)
<1>t. /\ worker \in [Worker -> WorkerType] /\ w \in Worker /\ w \in workers /\ worker[w] \in WorkerType
      /\ client \in [Client -> ClientType] /\ UNCHANGED <<workers, run>> /\ client[c].pc = "idle"
      /\ worker[w].thread = t /\ ~worker[w].retiring /\ ~Gone(worker[w]) /\ t # None
  BY WorkerPoolAssumption DEF TypeOK, RetainOwner, FindByThread, Unavailable, Gone, WorkerPoolAssumption
<1>2. /\ obj.proc = worker[w].proc /\ obj.res = worker[w].res + 1 /\ obj.pending = worker[w].pending
      /\ obj.retiring = worker[w].retiring /\ obj.claimed = worker[w].claimed
      /\ obj.aborting = worker[w].aborting /\ obj.state = worker[w].state
      /\ obj.turn = worker[w].turn /\ obj.thread = t
  BY <1>t DEF WorkerType
<1>3. req.worker = w /\ req.pc = "holds" /\ req.kind = kind /\ req.thread = t
  BY DEF IdleClient
<1>4. worker' = [worker EXCEPT ![w] = obj]
  BY <1>t, <1>1
<1>5. client'[c] = req /\ \A d \in Client : d # c => client'[d] = client[d]
  BY <1>t, <1>1
<1> HIDE DEF obj, req, retained, asking
<1>6. HeldAt(w, workers, worker[w], client, run)
  BY <1>t DEF UseInv, UseAt, Held
<1>7. UsableAt(w, worker[w], client, run) /\ PendingAt(w, worker[w], client) /\ NotBusy(run, w)
  BY <1>t, <1>6 DEF HeldAt, NotBusy, SpawnAt, SwitchAt
<1>8. c \in Holders(client', w) /\ c \notin Holders(client, w)
      /\ c \notin Commanders(client', w) /\ c \notin Commanders(client, w)
  BY <1>t, <1>3, <1>5 DEF Holders, Commanders
<1>9. /\ IsFiniteSet(Holders(client', w))
      /\ Holders(client', w) = Holders(client, w) \cup {c}
      /\ Cardinality(Holders(client', w)) = Cardinality(Holders(client, w)) + 1
  BY <1>5, <1>7, <1>8, HolderAdded DEF UsableAt
<1>10. Commanders(client', w) = Commanders(client, w)
  BY <1>5, <1>7, <1>8, CommandersChange DEF PendingAt
<1>11. ~Claims(run, w)
  BY <1>7 DEF NotBusy, Claims
<1>12. client[c] = IdleClient
  BY <1>t DEF AskInv, RequestAt
<1>13. UsableAt(w, obj, client', run)
  <2>1. worker[w].state # "starting" /\ worker[w].proc = "live" /\ worker[w].claimed
    BY <1>t, <1>7 DEF UsableAt, NotBusy
  <2>2. Cardinality(Holders(client, w)) \in Nat /\ worker[w].res = Cardinality(Holders(client, w))
    BY <1>7, <1>11, FS_CardinalityType DEF UsableAt
  <2>3. obj.turn => \E d \in Client : client'[d].worker = w /\ client'[d].pc = "turn"
    BY <1>2, <1>5, <1>7, <1>12 DEF UsableAt, IdleClient
  <2>4. obj.aborting => \E d \in Client : client'[d].worker = w /\ client'[d].kind = "abort"
    BY <1>2, <1>5, <1>7, <1>12 DEF UsableAt, IdleClient
  <2>5. ASSUME NEW d \in Holders(client', w) PROVE HolderAt(d, w, obj, client')
    <3>1. CASE d = c
      BY <1>t, <1>2, <1>3, <1>5, <3>1 DEF HolderAt
    <3>2. CASE d # c
      <4>1. d \in Holders(client, w) /\ client'[d] = client[d]
        BY <1>5, <1>9, <2>5, <3>2 DEF Holders
      <4>2. HolderAt(d, w, worker[w], client)
        BY <1>7, <4>1 DEF UsableAt
      <4> QED
        BY <1>t, <1>2, <4>1, <4>2 DEF HolderAt
    <3> QED
      BY <3>1, <3>2
  <2>6. obj.res = Cardinality(Holders(client', w)) + 0
    BY <1>2, <1>9, <2>2
  <2> QED
    BY <1>2, <1>8, <1>9, <1>11, <2>1, <2>3, <2>4, <2>5, <2>6 DEF UsableAt
<1>14. HeldAt(w, workers, obj, client', run)
  BY <1>t, <1>2, <1>7, <1>10, <1>13
  DEF HeldAt, PendingAt, WithdrawnAt, KnownAt, SpawnAt, SwitchAt, NotBusy
<1>15. \A d \in Client : \/ client'[d] = client[d]
                         \/ /\ client[d].pc # "queued"
                            /\ client[d].worker \in {None, w} /\ client'[d].worker \in {None, w}
  BY <1>t, <1>3, <1>5, <1>12 DEF IdleClient
<1> QED
  BY <1>t, <1>2, <1>4, <1>14, <1>15, WorkerUse

(* A request gives its worker back.                                        *)
LEMMA ReleaseUse ==
  ASSUME WorkerPoolAssumption, TypeOK, AskInv, UseInv, NEW c \in Client, ReleaseHeld(c)
  PROVE  UseInv'
<1> DEFINE w == client[c].worker
           obj == Release(w)
<1>t. /\ worker \in [Worker -> WorkerType] /\ w \in Worker /\ worker[w] \in WorkerType
      /\ client \in [Client -> ClientType] /\ RequestAt(client[c])
      /\ UNCHANGED <<workers, run>> /\ client[c].pc \in {"holds", "cleanup", "mutating"}
      /\ c \in Holders(client, w)
      /\ worker' = [worker EXCEPT ![w] = obj] /\ client' = [client EXCEPT ![c] = IdleClient]
  BY DEF TypeOK, AskInv, ReleaseHeld, Holders
<1>1. client'[c] = IdleClient /\ \A d \in Client : d # c => client'[d] = client[d]
  BY <1>t
<1>i. IdleClient.worker = None /\ IdleClient.pc = "idle"
  BY DEF IdleClient
<1> DEFINE remaining == IF worker[w].res = 0 THEN 0 ELSE worker[w].res - 1
<1>2. /\ obj.pending = worker[w].pending /\ obj.turn = worker[w].turn
      /\ obj.thread = worker[w].thread /\ obj.proc = worker[w].proc
      /\ obj.aborting = worker[w].aborting /\ obj.retiring = worker[w].retiring
      /\ obj.claimed = worker[w].claimed /\ obj.res = remaining
      /\ obj.state = worker[w].state \/ (obj.state \in {"idle", "assigned"} /\ ~Gone(worker[w]))
      /\ ~Gone(worker[w]) /\ ~worker[w].retiring /\ remaining = 0 /\ ~worker[w].turn
           => obj.state \in {"idle", "assigned"}
  BY <1>t, ReleaseFields
<1>3. /\ HeldAt(w, workers, worker[w], client, run) /\ NotBusy(run, w)
      /\ ~Gone(worker[w]) =>
           /\ w \in workers /\ UsableAt(w, worker[w], client, run)
           /\ ~worker[w].retiring /\ worker[w].proc = "live" /\ worker[w].state # "starting"
  BY <1>t, HeldUsable
<1> HIDE DEF w, obj
<1>4. c \notin Holders(client', w)
      /\ c \notin Commanders(client', w) /\ c \notin Commanders(client, w)
  BY <1>t, <1>1, <1>i DEF Holders, Commanders
<1>5. Commanders(client', w) = Commanders(client, w)
  BY <1>1, <1>4 DEF Commanders
<1>6. ASSUME Gone(worker[w]) PROVE HeldAt(w, workers, obj, client', run)
  <2>1. Gone(obj) /\ Holders(client', w) \subseteq Holders(client, w)
    BY <1>1, <1>2, <1>4, <1>6 DEF Gone, Holders
  <2>2. /\ ~Spawning(run, w) /\ (obj.turn => worker[w].turn)
        /\ obj.retiring => worker[w].retiring \/ w \notin workers
    BY <1>2, <1>3 DEF NotBusy
  <2> QED
    BY <1>t, <1>2, <1>5, <2>1, <2>2, GoneUse
<1>7. ASSUME ~Gone(worker[w]) PROVE HeldAt(w, workers, obj, client', run)
  <2>1. UsableAt(w, worker[w], client, run) /\ ~Claims(run, w)
    BY <1>3, <1>7 DEF NotBusy, Claims
  <2>2. IsFiniteSet(Holders(client, w)) /\ c \in Holders(client, w)
    BY <1>t, <2>1 DEF UsableAt
  <2>3. /\ IsFiniteSet(Holders(client', w))
        /\ Holders(client', w) = Holders(client, w) \ {c}
        /\ Cardinality(Holders(client', w)) = Cardinality(Holders(client, w)) - 1
    BY <1>1, <1>4, <2>2, HolderRemoved
  <2>4. Cardinality(Holders(client, w)) \in Nat /\ Cardinality(Holders(client', w)) \in Nat
    BY <2>2, <2>3, FS_CardinalityType
  <2>5. worker[w].res = Cardinality(Holders(client, w)) /\ worker[w].claimed
    <3>1. worker[w].res = Cardinality(Holders(client, w)) + 0
      BY <2>1 DEF UsableAt
    <3>2. worker[w].res # 0
      BY <2>3, <2>4, <3>1
    <3> QED
      BY <2>1, <2>4, <3>1, <3>2 DEF UsableAt
  <2>6. obj.res = Cardinality(Holders(client', w)) + 0
    BY <1>2, <2>3, <2>4, <2>5
  <2>7. obj.turn => \E d \in Client : client'[d].worker = w /\ client'[d].pc = "turn"
    <3> SUFFICES ASSUME obj.turn PROVE \E d \in Client : client'[d].worker = w /\ client'[d].pc = "turn"
      OBVIOUS
    <3>1. PICK d \in Client : client[d].worker = w /\ client[d].pc = "turn"
      BY <1>2, <2>1 DEF UsableAt
    <3>2. d # c
      BY <1>t, <3>1
    <3> QED
      BY <1>1, <3>1, <3>2
  <2>8. obj.aborting => \E d \in Client : client'[d].worker = w /\ client'[d].kind = "abort"
    <3> SUFFICES ASSUME obj.aborting PROVE \E d \in Client : client'[d].worker = w /\ client'[d].kind = "abort"
      OBVIOUS
    <3>1. PICK d \in Client : client[d].worker = w /\ client[d].kind = "abort"
      BY <1>2, <2>1 DEF UsableAt
    <3>2. d # c
      BY <1>t, <3>1 DEF RequestAt
    <3> QED
      BY <1>1, <3>1, <3>2
  <2>9. obj.state = "running" => Holders(client', w) # {}
    <3>1. CASE obj.turn
      BY <2>7, <3>1 DEF Holders
    <3>2. CASE obj.res # 0
      <4>1. Cardinality(Holders(client', w)) # 0
        BY <2>4, <2>6, <3>2
      <4> QED
        BY <4>1, FS_EmptySet
    <3>3. CASE obj.res = 0 /\ ~obj.turn
      BY <1>2, <1>3, <1>7, <3>3
    <3> QED
      BY <3>1, <3>2, <3>3
  <2>10. ASSUME NEW d \in Holders(client', w) PROVE HolderAt(d, w, obj, client')
    <3>1. d # c /\ d \in Holders(client, w) /\ client'[d] = client[d]
      BY <1>1, <1>4, <2>3, <2>10 DEF Holders
    <3>2. HolderAt(d, w, worker[w], client)
      BY <2>1, <3>1 DEF UsableAt
    <3> QED
      BY <1>t, <1>2, <2>3, <3>1, <3>2 DEF HolderAt
  <2>11. UsableAt(w, obj, client', run)
    <3>1. obj.proc = "live" /\ obj.state # "starting"
      BY <1>2, <1>3, <1>7
    <3> QED
      BY <1>2, <2>1, <2>3, <2>5, <2>6, <2>7, <2>8, <2>9, <2>10, <3>1 DEF UsableAt
  <2>12. w \in workers /\ ~worker[w].retiring /\ PendingAt(w, worker[w], client)
    BY <1>3, <1>7 DEF HeldAt
  <2>13. PendingAt(w, obj, client') /\ WithdrawnAt(w, obj, client') /\ KnownAt(w, workers, obj, client')
    BY <1>2, <1>5, <2>12 DEF PendingAt, WithdrawnAt, KnownAt
  <2>14. SpawnAt(w, workers, obj, client', run) /\ SwitchAt(w, workers, obj, client', run)
    BY <1>3 DEF SpawnAt, SwitchAt, NotBusy
  <2> QED
    BY <2>11, <2>12, <2>13, <2>14 DEF HeldAt
<1>8. \A d \in Client : \/ client'[d] = client[d]
                        \/ /\ client[d].pc # "queued"
                           /\ client[d].worker \in {None, w} /\ client'[d].worker \in {None, w}
  BY <1>t, <1>1, <1>i DEF w
<1>9. ~Gone(obj) => ~Gone(worker[w]) /\ obj.thread = worker[w].thread
  BY <1>2 DEF Gone
<1>10. HeldAt(w, workers, obj, client', run)
  BY <1>6, <1>7
<1> QED
  BY <1>t, <1>8, <1>9, <1>10, WorkerUse

-----------------------------------------------------------------------------
(* Steers and aborts, which hold no reservation.                           *)

(* Who commands a worker changes, not who holds it.                        *)
LEMMA CommandAt ==
  ASSUME NEW w, NEW ws, NEW obj, NEW obj2, NEW cl, NEW cl2, NEW rn,
         HeldAt(w, ws, obj, cl, rn), ~Spawning(rn, w),
         obj2.state = obj.state, obj2.proc = obj.proc, obj2.res = obj.res, obj2.turn = obj.turn,
         obj2.thread = obj.thread, obj2.claimed = obj.claimed, obj2.retiring = obj.retiring,
         PendingAt(w, obj2, cl2),
         obj2.aborting => obj.aborting \/ \E d \in Client : cl2[d].worker = w /\ cl2[d].kind = "abort",
         obj2.aborting => \/ \E d \in Client : cl2[d].worker = w /\ cl2[d].kind = "abort"
                          \/ \A d \in Client : cl[d].kind = "abort" => cl2[d] = cl[d],
         \A d \in Client : \/ cl2[d] = cl[d]
                           \/ /\ d \notin Holders(cl, w) /\ d \notin Holders(cl2, w)
                              /\ cl2[d].worker = w => w \in ws \/ Gone(obj),
         \/ Commanders(cl2, w) \subseteq Commanders(cl, w)
         \/ ~obj.retiring /\ ~Switching(rn, w)
  PROVE  HeldAt(w, ws, obj2, cl2, rn)
<1>1. Holders(cl2, w) = Holders(cl, w)
  BY DEF Holders
<1>2. \A d \in Holders(cl, w) : cl2[d] = cl[d] /\ d \in Client
  BY DEF Holders
<1>3. ASSUME UsableAt(w, obj, cl, rn) PROVE UsableAt(w, obj2, cl2, rn)
  <2>1. ASSUME NEW d \in Holders(cl2, w) PROVE HolderAt(d, w, obj2, cl2)
    <3>1. HolderAt(d, w, obj, cl)
      BY <1>1, <1>3, <2>1 DEF UsableAt
    <3> QED
      BY <1>1, <1>2, <2>1, <3>1 DEF HolderAt
  <2>2. obj2.turn => \E d \in Client : cl2[d].worker = w /\ cl2[d].pc = "turn"
    <3> SUFFICES ASSUME obj2.turn PROVE \E d \in Client : cl2[d].worker = w /\ cl2[d].pc = "turn"
      OBVIOUS
    <3>1. PICK d \in Client : cl[d].worker = w /\ cl[d].pc = "turn"
      BY <1>3 DEF UsableAt
    <3>2. cl2[d] = cl[d]
      BY <1>2, <3>1 DEF Holders
    <3> QED
      BY <3>1, <3>2
  <2>3. obj2.aborting => \E d \in Client : cl2[d].worker = w /\ cl2[d].kind = "abort"
    BY <1>3 DEF UsableAt
  <2> QED
    BY <1>1, <1>3, <2>1, <2>2, <2>3 DEF UsableAt
<1>4. w \in ws => WithdrawnAt(w, obj2, cl2)
  BY <1>1 DEF HeldAt, WithdrawnAt, Gone
<1>5. KnownAt(w, ws, obj2, cl2)
  BY DEF HeldAt, KnownAt, Gone
<1>6. SpawnAt(w, ws, obj2, cl2, rn) /\ SwitchAt(w, ws, obj2, cl2, rn)
  BY <1>1 DEF HeldAt, SpawnAt, SwitchAt, Gone
<1>7. Gone(obj2) <=> Gone(obj)
  BY DEF Gone
<1> QED
  BY <1>3, <1>4, <1>5, <1>6, <1>7 DEF HeldAt

LEMMA BeginCommandUse ==
  ASSUME WorkerPoolAssumption, TypeOK, AskInv, UseInv, NEW c \in Client, NEW kind, BeginCommand(c, kind)
  PROVE  UseInv'
<1> DEFINE commanded(w) == [worker[w] EXCEPT !.pending = @ + 1, !.aborting = @ \/ kind = "abort"]
           asking(w) == [IdleClient EXCEPT !.pc = "commanding", !.kind = kind, !.worker = w]
<1>1. PICK w \in workers :
        /\ \E d \in Client : OnTurn(d, w)
        /\ ~Unavailable(w)
        /\ worker' = [worker EXCEPT ![w].pending = @ + 1, ![w].aborting = @ \/ kind = "abort"]
        /\ client' = [client EXCEPT ![c] = asking(w)]
  BY Zenon DEF BeginCommand
<1> DEFINE obj == commanded(w)
           req == asking(w)
<1>t. /\ worker \in [Worker -> WorkerType] /\ w \in Worker /\ worker[w] \in WorkerType
      /\ client \in [Client -> ClientType] /\ UNCHANGED <<workers, run>> /\ client[c].pc = "idle"
      /\ client[c] = IdleClient
  BY <1>1 DEF TypeOK, BeginCommand, AskInv, RequestAt
<1>2. /\ obj.proc = worker[w].proc /\ obj.res = worker[w].res /\ obj.pending = worker[w].pending + 1
      /\ obj.retiring = worker[w].retiring /\ obj.claimed = worker[w].claimed
      /\ obj.aborting = (worker[w].aborting \/ kind = "abort") /\ obj.state = worker[w].state
      /\ obj.turn = worker[w].turn /\ obj.thread = worker[w].thread
  BY <1>t DEF WorkerType
<1>3. req.worker = w /\ req.pc = "commanding" /\ req.kind = kind
  BY DEF IdleClient
<1>4. worker' = [worker EXCEPT ![w] = obj]
  BY <1>t, <1>1
<1>5. client'[c] = req /\ \A d \in Client : d # c => client'[d] = client[d]
  BY <1>t, <1>1
<1> HIDE DEF obj, req, commanded, asking
<1>6. PICK d \in Client : d \in Holders(client, w)
  BY <1>1 DEF OnTurn, Holders
<1>7. /\ HeldAt(w, workers, worker[w], client, run) /\ NotBusy(run, w)
      /\ ~worker[w].retiring /\ PendingAt(w, worker[w], client) /\ ~Gone(worker[w])
  BY <1>t, <1>1, <1>6, HeldUsable DEF HeldAt, Unavailable, Gone
<1>8. /\ c \notin Holders(client', w) /\ c \notin Holders(client, w)
      /\ c \in Commanders(client', w) /\ c \notin Commanders(client, w)
  BY <1>t, <1>3, <1>5 DEF Holders, Commanders
<1>9. PendingAt(w, obj, client')
  <2>1. IsFiniteSet(Commanders(client, w)) /\ worker[w].pending = Cardinality(Commanders(client, w))
    BY <1>7 DEF PendingAt
  <2>2. /\ IsFiniteSet(Commanders(client', w))
        /\ Cardinality(Commanders(client', w)) = Cardinality(Commanders(client, w)) + 1
    BY <1>5, <1>8, <2>1, CommanderAdded
  <2> QED
    BY <1>2, <2>1, <2>2 DEF PendingAt
<1>10. obj.aborting => \/ \E e \in Client : client'[e].worker = w /\ client'[e].kind = "abort"
                       \/ worker[w].aborting /\ \A e \in Client : client[e].kind = "abort" => client'[e] = client[e]
  <2>1. CASE kind = "abort"
    BY <1>3, <1>5, <2>1
  <2>2. CASE kind # "abort"
    <3>1. obj.aborting => worker[w].aborting
      BY <1>2, <2>2
    <3>2. client[c].kind # "abort"
      BY <1>t DEF IdleClient
    <3> QED
      BY <1>5, <3>1, <3>2
  <2> QED
    BY <2>1, <2>2
<1>11. \A e \in Client : \/ client'[e] = client[e]
                         \/ /\ e \notin Holders(client, w) /\ e \notin Holders(client', w)
                            /\ client'[e].worker = w => w \in workers \/ Gone(worker[w])
  BY <1>1, <1>5, <1>8
<1>12. ~Spawning(run, w) /\ ~Switching(run, w)
  BY <1>7 DEF NotBusy
<1>13. HeldAt(w, workers, obj, client', run)
  BY <1>2, <1>7, <1>9, <1>10, <1>11, <1>12, CommandAt
<1>14. \A e \in Client : \/ client'[e] = client[e]
                         \/ /\ client[e].pc # "queued"
                            /\ client[e].worker \in {None, w} /\ client'[e].worker \in {None, w}
  BY <1>t, <1>3, <1>5 DEF IdleClient
<1> QED
  BY <1>t, <1>2, <1>4, <1>7, <1>13, <1>14, WorkerUse

LEMMA CommandReturnsUse ==
  ASSUME WorkerPoolAssumption, TypeOK, AskInv, UseInv, NEW c \in Client, CommandReturns(c)
  PROVE  UseInv'
<1> DEFINE w == client[c].worker
           obj == [worker[w] EXCEPT !.pending = @ - 1]
           req == IF client[c].kind = "abort" THEN [client[c] EXCEPT !.pc = "settling"] ELSE IdleClient
<1>t. /\ worker \in [Worker -> WorkerType] /\ w \in Worker /\ worker[w] \in WorkerType
      /\ client \in [Client -> ClientType] /\ client[c] \in ClientType
      /\ UNCHANGED <<workers, run>> /\ client[c].pc = "commanding"
      /\ worker' = [worker EXCEPT ![w].pending = @ - 1] /\ client' = [client EXCEPT ![c] = req]
  BY DEF TypeOK, CommandReturns
<1>1. worker' = [worker EXCEPT ![w] = obj]
  BY <1>t
<1>2. /\ obj.proc = worker[w].proc /\ obj.res = worker[w].res /\ obj.pending = worker[w].pending - 1
      /\ obj.retiring = worker[w].retiring /\ obj.claimed = worker[w].claimed
      /\ obj.aborting = worker[w].aborting /\ obj.state = worker[w].state
      /\ obj.turn = worker[w].turn /\ obj.thread = worker[w].thread
  BY <1>t DEF WorkerType
<1>3. /\ req.pc \in {"idle", "settling"} /\ req.worker \in {None, w}
      /\ client[c].kind = "abort" => req.worker = w /\ req.kind = "abort"
  BY <1>t DEF ClientType, IdleClient
<1>4. client'[c] = req /\ \A d \in Client : d # c => client'[d] = client[d]
  BY <1>t
<1> HIDE DEF w, obj, req
<1>5. HeldAt(w, workers, worker[w], client, run) /\ client[c].worker = w
  BY <1>t DEF UseInv, UseAt, Held, w
<1>6. PendingAt(w, worker[w], client) /\ ~Spawning(run, w) /\ (w \in workers \/ Gone(worker[w]))
  BY <1>t, <1>5 DEF HeldAt, SpawnAt, KnownAt
<1>7. /\ c \notin Holders(client', w) /\ c \notin Holders(client, w)
      /\ c \notin Commanders(client', w) /\ c \in Commanders(client, w)
  BY <1>t, <1>3, <1>4, <1>5 DEF Holders, Commanders
<1>8. PendingAt(w, obj, client') /\ Commanders(client', w) \subseteq Commanders(client, w)
  <2>1. IsFiniteSet(Commanders(client, w)) /\ worker[w].pending = Cardinality(Commanders(client, w))
    BY <1>6 DEF PendingAt
  <2>2. /\ IsFiniteSet(Commanders(client', w))
        /\ Commanders(client', w) = Commanders(client, w) \ {c}
        /\ Cardinality(Commanders(client', w)) = Cardinality(Commanders(client, w)) - 1
    BY <1>4, <1>7, <2>1, CommanderRemoved
  <2> QED
    BY <1>2, <2>1, <2>2 DEF PendingAt
<1>9. obj.aborting => \/ \E e \in Client : client'[e].worker = w /\ client'[e].kind = "abort"
                      \/ worker[w].aborting /\ \A e \in Client : client[e].kind = "abort" => client'[e] = client[e]
  BY <1>2, <1>3, <1>4
<1>10. \A e \in Client : \/ client'[e] = client[e]
                         \/ /\ e \notin Holders(client, w) /\ e \notin Holders(client', w)
                            /\ client'[e].worker = w => w \in workers \/ Gone(worker[w])
  BY <1>4, <1>6, <1>7
<1>11. obj.aborting => worker[w].aborting
  BY <1>2
<1>12. HeldAt(w, workers, obj, client', run)
  BY <1>2, <1>5, <1>6, <1>8, <1>9, <1>10, <1>11, CommandAt
<1>13. \A e \in Client : \/ client'[e] = client[e]
                         \/ /\ client[e].pc # "queued"
                            /\ client[e].worker \in {None, w} /\ client'[e].worker \in {None, w}
  BY <1>t, <1>3, <1>4, <1>5
<1>14. ~Gone(obj) => ~Gone(worker[w]) /\ obj.thread = worker[w].thread
  BY <1>2 DEF Gone
<1> QED
  BY <1>t, <1>1, <1>12, <1>13, <1>14, WorkerUse

LEMMA FinishAbortUse ==
  ASSUME WorkerPoolAssumption, TypeOK, AskInv, UseInv, NEW c \in Client, FinishAbort(c)
  PROVE  UseInv'
<1> DEFINE w == client[c].worker
           others == {d \in Client \ {c} : client[d].kind = "abort" /\ client[d].worker = w}
<1>0. PICK mark \in IF others = {} THEN {FALSE} ELSE {FALSE, worker[w].aborting} :
        worker' = [worker EXCEPT ![w].aborting = mark]
  BY Zenon DEF FinishAbort
<1> DEFINE obj == [worker[w] EXCEPT !.aborting = mark]
<1>t. /\ worker \in [Worker -> WorkerType] /\ w \in Worker /\ worker[w] \in WorkerType
      /\ client \in [Client -> ClientType] /\ client[c] \in ClientType
      /\ UNCHANGED <<workers, run>> /\ client[c].pc = "settling"
      /\ client' = [client EXCEPT ![c] = IdleClient]
  BY DEF TypeOK, FinishAbort
<1>1. worker' = [worker EXCEPT ![w] = obj]
  BY <1>t, <1>0
<1>2. /\ obj.proc = worker[w].proc /\ obj.res = worker[w].res /\ obj.pending = worker[w].pending
      /\ obj.retiring = worker[w].retiring /\ obj.claimed = worker[w].claimed
      /\ obj.aborting = mark /\ obj.state = worker[w].state
      /\ obj.turn = worker[w].turn /\ obj.thread = worker[w].thread
  BY <1>t DEF WorkerType
<1>3. client'[c] = IdleClient /\ \A d \in Client : d # c => client'[d] = client[d]
  BY <1>t
<1>i. IdleClient.worker = None /\ IdleClient.pc = "idle"
  BY DEF IdleClient
<1>4. mark => worker[w].aborting /\ \E e \in Client : client'[e].worker = w /\ client'[e].kind = "abort"
  <2> SUFFICES ASSUME mark
               PROVE  worker[w].aborting /\ \E e \in Client : client'[e].worker = w /\ client'[e].kind = "abort"
    OBVIOUS
  <2>1. others # {} /\ worker[w].aborting
    BY <1>0
  <2>2. PICK e \in others : TRUE
    BY <2>1
  <2> QED
    BY <1>3, <2>1, <2>2
<1> HIDE DEF w, obj, others
<1>5. HeldAt(w, workers, worker[w], client, run) /\ client[c].worker = w
  BY <1>t DEF UseInv, UseAt, Held, w
<1>6. PendingAt(w, worker[w], client) /\ ~Spawning(run, w) /\ (w \in workers \/ Gone(worker[w]))
  BY <1>t, <1>5 DEF HeldAt, SpawnAt, KnownAt
<1>7. /\ c \notin Holders(client', w) /\ c \notin Holders(client, w)
      /\ c \notin Commanders(client', w) /\ c \notin Commanders(client, w)
  BY <1>t, <1>3, <1>i DEF Holders, Commanders
<1>8. Commanders(client', w) = Commanders(client, w)
  BY <1>3, <1>7 DEF Commanders
<1>9. PendingAt(w, obj, client')
  BY <1>2, <1>6, <1>8 DEF PendingAt
<1>10. \A e \in Client : \/ client'[e] = client[e]
                         \/ /\ e \notin Holders(client, w) /\ e \notin Holders(client', w)
                            /\ client'[e].worker = w => w \in workers \/ Gone(worker[w])
  BY <1>3, <1>6, <1>7
<1>11. obj.aborting => worker[w].aborting /\ \E e \in Client : client'[e].worker = w /\ client'[e].kind = "abort"
  BY <1>2, <1>4
<1>12. HeldAt(w, workers, obj, client', run)
  BY <1>2, <1>5, <1>6, <1>8, <1>9, <1>10, <1>11, CommandAt
<1>13. \A e \in Client : \/ client'[e] = client[e]
                         \/ /\ client[e].pc # "queued"
                            /\ client[e].worker \in {None, w} /\ client'[e].worker \in {None, w}
  BY <1>t, <1>3, <1>5, <1>i
<1>14. ~Gone(obj) => ~Gone(worker[w]) /\ obj.thread = worker[w].thread
  BY <1>2 DEF Gone
<1> QED
  BY <1>t, <1>1, <1>12, <1>13, <1>14, WorkerUse

-----------------------------------------------------------------------------
(* Every step.                                                             *)

LEMMA RequestStepUse ==
  ASSUME WorkerPoolAssumption, TypeOK, AskInv, UseInv, NEW c \in Client, RequestStep(c)
  PROVE  UseInv'
<1>t. client \in [Client -> ClientType] /\ IdleClient.worker = None
  BY DEF TypeOK, IdleClient
<1>1. ASSUME NEW req, client[c].pc = "idle", req.worker = None,
             client' = [client EXCEPT ![c] = req], UNCHANGED <<workers, worker, run>>
      PROVE  UseInv'
  <2>1. client'[c] = req /\ \A d \in Client : d # c => client'[d] = client[d]
    BY <1>t, <1>1
  <2>2. \A d \in Client : \/ client'[d] = client[d]
                          \/ client[d].pc = "idle" /\ client'[d].worker = None
    BY <1>1, <2>1
  <2> QED
    BY <1>1, <2>2, QuietUse
<1>2. ASSUME NEW dir \in Cwd, RequestNew(c, dir) PROVE UseInv'
  <2> DEFINE req == [IdleClient EXCEPT !.pc = "queued", !.kind = "new", !.cwd = dir]
  <2>1. req.worker = None
    BY DEF IdleClient
  <2>2. client[c].pc = "idle" /\ client' = [client EXCEPT ![c] = req] /\ UNCHANGED <<workers, worker, run>>
    BY <1>2 DEF RequestNew
  <2> QED
    BY <1>1, <2>1, <2>2
<1>3. ASSUME NEW t \in Thread, NEW kind \in {"read", "turn", "mutate"}, NEW dir \in Cwd,
             RequestSession(c, t, dir, kind)
      PROVE  UseInv'
  <2> DEFINE req == [IdleClient EXCEPT !.pc = "queued", !.kind = kind, !.thread = t, !.cwd = dir]
  <2>1. req.worker = None
    BY DEF IdleClient
  <2>2. client[c].pc = "idle" /\ client' = [client EXCEPT ![c] = req] /\ UNCHANGED <<workers, worker, run>>
    BY <1>3 DEF RequestSession
  <2> QED
    BY <1>1, <2>1, <2>2
<1>4. ASSUME NEW t \in Thread, NEW kind \in {"read", "turn", "mutate"}, RetainOwner(c, t, kind)
      PROVE  UseInv'
  BY <1>4, RetainUse
<1>5. ASSUME NEW kind \in {"steer", "abort"}, BeginCommand(c, kind) PROVE UseInv'
  BY <1>5, BeginCommandUse
<1> QED
  BY <1>2, <1>3, <1>4, <1>5 DEF RequestStep

LEMMA OutsideStepUse ==
  ASSUME WorkerPoolAssumption, ~StrayEvents, TypeOK, AskInv, UseInv,
         \/ TimerStep
         \/ \E w \in Worker : ProcessStep(w)
         \/ \E c \in Client : RequestStep(c) \/ UseStep(c)
         \/ \E t \in Thread : Persist(t)
         \/ UNCHANGED vars
  PROVE  UseInv'
<1>1. CASE TimerStep \/ (\E t \in Thread : Persist(t)) \/ UNCHANGED vars
  <2>1. UNCHANGED <<workers, worker, run, client>>
    BY <1>1 DEF TimerStep, RecoveryTimerFires, ReaperTicks, StopAll, Persist, vars
  <2> QED
    BY <2>1, QuietUse
<1>2. ASSUME NEW c \in Client, UseStep(c) PROVE UseInv'
  BY <1>2, TurnUse, ReleaseUse, CommandReturnsUse, FinishAbortUse DEF UseStep
<1> QED
  BY <1>1, <1>2, ProcessStepUse, RequestStepUse

LEMMA InitUse == ASSUME WorkerPoolAssumption, Init PROVE UseInv
<1>1. /\ workers = {} /\ run = NoJob /\ \A c \in Client : client[c] = IdleClient
      /\ \A w \in Worker : worker[w].state = "stopped" /\ worker[w].pending = 0
  BY DEF Init, FreshWorker
<1>2. /\ IdleClient.pc = "idle" /\ IdleClient.worker = None
      /\ run.pc = "free" /\ run.op = "none"
  BY <1>1 DEF IdleClient, NoJob
<1>3. ASSUME NEW w \in Worker PROVE HeldAt(w, workers, worker[w], client, run)
  <2>1. Commanders(client, w) = {} /\ Holders(client, w) = {} /\ Gone(worker[w])
    BY <1>1, <1>2 DEF Commanders, Holders, Gone
  <2>2. PendingAt(w, worker[w], client)
    BY <1>1, <2>1, FS_EmptySet DEF PendingAt
  <2>3. SpawnAt(w, workers, worker[w], client, run) /\ SwitchAt(w, workers, worker[w], client, run)
    BY <1>2 DEF SpawnAt, SwitchAt, Spawning, Switching
  <2>4. KnownAt(w, workers, worker[w], client)
    BY <1>1, <1>2 DEF KnownAt
  <2> QED
    BY <1>1, <2>1, <2>2, <2>3, <2>4 DEF HeldAt
<1> QED
  BY <1>1, <1>2, <1>3 DEF UseInv, UseAt, Held, OwnedOnce, Unasked

(* Provided that Pi reports a run only while the daemon has a turn on a    *)
(* process it has not told to die: a stray report makes a worker look      *)
(* running, or usable, that nobody holds.                                  *)
LEMMA UseInvariant == ASSUME ~StrayEvents PROVE Spec => []UseInv
<1> USE WorkerPoolAssumption
<1>1. Init => UseInv
  BY InitUse
<1>2. TypeOK /\ AskInv /\ UseInv /\ [Next]_vars => UseInv'
  <2> SUFFICES ASSUME TypeOK, AskInv, UseInv, [Next]_vars PROVE UseInv'
    OBVIOUS
  <2> QED
    BY JobStepUse, OutsideStepUse DEF Next, Halted
<1> QED
  BY <1>1, <1>2, TypeCorrect, AskInvariant, PTL DEF Spec

-----------------------------------------------------------------------------
(* What follows for the properties that are checked.                       *)

LEMMA UsableListed ==
  ASSUME UseInv, NEW w \in workers, TypeOK, ~Unavailable(w)
  PROVE  w \in Worker /\ UsableAt(w, worker[w], client, run) /\ HeldAt(w, workers, worker[w], client, run)
<1>1. w \in Worker
  BY DEF TypeOK
<1> QED
  BY <1>1 DEF UseInv, UseAt, Held, HeldAt, Unavailable, Gone

(* Whoever acquires, retains, releases, fails or is rejected, in whatever  *)
(* order: a worker's reservation count is the number of requests that hold *)
(* it and of the acquisition that has it in hand.                          *)
THEOREM ReservedByHolders == ASSUME ~StrayEvents PROVE Spec => []ReservationsHeld
<1>1. TypeOK /\ UseInv => ReservationsHeld
  <2> SUFFICES ASSUME TypeOK, UseInv, NEW w \in workers, ~Unavailable(w)
               PROVE  worker[w].res = Cardinality({c \in Client : Holds(c, w)})
                        + (IF /\ run.worker = w
                              /\ \/ run.pc = "switch"
                                 \/ run.pc = "spawn" /\ run.op \in {"new", "session"} THEN 1 ELSE 0)
    BY DEF ReservationsHeld
  <2>1. worker[w].res = Cardinality(Holders(client, w)) + (IF Claims(run, w) THEN 1 ELSE 0)
    BY UsableListed DEF UsableAt
  <2>2. Holders(client, w) = {c \in Client : Holds(c, w)}
    BY DEF Holders, Holds
  <2>3. Claims(run, w) <=> /\ run.worker = w
                           /\ \/ run.pc = "switch"
                              \/ run.pc = "spawn" /\ run.op \in {"new", "session"}
    BY DEF Claims, Switching, Spawning, Asking
  <2> QED
    BY <2>1, <2>2, <2>3
<1> QED
  BY <1>1, UseInvariant, TypeCorrect, WorkerPoolAssumption, PTL

(* A worker that is retired or switched is used by nobody, and nobody can  *)
(* come upon it while the pool awaits its stop or its answer.              *)
THEOREM WithdrawnFromAll == ASSUME ~StrayEvents PROVE Spec => []WithdrawnUnused
<1>1. TypeOK /\ AskInv /\ UseInv => RetiringUnused
  <2> SUFFICES ASSUME TypeOK, UseInv, NEW w \in workers, worker[w].retiring
               PROVE  /\ ~worker[w].turn /\ worker[w].pending = 0
                      /\ \A c \in Client : ~Holds(c, w)
    BY DEF RetiringUnused
  <2>1. w \in Worker
    BY DEF TypeOK
  <2>2. HeldAt(w, workers, worker[w], client, run)
    BY <2>1 DEF UseInv, UseAt, Held
  <2>3. ~worker[w].turn /\ Holders(client, w) = {} /\ Commanders(client, w) = {}
    BY <2>2 DEF HeldAt, WithdrawnAt
  <2>4. worker[w].pending = 0
    BY <2>2, <2>3, FS_EmptySet DEF HeldAt, PendingAt
  <2> QED
    BY <2>3, <2>4 DEF Holders, Holds
<1>2. TypeOK /\ AskInv /\ UseInv => SwitchIsExclusive
  <2> SUFFICES ASSUME TypeOK, AskInv, UseInv, run.pc = "switch",
                      NEW c \in Client, client[c].worker = run.worker
               PROVE  client[c].pc = "settling"
    BY DEF SwitchIsExclusive
  <2>1. run.worker \in Worker
    BY DEF TypeOK
  <2>2. Holders(client, run.worker) = {} /\ Commanders(client, run.worker) = {}
    BY <2>1 DEF UseInv, UseAt, Held, HeldAt, SwitchAt, Switching
  <2>3. client[c].pc \notin {"holds", "turn", "cleanup", "mutating", "commanding"}
    BY <2>2 DEF Holders, Commanders
  <2>4. client[c].pc \notin {"idle", "queued"}
    BY <2>1, WorkerPoolAssumption DEF AskInv, RequestAt, IdleClient, WorkerPoolAssumption
  <2>5. client[c] \in ClientType
    BY DEF TypeOK
  <2> QED
    BY <2>3, <2>4, <2>5 DEF ClientType
<1> QED
  BY <1>1, <1>2, AskInvariant, UseInvariant, TypeCorrect, WorkerPoolAssumption, PTL DEF WithdrawnUnused

(* Two usable workers never serve the same Pi session, whatever forks,     *)
(* switches, spawns and crashes happen between two acquisitions.           *)
THEOREM OneOwnerEach == ASSUME ~StrayEvents PROVE Spec => []OneOwner
<1>1. UseInv => OneOwner
  BY DEF UseInv, UseAt, OwnedOnce, OneOwner, Unavailable, Gone
<1> QED
  BY <1>1, UseInvariant, WorkerPoolAssumption, PTL

(* No worker is lost to the pool: one that no request refers to can be     *)
(* reused, and a pool at rest below its minimum will look again.           *)
THEOREM CapacityComesBack == ASSUME ~StrayEvents PROVE Spec => []CapacityKept
<1>1. TypeOK /\ UseInv => NothingStranded
  <2> SUFFICES ASSUME TypeOK, UseInv, NEW w \in workers,
                      worker[w].proc = "live", ~Unavailable(w), ~worker[w].retiring,
                      run.worker # w, \A c \in Client : client[c].worker # w
               PROVE  IsQuiescent(w)
    BY DEF NothingStranded
  <2>1. UsableAt(w, worker[w], client, run) /\ PendingAt(w, worker[w], client) /\ worker[w] \in WorkerType
    BY UsableListed DEF HeldAt, TypeOK
  <2>2. Holders(client, w) = {} /\ Commanders(client, w) = {} /\ ~Spawning(run, w) /\ ~Claims(run, w)
    BY DEF Holders, Commanders, Spawning, Switching, Claims
  <2>3. worker[w].pending = 0 /\ worker[w].res = 0
    BY <2>1, <2>2, FS_EmptySet DEF PendingAt, UsableAt
  <2>4. ~worker[w].turn /\ ~worker[w].aborting
    BY <2>1 DEF UsableAt
  <2>5. worker[w].state \in {"idle", "assigned"}
    BY <2>1, <2>2 DEF UsableAt, WorkerType, Unavailable
  <2> QED
    BY <2>3, <2>4, <2>5 DEF IsQuiescent
<1> QED
  BY <1>1, UseInvariant, TypeCorrect, RecoversMinimum, WorkerPoolAssumption, PTL DEF CapacityKept

-----------------------------------------------------------------------------
(* What a step may do to the thread of a worker.                           *)

(* obj is what becomes of worker w: it keeps its thread and is not being   *)
(* retired, or nobody uses it and its thread can be had from its file.     *)
Kept(w, obj) == obj.thread = worker[w].thread /\ (obj.retiring => worker[w].retiring)
Taken(w, obj) ==
  IsReclaimable(w) /\ (obj.thread = worker[w].thread \/ ReuseAcrossThreads \/ ~worker[w].claimed)
MayBecome(w, obj) == Kept(w, obj) \/ Taken(w, obj) \/ worker[w].thread = None

AllMayBecome(wk) == \A w \in workers : MayBecome(w, wk[w])

Forking(w) ==
  ReuseAcrossThreads /\ \E c \in Client : client[c].pc = "mutating" /\ client[c].worker = w

LEMMA GoesFields ==
  ASSUME NEW w \in Worker, worker[w] \in WorkerType
  PROVE  /\ MayBecome(w, worker[w])
         /\ Stop(worker[w]).thread = worker[w].thread /\ MayBecome(w, Stop(worker[w]))
         /\ Retire(worker[w]).thread = worker[w].thread
         /\ IsReclaimable(w) => MayBecome(w, Retire(worker[w]))
         /\ MayBecome(w, Release(w))
         /\ Retire(Release(w)).thread = worker[w].thread
<1>1. Stop(worker[w]).thread = worker[w].thread /\ Stop(worker[w]).retiring = worker[w].retiring
  BY DEF Stop, WorkerType
<1>2. Retire(worker[w]).thread = worker[w].thread
  BY DEF Retire, Stop, WorkerType
<1>3. Release(w).thread = worker[w].thread /\ Release(w).retiring = worker[w].retiring
  BY DEF Release, WorkerType
<1>4. Retire(Release(w)).thread = worker[w].thread
  BY DEF Retire, Stop, Release, WorkerType
<1> QED
  BY <1>1, <1>2, <1>3, <1>4 DEF MayBecome, Kept, Taken

(* The parts of a job's step.                                              *)
LEMMA GoesSame == ASSUME TypeOK PROVE AllMayBecome(worker)
  BY GoesFields DEF AllMayBecome, TypeOK

LEMMA GoesOne ==
  ASSUME TypeOK, NEW v \in Worker, NEW obj, v \in workers => MayBecome(v, obj),
         \A w \in Worker : w # v => worker'[w] = worker[w], worker'[v] = obj
  PROVE  AllMayBecome(worker')
<1>1. \A w \in workers : w \in Worker /\ MayBecome(w, worker[w])
  BY GoesSame DEF AllMayBecome, TypeOK
<1> QED
  BY <1>1 DEF AllMayBecome

LEMMA GoesSpawn ==
  ASSUME TypeOK, NEW ws, NEW wk \in [Worker -> WorkerType], AllMayBecome(wk),
         NEW op, NEW c, NEW dir, BeginSpawn(op, c, dir, ws, wk)
  PROVE  AllMayBecome(worker')
<1>1. PICK w \in Forgotten : worker' = [wk EXCEPT ![w] = FreshWorker(dir, op \in {"new", "session"})]
  BY DEF BeginSpawn
<1>2. w \notin workers /\ \A v \in workers : v # w => worker'[v] = wk[v]
  BY <1>1 DEF Forgotten, TypeOK
<1> QED
  BY <1>2 DEF AllMayBecome

LEMMA GoesSelect ==
  ASSUME TypeOK, NEW op, NEW c, NEW ws \in SUBSET workers, NEW timer, SelectWorker(op, c, ws, timer)
  PROVE  AllMayBecome(worker')
<1>t. /\ workers \subseteq Worker /\ worker \in [Worker -> WorkerType]
      /\ \A w \in workers : w \in Worker /\ worker[w] \in WorkerType
  BY DEF TypeOK
<1>1. CASE \E w \in Reusable(ws, client[c].cwd) : worker' = [worker EXCEPT ![w] = Reassigned(@)]
  <2>1. PICK w \in Reusable(ws, client[c].cwd) : worker' = [worker EXCEPT ![w] = Reassigned(@)]
    BY <1>1
  <2>2. w \in workers /\ w \in Worker /\ IsReclaimable(w) /\ (ReuseAcrossThreads \/ ~worker[w].claimed)
    BY <1>t, <2>1 DEF Reusable
  <2>3. worker'[w] = Reassigned(worker[w]) /\ \A v \in Worker : v # w => worker'[v] = worker[v]
    BY <1>t, <2>1, <2>2
  <2>4. MayBecome(w, Reassigned(worker[w]))
    BY <2>2 DEF MayBecome, Taken
  <2> QED
    BY <2>2, <2>3, <2>4, GoesOne
<1>2. CASE UNCHANGED worker
  BY <1>2, GoesSame
<1>3. CASE \E v \in {w \in ws : IsReclaimable(w)} : worker' = [worker EXCEPT ![v] = Retire(@)]
  <2>1. PICK w \in ws : IsReclaimable(w) /\ worker' = [worker EXCEPT ![w] = Retire(@)]
    BY <1>3
  <2>2. w \in Worker /\ worker[w] \in WorkerType
    BY <1>t
  <2>3. worker'[w] = Retire(worker[w]) /\ \A v \in Worker : v # w => worker'[v] = worker[v]
    BY <1>t, <2>1, <2>2
  <2>4. MayBecome(w, Retire(worker[w]))
    BY <2>1, <2>2, GoesFields
  <2> QED
    BY <2>2, <2>3, <2>4, GoesOne
<1>4. CASE BeginSpawn(op, c, client[c].cwd, ws, worker)
  BY <1>t, <1>4, GoesSpawn, GoesSame
<1> QED
  BY <1>1, <1>2, <1>3, <1>4, Zenon DEF SelectWorker, SpawnReserved

LEMMA GoesMaintain ==
  ASSUME TypeOK, NEW op, NEW wk \in [Worker -> WorkerType], AllMayBecome(wk), MaintainLoop(op, wk)
  PROVE  AllMayBecome(worker')
<1>1. CASE BeginSpawn(op, None, PrewarmCwd, workers, wk)
  BY <1>1, GoesSpawn
<1>2. CASE worker' = wk
  BY <1>2
<1> QED
  BY <1>1, <1>2, Zenon DEF MaintainLoop

LEMMA GoesReap ==
  ASSUME TypeOK, NEW todo \in SUBSET Worker, NEW ws, ReapLoop(todo, ws)
  PROVE  AllMayBecome(worker')
<1>t. worker \in [Worker -> WorkerType]
  BY DEF TypeOK
<1>1. CASE UNCHANGED worker
  BY <1>1, GoesSame
<1>2. CASE \E w \in {v \in todo : IsReclaimable(v)} : worker' = [worker EXCEPT ![w] = Retire(@)]
  <2>1. PICK w \in todo : IsReclaimable(w) /\ worker' = [worker EXCEPT ![w] = Retire(@)]
    BY <1>2
  <2>2. w \in Worker /\ worker[w] \in WorkerType
    BY <1>t
  <2>3. worker'[w] = Retire(worker[w]) /\ \A v \in Worker : v # w => worker'[v] = worker[v]
    BY <1>t, <2>1, <2>2
  <2>4. MayBecome(w, Retire(worker[w]))
    BY <2>1, <2>2, GoesFields
  <2> QED
    BY <2>2, <2>3, <2>4, GoesOne
<1> QED
  BY <1>1, <1>2, Zenon DEF ReapLoop

LEMMA JobGoes ==
  ASSUME WorkerPoolAssumption, TypeOK, UseInv, JobStep
  PROVE  AllMayBecome(worker')
<1>t. /\ workers \subseteq Worker /\ worker \in [Worker -> WorkerType]
      /\ \A w \in Worker : worker[w] \in WorkerType
      /\ run.pc \notin {"free", "stopAll"} => run.worker \in Worker
      /\ run.todo \subseteq Worker
  BY DEF TypeOK, RunType
<1>1. CASE StartNew
  BY <1>1, GoesSelect, GoesSame DEF StartNew
<1>2. CASE StartSession
  <2> DEFINE c == Head(lifecycle).client
             assigned == FindByThread(client[c].thread)
  <2>1. CASE UNCHANGED worker
    BY <2>1, GoesSame
  <2>2. CASE SelectWorker("session", c, workers, recoveryTimer)
    BY <2>2, GoesSelect
  <2>3. CASE \E w \in assigned : worker' = [worker EXCEPT ![w].res = @ + 1]
    <3>1. PICK w \in assigned : worker' = [worker EXCEPT ![w].res = @ + 1]
      BY <2>3
    <3>2. w \in Worker
      BY <1>t DEF FindByThread
    <3>3. /\ worker'[w].thread = worker[w].thread /\ worker'[w].retiring = worker[w].retiring
          /\ \A v \in Worker : v # w => worker'[v] = worker[v]
      BY <1>t, <3>1, <3>2 DEF WorkerType
    <3>4. MayBecome(w, worker'[w])
      BY <3>3 DEF MayBecome, Kept
    <3> QED
      BY <3>2, <3>3, <3>4, GoesOne
  <2>4. CASE \E w \in assigned : IsReclaimable(w) /\ worker' = [worker EXCEPT ![w] = Retire(@)]
    <3>1. PICK w \in assigned : IsReclaimable(w) /\ worker' = [worker EXCEPT ![w] = Retire(@)]
      BY <2>4
    <3>2. w \in Worker
      BY <1>t DEF FindByThread
    <3>3. worker'[w] = Retire(worker[w]) /\ \A v \in Worker : v # w => worker'[v] = worker[v]
      BY <1>t, <3>1, <3>2
    <3>4. MayBecome(w, Retire(worker[w]))
      BY <1>t, <3>1, <3>2, GoesFields
    <3> QED
      BY <3>2, <3>3, <3>4, GoesOne
  <2> QED
    BY <1>2, <2>1, <2>2, <2>3, <2>4, Zenon DEF StartSession
<1>3. CASE StartMaintain
  BY <1>t, <1>3, GoesMaintain, GoesSame DEF StartMaintain
<1>4. CASE StartReap
  <2>1. CASE UNCHANGED worker
    BY <2>1, GoesSame
  <2>2. CASE \E todo \in SUBSET {w \in workers : IsReclaimable(w)} : ReapLoop(todo, workers)
    <3>1. PICK todo \in SUBSET {w \in workers : IsReclaimable(w)} : ReapLoop(todo, workers)
      BY <2>2
    <3>2. todo \subseteq Worker
      BY <1>t
    <3> QED
      BY <3>1, <3>2, GoesReap
  <2> QED
    BY <1>4, <2>1, <2>2, Zenon DEF StartReap
<1>5. CASE StartStopAll
  <2>1. worker' = [w \in Worker |-> IF w \in workers THEN Stop(worker[w]) ELSE worker[w]]
    BY <1>5 DEF StartStopAll
  <2>2. \A w \in workers : worker'[w] = Stop(worker[w])
    BY <1>t, <2>1
  <2> QED
    BY <1>t, <2>2, GoesFields DEF AllMayBecome
<1>6. CASE SpawnSucceeds
  <2> DEFINE w == run.worker
             up == [worker[w] EXCEPT !.proc = "live", !.state = "idle"]
  <2>1. w \in Worker
    BY <1>t, <1>6 DEF SpawnSucceeds
  <2>0. worker[w] \in WorkerType
    BY <1>t, <2>1
  <2>a. /\ up \in WorkerType /\ up.thread = worker[w].thread /\ up.retiring = worker[w].retiring
    BY <2>0 DEF WorkerType
  <2> HIDE DEF w, up
  <2>2. /\ up \in WorkerType /\ up.thread = worker[w].thread /\ up.retiring = worker[w].retiring
        /\ Stop(up).thread = worker[w].thread /\ Stop(up).retiring = worker[w].retiring
        /\ [up EXCEPT !.state = "assigned"].thread = worker[w].thread
        /\ [up EXCEPT !.state = "assigned"].retiring = worker[w].retiring
    BY <2>a DEF WorkerType, Stop
  <2>3. ASSUME NEW obj, obj.thread = worker[w].thread, obj.retiring = worker[w].retiring,
               worker' = [worker EXCEPT ![w] = obj]
        PROVE  AllMayBecome(worker')
    <3>1. worker'[w] = obj /\ \A v \in Worker : v # w => worker'[v] = worker[v]
      BY <1>t, <2>1, <2>3
    <3>2. MayBecome(w, obj)
      BY <2>3 DEF MayBecome, Kept
    <3> QED
      BY <2>1, <3>1, <3>2, GoesOne
  <2>4. CASE worker' = [worker EXCEPT ![w] = Stop(up)]
    BY <2>2, <2>3, <2>4
  <2>5. CASE worker' = [worker EXCEPT ![w] = [up EXCEPT !.state = "assigned"]]
    BY <2>2, <2>3, <2>5
  <2>6. CASE MaintainLoop(run.op, [worker EXCEPT ![w] = up])
    <3> DEFINE wk == [worker EXCEPT ![w] = up]
    <3>1. wk \in [Worker -> WorkerType] /\ wk[w] = up /\ \A v \in Worker : v # w => wk[v] = worker[v]
      BY <1>t, <2>1, <2>2
    <3>2. AllMayBecome(wk)
      <4>1. \A v \in workers : MayBecome(v, worker[v])
        BY GoesSame DEF AllMayBecome
      <4>2. MayBecome(w, up)
        BY <2>2 DEF MayBecome, Kept
      <4> HIDE DEF wk
      <4> QED
        BY <1>t, <3>1, <4>1, <4>2 DEF AllMayBecome
    <3>3. MaintainLoop(run.op, wk)
      BY <2>6
    <3> HIDE DEF wk
    <3> QED
      BY <3>1, <3>2, <3>3, GoesMaintain
  <2> QED
    BY <1>6, <2>4, <2>5, <2>6, Zenon DEF SpawnSucceeds, w, up
<1>7. CASE SpawnFails \/ SpawnAbandoned \/ UnswitchedStopped \/ AllStopped
  <2>1. UNCHANGED worker
    BY <1>7 DEF SpawnFails, SpawnAbandoned, UnswitchedStopped, AllStopped
  <2> QED
    BY <2>1, GoesSame
<1>8. CASE VictimStopped
  <2>1. CASE UNCHANGED worker
    BY <2>1, GoesSame
  <2>2. CASE BeginSpawn(run.op, run.client, client[run.client].cwd, workers \ {run.worker}, worker)
    BY <1>t, <2>2, GoesSpawn, GoesSame
  <2> QED
    BY <1>8, <2>1, <2>2 DEF VictimStopped, SpawnReserved
<1>9. CASE MovedStopped
  <2>1. \E timer : SelectWorker("session", run.client, workers \ {run.worker}, timer)
    BY <1>9 DEF MovedStopped
  <2> QED
    BY <2>1, GoesSelect
<1>10. CASE ReapedStopped
  <2>1. ReapLoop(run.todo, workers')
    BY <1>10 DEF ReapedStopped
  <2> QED
    BY <1>t, <2>1, GoesReap
<1>11. ASSUME run.pc = "switch", NEW obj, worker' = [worker EXCEPT ![run.worker] = obj]
       PROVE  AllMayBecome(worker')
  <2> DEFINE w == run.worker
  <2>1. w \in Worker
    BY <1>t, <1>11
  <2>2. worker[w].thread = None
    BY <1>11, <2>1 DEF UseInv, UseAt, Held, HeldAt, SwitchAt, Switching
  <2>3. worker'[w] = obj /\ \A v \in Worker : v # w => worker'[v] = worker[v]
    BY <1>t, <1>11, <2>1
  <2>4. MayBecome(w, obj)
    BY <2>2 DEF MayBecome
  <2> HIDE DEF w
  <2> QED
    BY <2>1, <2>3, <2>4, GoesOne
<1>12. CASE SwitchSucceeds
  <2>1. worker' = [worker EXCEPT ![run.worker] =
                     [worker[run.worker] EXCEPT !.thread = client[run.client].thread]]
    BY <1>t, <1>12 DEF SwitchSucceeds
  <2> QED
    BY <1>11, <1>12, <2>1 DEF SwitchSucceeds
<1>13. CASE SwitchFails
  BY <1>11, <1>13, Zenon DEF SwitchFails
<1> QED
  BY <1>1, <1>2, <1>3, <1>4, <1>5, <1>6, <1>7, <1>8, <1>9, <1>10, <1>12, <1>13 DEF JobStep

LEMMA OutsideGoes ==
  ASSUME WorkerPoolAssumption, TypeOK, UseInv,
         \/ TimerStep
         \/ \E w \in Worker : ProcessStep(w)
         \/ \E c \in Client : RequestStep(c) \/ UseStep(c)
         \/ \E t \in Thread : Persist(t)
         \/ UNCHANGED vars
  PROVE  \A w \in workers : MayBecome(w, worker'[w]) \/ Forking(w)
<1>t. /\ workers \subseteq Worker /\ worker \in [Worker -> WorkerType]
      /\ \A w \in Worker : worker[w] \in WorkerType
      /\ \A c \in Client : client[c].pc \notin {"idle", "queued"} => client[c].worker \in Worker
  BY DEF TypeOK
<1>k. ASSUME NEW w \in Worker, NEW obj, worker' = [worker EXCEPT ![w] = obj],
             \/ obj.thread = worker[w].thread /\ obj.retiring = worker[w].retiring
             \/ worker[w].thread = None
      PROVE  AllMayBecome(worker')
  <2>1. worker'[w] = obj /\ \A v \in Worker : v # w => worker'[v] = worker[v]
    BY <1>t, <1>k
  <2>2. MayBecome(w, obj)
    BY <1>k DEF MayBecome, Kept
  <2> QED
    BY <2>1, <2>2, GoesOne
<1>g. AllMayBecome(worker') => \A w \in workers : MayBecome(w, worker'[w]) \/ Forking(w)
  BY DEF AllMayBecome
<1>1. CASE UNCHANGED worker
  BY <1>1, <1>g, GoesSame
<1>2. CASE TimerStep \/ (\E t \in Thread : Persist(t)) \/ UNCHANGED vars
  <2>1. UNCHANGED worker
    BY <1>2 DEF TimerStep, RecoveryTimerFires, ReaperTicks, StopAll, Persist, vars
  <2> QED
    BY <1>1, <2>1
<1>3. ASSUME NEW w \in Worker, ProcessStep(w) PROVE AllMayBecome(worker')
  <2>1. PICK obj : worker' = [worker EXCEPT ![w] = obj] /\ obj.thread = worker[w].thread
                   /\ obj.retiring = worker[w].retiring
    <3>0. worker[w] \in WorkerType
      BY <1>t
    <3>1. CASE Close(w)
      <4>1. CASE worker' = [worker EXCEPT ![w].proc = "dead", ![w].state = "crashed", ![w].turn = FALSE]
        <5> DEFINE obj == [worker[w] EXCEPT !.proc = "dead", !.state = "crashed", !.turn = FALSE]
        <5>1. worker' = [worker EXCEPT ![w] = obj] /\ obj.thread = worker[w].thread
              /\ obj.retiring = worker[w].retiring
          BY <1>t, <3>0, <4>1 DEF WorkerType
        <5> QED
          BY <5>1
      <4>2. CASE worker' = [worker EXCEPT ![w].proc = "dead"]
        <5> DEFINE obj == [worker[w] EXCEPT !.proc = "dead"]
        <5>1. worker' = [worker EXCEPT ![w] = obj] /\ obj.thread = worker[w].thread
              /\ obj.retiring = worker[w].retiring
          BY <1>t, <3>0, <4>2 DEF WorkerType
        <5> QED
          BY <5>1
      <4> QED
        BY <3>1, <4>1, <4>2, Zenon DEF Close
    <3>2. CASE Escalate(w)
      <4> DEFINE obj == [worker[w] EXCEPT !.proc = "killed"]
      <4>1. worker' = [worker EXCEPT ![w] = obj] /\ obj.thread = worker[w].thread
            /\ obj.retiring = worker[w].retiring
        BY <1>t, <3>0, <3>2 DEF WorkerType, Escalate
      <4> QED
        BY <4>1
    <3>3. CASE CommandTimesOut(w)
      <4> DEFINE obj == [worker[w] EXCEPT !.state = "crashed", !.proc = "killed"]
      <4>1. worker' = [worker EXCEPT ![w] = obj] /\ obj.thread = worker[w].thread
            /\ obj.retiring = worker[w].retiring
        BY <1>t, <3>0, <3>3 DEF WorkerType, CommandTimesOut
      <4> QED
        BY <4>1
    <3>4. CASE AgentStart(w)
      <4> DEFINE obj == [worker[w] EXCEPT !.state = "running"]
      <4>1. worker' = [worker EXCEPT ![w] = obj] /\ obj.thread = worker[w].thread
            /\ obj.retiring = worker[w].retiring
        BY <1>t, <3>0, <3>4 DEF WorkerType, AgentStart
      <4> QED
        BY <4>1
    <3>5. CASE AgentSettled(w)
      <4> DEFINE ends == {c \in Client : OnTurn(c, w) /\ ~stopped}
      <4>1. PICK mark : worker' = [worker EXCEPT ![w].state = "assigned", ![w].turn = @ /\ ends = {},
                                                 ![w].aborting = mark]
        BY <3>5, Zenon DEF AgentSettled
      <4> DEFINE turn == worker[w].turn /\ ends = {}
                 obj == [worker[w] EXCEPT !.state = "assigned", !.turn = turn, !.aborting = mark]
      <4>2. worker' = [worker EXCEPT ![w] = obj] /\ obj.thread = worker[w].thread
            /\ obj.retiring = worker[w].retiring
        BY <1>t, <3>0, <4>1 DEF WorkerType
      <4> QED
        BY <4>2
    <3> QED
      BY <1>3, <3>1, <3>2, <3>3, <3>4, <3>5 DEF ProcessStep
  <2> QED
    BY <1>k, <2>1
<1>4. ASSUME NEW c \in Client, RequestStep(c) PROVE AllMayBecome(worker')
  <2>1. CASE \E dir \in Cwd : RequestNew(c, dir)
    BY <2>1, GoesSame DEF RequestNew
  <2>2. ASSUME NEW t \in Thread, NEW kind, NEW dir \in Cwd, RequestSession(c, t, dir, kind)
        PROVE  AllMayBecome(worker')
    BY <2>2, GoesSame DEF RequestSession
  <2>3. ASSUME NEW t \in Thread, NEW kind, RetainOwner(c, t, kind) PROVE AllMayBecome(worker')
    <3>1. PICK w \in FindByThread(t) : worker' = [worker EXCEPT ![w].res = @ + 1]
      BY <2>3 DEF RetainOwner
    <3> DEFINE obj == [worker[w] EXCEPT !.res = @ + 1]
    <3>2. w \in Worker /\ worker' = [worker EXCEPT ![w] = obj] /\ worker[w] \in WorkerType
      BY <1>t, <3>1 DEF FindByThread
    <3>3. obj.thread = worker[w].thread /\ obj.retiring = worker[w].retiring
      BY <3>2 DEF WorkerType
    <3> HIDE DEF obj
    <3> QED
      BY <1>k, <3>2, <3>3
  <2>4. ASSUME NEW kind, BeginCommand(c, kind) PROVE AllMayBecome(worker')
    <3>1. PICK w \in workers :
            worker' = [worker EXCEPT ![w].pending = @ + 1, ![w].aborting = @ \/ kind = "abort"]
      BY <2>4 DEF BeginCommand
    <3> DEFINE obj == [worker[w] EXCEPT !.pending = @ + 1, !.aborting = @ \/ kind = "abort"]
    <3>2. w \in Worker /\ worker' = [worker EXCEPT ![w] = obj] /\ worker[w] \in WorkerType
      BY <1>t, <3>1
    <3>3. obj.thread = worker[w].thread /\ obj.retiring = worker[w].retiring
      BY <3>2 DEF WorkerType
    <3> HIDE DEF obj
    <3> QED
      BY <1>k, <3>2, <3>3
  <2> QED
    BY <1>4, <2>1, <2>2, <2>3, <2>4 DEF RequestStep
<1>5. ASSUME NEW c \in Client, UseStep(c)
      PROVE  \A w \in workers : MayBecome(w, worker'[w]) \/ Forking(w)
  <2> DEFINE v == client[c].worker
  <2>1. UNCHANGED worker \/ v \in Worker
    BY <1>t, <1>5 DEF UseStep, StartThread, Fork, StartTurn, EndTurn, BeginMutation, ReleaseHeld,
                      CommandReturns, FinishAbort
  <2>h. ASSUME v \in Worker, client[c].pc = "holds", ~Unavailable(v)
        PROVE  HolderAt(c, v, worker[v], client)
    <3>1. c \in Holders(client, v) /\ ~Gone(worker[v])
      BY <2>h DEF Holders, Unavailable, Gone
    <3> QED
      BY <2>h, <3>1, HeldUsable
  <2>2. ASSUME v \in Worker, NEW t \in Thread, StartThread(c, t) PROVE AllMayBecome(worker')
    <3>1. worker[v].thread = None
      BY <2>h, <2>2 DEF StartThread, HolderAt
    <3>2. worker' = [worker EXCEPT ![v] = [worker[v] EXCEPT !.thread = t, !.turn = TRUE, !.state = "running"]]
      BY <1>t, <2>2 DEF StartThread
    <3> QED
      BY <1>k, <2>2, <3>1, <3>2
  <2>3. ASSUME v \in Worker, NEW t \in Thread, Fork(c, t)
        PROVE  \A w \in workers : MayBecome(w, worker'[w]) \/ Forking(w)
    <3>1. Forking(v)
      BY <2>3 DEF Fork, Forking
    <3>2. \A w \in Worker : w # v => worker'[w] = worker[w]
      BY <1>t, <2>3 DEF Fork
    <3>3. \A w \in workers : MayBecome(w, worker[w])
      BY GoesSame DEF AllMayBecome
    <3> HIDE DEF v
    <3> QED
      BY <1>t, <3>1, <3>2, <3>3
  <2>4. ASSUME v \in Worker, StartTurn(c) PROVE AllMayBecome(worker')
    <3> DEFINE obj == [worker[v] EXCEPT !.thread = client[c].thread, !.turn = TRUE, !.state = "running"]
    <3>1. worker[v].thread = client[c].thread
      BY <2>h, <2>4 DEF StartTurn, HolderAt, Writers
    <3>2. worker' = [worker EXCEPT ![v] = obj]
      BY <1>t, <2>4 DEF StartTurn
    <3>3. obj.thread = worker[v].thread /\ obj.retiring = worker[v].retiring
      BY <1>t, <2>4, <3>1 DEF WorkerType
    <3> HIDE DEF obj
    <3> QED
      BY <1>k, <2>4, <3>2, <3>3
  <2>5. ASSUME v \in Worker, EndTurn(c) PROVE AllMayBecome(worker')
    <3>1. CASE UNCHANGED worker
      BY <3>1, GoesSame
    <3>2. CASE worker' = [worker EXCEPT ![v].turn = FALSE]
      <4> DEFINE obj == [worker[v] EXCEPT !.turn = FALSE]
      <4>1. worker' = [worker EXCEPT ![v] = obj] /\ obj.thread = worker[v].thread
            /\ obj.retiring = worker[v].retiring
        BY <1>t, <2>5, <3>2 DEF WorkerType
      <4> HIDE DEF obj
      <4> QED
        BY <1>k, <2>5, <4>1
    <3> QED
      BY <2>5, <3>1, <3>2 DEF EndTurn
  <2>6. ASSUME v \in Worker, BeginMutation(c) PROVE AllMayBecome(worker')
    <3> DEFINE obj == [worker[v] EXCEPT !.state = "running"]
    <3>1. worker' = [worker EXCEPT ![v] = obj] /\ obj.thread = worker[v].thread
          /\ obj.retiring = worker[v].retiring
      BY <1>t, <2>6 DEF WorkerType, BeginMutation
    <3> HIDE DEF obj
    <3> QED
      BY <1>k, <2>6, <3>1
  <2>7. ASSUME v \in Worker, ReleaseHeld(c) PROVE AllMayBecome(worker')
    <3>1. worker' = [worker EXCEPT ![v] = Release(v)]
      BY <2>7 DEF ReleaseHeld
    <3>2. worker'[v] = Release(v) /\ \A w \in Worker : w # v => worker'[w] = worker[w]
      BY <1>t, <2>7, <3>1
    <3>3. MayBecome(v, Release(v))
      BY <1>t, <2>7, GoesFields
    <3> HIDE DEF v
    <3> QED
      BY <2>7, <3>2, <3>3, GoesOne
  <2>8. ASSUME v \in Worker, CommandReturns(c) PROVE AllMayBecome(worker')
    <3> DEFINE obj == [worker[v] EXCEPT !.pending = @ - 1]
    <3>1. worker' = [worker EXCEPT ![v] = obj] /\ obj.thread = worker[v].thread
          /\ obj.retiring = worker[v].retiring
      BY <1>t, <2>8 DEF WorkerType, CommandReturns
    <3> HIDE DEF obj
    <3> QED
      BY <1>k, <2>8, <3>1
  <2>9. ASSUME v \in Worker, FinishAbort(c) PROVE AllMayBecome(worker')
    <3>1. PICK mark : worker' = [worker EXCEPT ![v].aborting = mark]
      BY <2>9, Zenon DEF FinishAbort
    <3> DEFINE obj == [worker[v] EXCEPT !.aborting = mark]
    <3>2. worker' = [worker EXCEPT ![v] = obj] /\ obj.thread = worker[v].thread
          /\ obj.retiring = worker[v].retiring
      BY <1>t, <2>9, <3>1 DEF WorkerType
    <3> HIDE DEF obj
    <3> QED
      BY <1>k, <2>9, <3>2
  <2> HIDE DEF v
  <2> QED
    BY <1>1, <1>5, <1>g, <2>1, <2>2, <2>3, <2>4, <2>5, <2>6, <2>7, <2>8, <2>9 DEF UseStep
<1> QED
  BY <1>2, <1>3, <1>4, <1>5, <1>g

(* Every step.                                                             *)
LEMMA StepGoes ==
  ASSUME WorkerPoolAssumption, TypeOK, UseInv, [Next]_vars
  PROVE  \A w \in workers : MayBecome(w, worker'[w]) \/ Forking(w)
  BY JobGoes, OutsideGoes DEF Next, Halted, AllMayBecome

(* A thread whose session Pi has not written yet is never taken off its    *)
(* worker: reuse, reaping, eviction and switching leave it alone, however  *)
(* they come upon the worker.                                              *)
THEOREM UnsavedStays == ASSUME ~StrayEvents PROVE Spec => UnsavedKept
<1> DEFINE Act ==
      \A w \in workers :
        /\ worker[w].thread \notin persisted \cup {None}
        /\ worker[w].proc = "live" /\ ~Unavailable(w) /\ worker'[w].state \notin {"crashed", "stopped"}
        => \/ worker'[w].thread = worker[w].thread /\ ~worker'[w].retiring
           \/ \E c \in Client : client[c].pc = "mutating" /\ client[c].worker = w
<1>1. TypeOK /\ UseInv /\ [Next]_vars => Act
  <2> SUFFICES ASSUME TypeOK, UseInv, [Next]_vars, NEW w \in workers,
                      worker[w].thread \notin persisted \cup {None},
                      worker[w].proc = "live", ~Unavailable(w)
               PROVE  \/ worker'[w].thread = worker[w].thread /\ ~worker'[w].retiring
                      \/ \E c \in Client : client[c].pc = "mutating" /\ client[c].worker = w
    OBVIOUS
  <2>1. MayBecome(w, worker'[w]) \/ Forking(w)
    BY StepGoes, WorkerPoolAssumption
  <2>2. ~IsReclaimable(w)
    BY DEF IsReclaimable
  <2>3. ~worker[w].retiring
    BY UsableListed DEF HeldAt, WithdrawnAt, Gone, Unavailable
  <2> QED
    BY <2>1, <2>2, <2>3 DEF MayBecome, Kept, Taken, Forking
<1>2. Spec => [][Act]_vars
  <2>1. TypeOK /\ UseInv /\ [Next]_vars => [Act]_vars
    BY <1>1
  <2> HIDE DEF Act
  <2> QED
    BY <2>1, UseInvariant, TypeCorrect, WorkerPoolAssumption, PTL DEF Spec
<1> QED
  BY <1>2 DEF UnsavedKept

(* With reuse across threads switched off, a process that has had a thread *)
(* serves that one until it goes, whatever the pool is short of.           *)
THEOREM ServesOneThread == ASSUME ~StrayEvents PROVE Spec => OneThreadForLife
<1> DEFINE Act ==
      ~ReuseAcrossThreads =>
        \A w \in workers \cap workers' :
          worker[w].thread # None => worker'[w].thread = worker[w].thread
<1>1. TypeOK /\ UseInv /\ [Next]_vars => Act
  <2> SUFFICES ASSUME TypeOK, UseInv, [Next]_vars, ~ReuseAcrossThreads,
                      NEW w \in workers, worker[w].thread # None
               PROVE  worker'[w].thread = worker[w].thread
    OBVIOUS
  <2>1. MayBecome(w, worker'[w])
    BY StepGoes, WorkerPoolAssumption DEF Forking
  <2>2. IsReclaimable(w) => worker[w].claimed
    <3> SUFFICES ASSUME IsReclaimable(w) PROVE worker[w].claimed
      OBVIOUS
    <3>1. ~Unavailable(w)
      BY DEF IsReclaimable, IsQuiescent, Unavailable
    <3> QED
      BY <3>1, UsableListed DEF UsableAt
  <2> QED
    BY <2>1, <2>2 DEF MayBecome, Kept, Taken
<1>2. Spec => [][Act]_vars
  <2>1. TypeOK /\ UseInv /\ [Next]_vars => [Act]_vars
    BY <1>1
  <2> HIDE DEF Act
  <2> QED
    BY <2>1, UseInvariant, TypeCorrect, WorkerPoolAssumption, PTL DEF Spec
<1> QED
  BY <1>2 DEF OneThreadForLife
=============================================================================
