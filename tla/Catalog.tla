------------------------------ MODULE Catalog ------------------------------
(***************************************************************************)
(* The session catalog (src/src/session/catalog.ts) and how the service    *)
(* goes from a thread's id to its session file: requests resolve a thread  *)
(* while Pi processes, the daemon's own and others, create, write, move    *)
(* and delete the files.                                                   *)
(*                                                                         *)
(* Of a file's content the model keeps its header and a revision; a file   *)
(* without a header has none of the ids.  No two files have the same id,   *)
(* and no two contents the same revision: those there are at the start are *)
(* told apart by the path they are at then.                                *)
(***************************************************************************)
EXTENDS Naturals, FiniteSets, Functions

CONSTANTS
  Thread,     \* session ids
  Path,       \* paths of session files
  Directory,  \* directories of session files
  InDir,      \* the directory of each path
  Request,    \* requests at work
  None,
  MaxWrites   \* bound: changes of files

ASSUME CatalogAssumption ==
  /\ None \notin Thread \cup Path
  /\ Thread \cap Path = {}
  /\ Path \cap 0..MaxWrites = {}
  /\ InDir \in [Path -> Directory]
  /\ MaxWrites \in Nat

VARIABLES
  file,         \* what is at each path: NoFile, or its id and revision
  byId,         \* the path of the cached session of each thread
  unpersisted,  \* threads that Pi has not saved as far as the catalog knows
  baseline,     \* per thread the path and content last seen by the daemon
  request,      \* the requests (see NoRequest)
  worker,       \* the session path of the worker that serves each thread
  unsaved,      \* threads whose worker has not saved them yet
  busy,         \* threads with an active turn
  writes        \* changes of files so far, for MaxWrites

vars == <<file, byId, unpersisted, baseline, request, worker, unsaved, busy, writes>>
cached == <<byId, unpersisted, baseline>>

Revision == Path \cup 0..MaxWrites
Content == [id : Thread \cup {None}, rev : Revision]
NoFile == [id |-> None, rev |-> 0]
NoSample == [path |-> None, rev |-> 0]
Session == [id : Thread, path : Path]
NoSession == [id |-> None, path |-> None]

NoRequest ==
  [pc |-> "none",         \* "listing", "listed", "resolved", "acquiring"
   asked |-> None,        \* a thread, a path, or None for thread/list
   unread |-> {},         \* directories still to be read
   found |-> {},          \* sessions read so far
   session |-> NoSession, \* what the request was resolved to
   there |-> FALSE]       \* its thread has stayed at one place meanwhile

Exists(p) == file[p] # NoFile

(* infoFromPath finds a session in the file.                               *)
Headed(p) == file[p].id # None

(* sampleBaseline                                                          *)
Sample(p) == [path |-> p, rev |-> file[p].rev]

-----------------------------------------------------------------------------
(* The catalog.                                                            *)

(* isPersisted                                                             *)
Persisted(t) == byId[t] # None /\ Exists(byId[t])

(* Variant: a session that is known counts as saved.                       *)
CanReclaimKnown(t) == byId[t] # None

(* canReclaim, and half of assertResumable                                 *)
CanReclaim(t) == Persisted(t)

(* assertUnchanged: the file at the baseline's path is as it was.          *)
Unchanged(t) ==
  \/ baseline[t] = NoSample
  \/ Exists(baseline[t].path) /\ Sample(baseline[t].path) = baseline[t]

(* updateFromWorkerState.  A file without a header is an error.            *)
Updates(t, p) ==
  IF ~Exists(p)
  THEN /\ byId' = [byId EXCEPT ![t] = p]
       /\ unpersisted' = IF baseline[t] = NoSample THEN unpersisted \cup {t} ELSE unpersisted
       /\ UNCHANGED baseline
  ELSE IF ~Headed(p) THEN UNCHANGED cached
  ELSE LET id == file[p].id
       IN /\ byId' = [byId EXCEPT ![id] = p]
          /\ unpersisted' = unpersisted \ {id}
          /\ baseline' = [baseline EXCEPT ![id] = Sample(p)]

-----------------------------------------------------------------------------
(* resolveThread.                                                          *)

Put(r, rec) == request' = [request EXCEPT ![r] = rec]

Resolves(r, rec, id, p) ==
  Put(r, [rec EXCEPT !.pc = "resolved", !.session = [id |-> id, path |-> p]])

Ends(r) == Put(r, NoRequest)

Lists(r, rec, dirs) == Put(r, [rec EXCEPT !.pc = "listing", !.unread = dirs])

(* The thread is saved, or a worker has it; it was not moved before the    *)
(* catalog saw it saved, and no list that is under way has read it         *)
(* elsewhere.                                                              *)
There(t) ==
  /\ \/ t \in unsaved /\ worker[t] # None
     \/ /\ \E p \in Path : file[p].id = t
        /\ t \in unpersisted => byId[t] \in Path /\ file[byId[t]].id = t
  /\ \A r \in Request : \A s \in request[r].found : s.id = t => file[s.path].id = t

Asks(x) == [NoRequest EXCEPT !.asked = x, !.there = x \in Thread /\ There(x)]

Idle(r) == request[r].pc = "none"

(* A path that exists is the session, whatever its id.                     *)
AskPath(r, p) ==
  /\ Idle(r)
  /\ IF ~Exists(p) THEN Lists(r, Asks(p), Directory) /\ UNCHANGED byId
     ELSE IF ~Headed(p) THEN Ends(r) /\ UNCHANGED byId
     ELSE /\ Resolves(r, Asks(p), file[p].id, p)
          /\ byId' = [byId EXCEPT ![file[p].id] = p]
  /\ UNCHANGED <<file, unpersisted, baseline, worker, unsaved, busy, writes>>

(* Variant: the file that is cached for the thread is taken for its own.   *)
AskCachedBlindly(r, t) ==
  LET p == byId[t]
  IN /\ Idle(r) /\ Persisted(t)
     /\ IF ~Headed(p)
        THEN Ends(r) /\ UNCHANGED <<byId, unpersisted>>
        ELSE /\ unpersisted' = unpersisted \ {t}
             /\ byId' = [[byId EXCEPT ![t] = None] EXCEPT ![file[p].id] = p]
             /\ Resolves(r, Asks(t), file[p].id, p)
     /\ UNCHANGED <<file, baseline, worker, unsaved, busy, writes>>

(* The cached session is read again; its file may be another's by now.     *)
AskCached(r, t) ==
  LET p == byId[t]
  IN /\ Idle(r) /\ Persisted(t)
     /\ IF ~Headed(p)
        THEN Ends(r) /\ UNCHANGED <<byId, unpersisted>>
        ELSE /\ unpersisted' = unpersisted \ {t}
             /\ byId' = [[byId EXCEPT ![t] = None] EXCEPT ![file[p].id] = p]
             /\ IF file[p].id = t THEN Resolves(r, Asks(t), t, p)
                ELSE Lists(r, Asks(t), Directory)
     /\ UNCHANGED <<file, baseline, worker, unsaved, busy, writes>>

(* Variant: a session that is not saved is looked for like any other.      *)
AskUnsavedListing(r, t) ==
  /\ Idle(r) /\ ~Persisted(t) /\ byId[t] # None /\ t \in unpersisted
  /\ byId' = [byId EXCEPT ![t] = None]
  /\ Lists(r, Asks(t), Directory)
  /\ UNCHANGED <<file, unpersisted, baseline, worker, unsaved, busy, writes>>

(* A session that Pi has not saved is what its worker said.                *)
AskUnsaved(r, t) ==
  /\ Idle(r) /\ ~Persisted(t) /\ byId[t] # None /\ t \in unpersisted
  /\ Resolves(r, Asks(t), t, byId[t])
  /\ UNCHANGED <<file, cached, worker, unsaved, busy, writes>>

AskUnknown(r, t) ==
  /\ Idle(r) /\ ~Persisted(t) /\ (byId[t] = None \/ t \notin unpersisted)
  /\ byId' = [byId EXCEPT ![t] = None]
  /\ Lists(r, Asks(t), Directory)
  /\ UNCHANGED <<file, unpersisted, baseline, worker, unsaved, busy, writes>>

(* thread/list and thread/search, of all directories or of one             *)
AskList(r) ==
  /\ Idle(r)
  /\ \E dirs \in {Directory} \cup {{d} : d \in Directory} : Lists(r, Asks(None), dirs)
  /\ UNCHANGED <<file, cached, worker, unsaved, busy, writes>>

(* listSessionsFromDir: the files that have a header by now.               *)
ReadDirectory(r, d) ==
  /\ request[r].pc = "listing" /\ d \in request[r].unread
  /\ Put(r, [request[r] EXCEPT
       !.unread = @ \ {d},
       !.found = @ \cup {s \in Session : InDir[s.path] = d /\ file[s.path].id = s.id}])
  /\ UNCHANGED <<file, cached, worker, unsaved, busy, writes>>

(* What was found replaces what was cached; a file that was moved          *)
(* meanwhile may have been found twice.                                    *)
CacheList(r) ==
  /\ request[r].pc = "listing" /\ request[r].unread = {}
  /\ byId' \in {[t \in Thread |-> IF t \in DOMAIN f THEN f[t] ELSE byId[t]] :
       f \in {g \in [{s.id : s \in request[r].found} -> Path] :
                \A t \in DOMAIN g : [id |-> t, path |-> g[t]] \in request[r].found}}
  /\ Put(r, IF request[r].asked = None THEN NoRequest
            ELSE [request[r] EXCEPT !.pc = "listed", !.found = {}])
  /\ UNCHANGED <<file, unpersisted, baseline, worker, unsaved, busy, writes>>

(* The request goes on after list has returned.                            *)
LookUp(r) ==
  LET t == request[r].asked
  IN /\ request[r].pc = "listed"
     /\ IF t \in Thread /\ byId[t] # None THEN Resolves(r, request[r], t, byId[t])
        ELSE Ends(r)
     /\ UNCHANGED <<file, cached, worker, unsaved, busy, writes>>

-----------------------------------------------------------------------------
(* The service.                                                            *)

(* thread/send, once no turn or cleanup is in the way.                     *)
Send(r) ==
  LET t == request[r].session.id
  IN /\ request[r].pc = "resolved" /\ t \notin busy
     /\ IF ~Unchanged(t) \/ (worker[t] = None /\ ~Persisted(t))
        THEN Ends(r) /\ UNCHANGED busy
        ELSE /\ Put(r, [request[r] EXCEPT !.pc = "acquiring", !.there = TRUE])
             /\ busy' = busy \cup {t}
     /\ UNCHANGED <<file, cached, worker, unsaved, writes>>

(* Variant: the worker is not asked which session it has resumed.          *)
AcquireBlindly(r) ==
  LET s == request[r].session
  IN /\ request[r].pc = "acquiring"
     /\ worker' = [worker EXCEPT ![s.id] = IF @ = None THEN s.path ELSE @]
     /\ Ends(r)
     /\ UNCHANGED <<file, cached, unsaved, busy, writes>>

(* The thread's worker, or one that is switched to the session and has the *)
(* thread's id then.                                                       *)
Acquire(r) ==
  LET s == request[r].session
  IN /\ request[r].pc = "acquiring"
     /\ IF worker[s.id] # None \/ file[s.path].id = s.id
        THEN /\ worker' = [worker EXCEPT ![s.id] = IF @ = None THEN s.path ELSE @]
             /\ Ends(r)
             /\ UNCHANGED busy
        ELSE /\ Ends(r)
             /\ busy' = busy \ {s.id}
             /\ UNCHANGED worker
     /\ UNCHANGED <<file, cached, unsaved, writes>>

(* thread/read: the session is read, or the turn is refused as busy.       *)
Drop(r) ==
  /\ request[r].pc = "resolved"
  /\ Ends(r)
  /\ UNCHANGED <<file, cached, worker, unsaved, busy, writes>>

(* The turn has its worker.                                                *)
Settled(t) == \A r \in Request : request[r].pc = "acquiring" => request[r].session.id # t

(* Nobody knows of the id, so that Pi may choose it.                       *)
NewId(t) ==
  /\ byId[t] = None /\ baseline[t] = NoSample /\ worker[t] = None
  /\ \A p \in Path : file[p].id # t
  /\ \A r \in Request : \A s \in request[r].found : s.id # t

(* thread/start, fork or clone: a worker has a new session.                *)
NewThread(t, p) ==
  /\ NewId(t) /\ ~Exists(p)
  /\ \A u \in Thread : worker[u] # p /\ byId[u] # p
  /\ worker' = [worker EXCEPT ![t] = p]
  /\ unsaved' = unsaved \cup {t}
  /\ busy' = busy \cup {t}
  /\ Updates(t, p)
  /\ UNCHANGED <<file, request, writes>>

(* The refresh after a turn or a mutation: of what the worker says, or, if *)
(* it is gone, of what the thread is resolved to.                          *)
Refresh(t) ==
  /\ t \in busy /\ Settled(t)
  /\ busy' = busy \ {t}
  /\ IF worker[t] # None THEN Updates(t, worker[t])
     ELSE IF Persisted(t) /\ file[byId[t]].id = t THEN Updates(t, byId[t])
     ELSE \/ \E p \in Path : file[p].id = t /\ t \notin unpersisted /\ Updates(t, p)
          \/ (\A p \in Path : file[p].id # t \/ t \in unpersisted) /\ UNCHANGED cached
  /\ UNCHANGED <<file, request, worker, unsaved, writes>>

(* The pool takes the worker away.                                         *)
Reclaim(t) ==
  /\ worker[t] # None /\ t \notin busy /\ CanReclaim(t)
  /\ worker' = [worker EXCEPT ![t] = None]
  /\ UNCHANGED <<file, cached, request, unsaved, busy, writes>>

-----------------------------------------------------------------------------
(* The files.  Where a thread is not where it was, requests that are under *)
(* way need not find it.                                                   *)

Gone(threads) ==
  request' = [r \in Request |->
    IF {request[r].asked, request[r].session.id} \cap (threads \ {None}) # {}
    THEN [request[r] EXCEPT !.there = FALSE] ELSE request[r]]

Changes(p, content, gone) ==
  /\ writes < MaxWrites
  /\ writes' = writes + 1
  /\ file' = [file EXCEPT ![p] = content]
  /\ Gone(gone)
  /\ UNCHANGED cached

(* A daemon's worker in a turn: the whole session the first time, further  *)
(* entries from then on.                                                   *)
WorkerWrites(t) ==
  LET p == worker[t]
      id == IF t \in unsaved THEN t ELSE file[p].id
  IN /\ t \in busy /\ p # None
     /\ Changes(p, [id |-> id, rev |-> writes + 1], {})
     /\ unsaved' = unsaved \ {t}
     /\ UNCHANGED <<worker, busy>>

WorkerDies(t) ==
  /\ worker[t] # None
  /\ worker' = [worker EXCEPT ![t] = None]
  /\ unsaved' = unsaved \ {t}
  /\ Gone({t} \cap unsaved)
  /\ UNCHANGED <<file, cached, busy, writes>>

(* Nobody takes away the file of a worker that runs.                       *)
Unused(p) == \A t \in Thread : worker[t] # p

(* Somebody else adds to a session or spoils the file.                     *)
OtherWrites(p) ==
  /\ Exists(p)
  /\ \E id \in {file[p].id, None} :
       Changes(p, [id |-> id, rev |-> writes + 1], IF id = None THEN {file[p].id} ELSE {})
  /\ UNCHANGED <<worker, unsaved, busy>>

OtherCreates(p, t) ==
  /\ ~Exists(p) /\ byId[t] = None /\ worker[t] = None
  /\ \A q \in Path : file[q].id # t
  /\ Unused(p)
  /\ Changes(p, [id |-> t, rev |-> writes + 1], {})
  /\ UNCHANGED <<worker, unsaved, busy>>

OtherDeletes(p) ==
  /\ Exists(p) /\ Unused(p)
  /\ Changes(p, NoFile, {file[p].id})
  /\ UNCHANGED <<worker, unsaved, busy>>

OtherMoves(p, q) ==
  /\ Exists(p) /\ ~Exists(q) /\ writes < MaxWrites
  /\ Unused(p) /\ Unused(q)
  /\ writes' = writes + 1
  /\ file' = [file EXCEPT ![q] = file[p], ![p] = NoFile]
  /\ Gone({file[p].id})
  /\ UNCHANGED <<cached, worker, unsaved, busy>>

-----------------------------------------------------------------------------

(* There may be sessions when the daemon starts.                           *)
Init ==
  /\ \E ids \in [Path -> Thread \cup {None}] :
       /\ \A p, q \in Path : ids[p] = ids[q] => p = q \/ ids[p] = None
       /\ file = [p \in Path |-> IF ids[p] = None THEN NoFile ELSE [id |-> ids[p], rev |-> p]]
  /\ byId = [t \in Thread |-> None]
  /\ unpersisted = {} /\ unsaved = {} /\ busy = {}
  /\ baseline = [t \in Thread |-> NoSample]
  /\ request = [r \in Request |-> NoRequest]
  /\ worker = [t \in Thread |-> None]
  /\ writes = 0

Resolve(r) ==
  \/ \E t \in Thread : AskCached(r, t) \/ AskUnsaved(r, t) \/ AskUnknown(r, t)
  \/ \E p \in Path : AskPath(r, p)
  \/ AskList(r)
  \/ \E d \in Directory : ReadDirectory(r, d)
  \/ CacheList(r) \/ LookUp(r)

Next ==
  \/ \E r \in Request : Resolve(r) \/ Send(r) \/ Acquire(r) \/ Drop(r)
  \/ \E t \in Thread :
       \/ Refresh(t) \/ Reclaim(t) \/ WorkerWrites(t) \/ WorkerDies(t)
       \/ \E p \in Path : NewThread(t, p) \/ OtherCreates(p, t)
  \/ \E p \in Path :
       \/ OtherWrites(p) \/ OtherDeletes(p)
       \/ \E q \in Path : OtherMoves(p, q)

Spec == Init /\ [][Next]_vars

-----------------------------------------------------------------------------
Requests ==
  [pc : {"none", "listing", "listed", "resolved", "acquiring"},
   asked : Thread \cup Path \cup {None},
   unread : SUBSET Directory, found : SUBSET Session,
   session : [id : Thread \cup {None}, path : Path \cup {None}],
   there : BOOLEAN]

(* Every field holds what its declaration says.                            *)
TypeOK ==
  /\ file \in [Path -> Content]
  /\ byId \in [Thread -> Path \cup {None}]
  /\ baseline \in [Thread -> [path : Path \cup {None}, rev : Revision]]
  /\ worker \in [Thread -> Path \cup {None}]
  /\ unpersisted \subseteq Thread /\ unsaved \subseteq Thread /\ busy \subseteq Thread
  /\ request \in [Request -> Requests]
  /\ writes \in 0..MaxWrites

(* A request for a thread is never answered with another thread's session, *)
(* though a file may have been replaced behind the cache.                  *)
AnswersItsThread ==
  \A r \in Request : request[r].pc = "resolved" /\ request[r].asked \in Thread =>
    request[r].session.id = request[r].asked

(* A thread whose file stays where it is, or that its worker has not saved *)
(* yet, is found, whatever other requests do to the cache meanwhile.       *)
ThreadsFound ==
  \A r \in Request : LET t == request[r].asked
                     IN request[r].there =>
    /\ request[r].pc = "listed" => byId[t] # None
    /\ request[r].pc = "resolved" => worker[t] # None \/ Persisted(t)

(* A turn works on the file that the baseline is of, so that what others   *)
(* write to it later is noticed; it does unless the file was moved after   *)
(* it had been compared.                                                   *)
TurnsOnBaseline ==
  [][\A r \in Request :
       LET t == request[r].session.id
       IN /\ request[r].pc = "acquiring" /\ request[r].there /\ request'[r] = NoRequest
          /\ t \in busy' /\ baseline[t] # NoSample
          => worker'[t] = baseline[t].path]_vars

(* The pool never takes away a worker that alone has its session.          *)
ReclaimedIsSaved ==
  [][\A t \in Thread : t \in unsaved /\ worker'[t] = None => t \notin unsaved']_vars
=============================================================================
