--------------------------- MODULE CatalogProofs ---------------------------
(***************************************************************************)
(* What holds of requests, the cache and the workers' sessions for any     *)
(* number of threads, files, requests and changes of the files.            *)
(***************************************************************************)
EXTENDS Catalog, TLAPS

-----------------------------------------------------------------------------
(* The requests.                                                           *)

(* A request that has a session has one with an id and a path, which is    *)
(* the one that was asked for.                                             *)
Sound ==
  {rec \in Requests :
     /\ rec.pc \in {"resolved", "acquiring"} => rec.session \in Session
     /\ rec.pc = "resolved" /\ rec.asked \in Thread => rec.session.id = rec.asked}

RequestsSound == request \in [Request -> Sound]

(* No request at all is sound.                                             *)
LEMMA NoRequestSound == NoRequest \in Sound
  BY CatalogAssumption DEF NoRequest, NoSession, Sound, Requests

(* A request that only asks has no session yet.                            *)
LEMMA AsksTyped ==
  ASSUME NEW x \in Thread \cup Path \cup {None}
  PROVE  /\ Asks(x) \in Requests
         /\ Asks(x).asked = x
<1>1. (x \in Thread /\ There(x)) \in BOOLEAN
  BY Zenon
<1> QED
  BY <1>1 DEF Asks, NoRequest, NoSession, Requests

(* A request that begins to list has no session yet.                       *)
LEMMA ListsSound ==
  ASSUME RequestsSound, NEW r \in Request, NEW rec \in Requests,
         NEW dirs \in SUBSET Directory, Lists(r, rec, dirs)
  PROVE  RequestsSound'
<1>1. [rec EXCEPT !.pc = "listing", !.unread = dirs] \in Sound
  BY DEF Sound, Requests
<1> QED
  BY <1>1 DEF Lists, Put, RequestsSound

(* A request is resolved to the thread it asks for.                        *)
LEMMA ResolvesSound ==
  ASSUME RequestsSound, NEW r \in Request, NEW rec \in Requests, NEW id \in Thread,
         NEW p \in Path, rec.asked \in Thread => rec.asked = id, Resolves(r, rec, id, p)
  PROVE  RequestsSound'
<1>1. [id |-> id, path |-> p] \in Session
  BY DEF Session
<1>2. [rec EXCEPT !.pc = "resolved", !.session = [id |-> id, path |-> p]] \in Sound
  BY <1>1 DEF Sound, Requests, Session
<1> QED
  BY <1>2 DEF Resolves, Put, RequestsSound

(* A request may end at any time.                                          *)
LEMMA EndsSound == ASSUME RequestsSound, NEW r \in Request, Ends(r) PROVE RequestsSound'
  BY NoRequestSound DEF Ends, Put, RequestsSound

(* What is no longer there is as sound as before.                          *)
LEMMA GoneSound == ASSUME RequestsSound, NEW threads, Gone(threads) PROVE RequestsSound'
<1>1. ASSUME NEW r \in Request PROVE [request[r] EXCEPT !.there = FALSE] \in Sound
  BY DEF RequestsSound, Sound, Requests
<1> QED
  BY <1>1 DEF Gone, RequestsSound

(* Every step of a request and of the world around it keeps them sound.    *)
LEMMA SoundKept == ASSUME TypeOK, RequestsSound, [Next]_vars PROVE RequestsSound'
<1> USE CatalogAssumption
<1>1. ASSUME NEW r \in Request, Resolve(r) PROVE RequestsSound'
  <2>0. request[r] \in Requests
    BY DEF TypeOK
  <2>1. ASSUME NEW t \in Thread, AskCached(r, t) PROVE RequestsSound'
    <3>1. byId[t] \in Path
      BY <2>1 DEF AskCached, Persisted, TypeOK
    <3> QED
      BY <2>1, <3>1, AsksTyped, EndsSound, ListsSound, ResolvesSound DEF AskCached
  <2>2. ASSUME NEW t \in Thread, AskUnsaved(r, t) PROVE RequestsSound'
    BY <2>2, AsksTyped, ResolvesSound DEF AskUnsaved, TypeOK
  <2>3. ASSUME NEW t \in Thread, AskUnknown(r, t) PROVE RequestsSound'
    BY <2>3, AsksTyped, ListsSound DEF AskUnknown
  <2>4. ASSUME NEW p \in Path, AskPath(r, p) PROVE RequestsSound'
    <3>1. Headed(p) => file[p].id \in Thread
      BY DEF Headed, TypeOK, Content
    <3> QED
      BY <2>4, <3>1, AsksTyped, EndsSound, ListsSound, ResolvesSound DEF AskPath
  <2>5. CASE AskList(r)
    <3>1. PICK dirs \in {Directory} \cup {{d} : d \in Directory} : Lists(r, Asks(None), dirs)
      BY <2>5 DEF AskList
    <3>2. dirs \in SUBSET Directory
      OBVIOUS
    <3> QED
      BY <3>1, <3>2, AsksTyped, ListsSound
  <2>6. ASSUME NEW d \in Directory, ReadDirectory(r, d) PROVE RequestsSound'
    <3> DEFINE read == {s \in Session : InDir[s.path] = d /\ file[s.path].id = s.id}
    <3> DEFINE rec == [request[r] EXCEPT !.unread = request[r].unread \ {d},
                                         !.found = request[r].found \cup read]
    <3>1. rec \in Sound
      BY ZenonT(60), <2>6 DEF ReadDirectory, RequestsSound, Sound, Requests
    <3>2. request' = [request EXCEPT ![r] = rec]
      BY <2>6 DEF ReadDirectory, Put
    <3> QED
      BY <3>1, <3>2 DEF RequestsSound
  <2>7. CASE CacheList(r)
    <3>1. [request[r] EXCEPT !.pc = "listed", !.found = {}] \in Sound
      BY <2>0 DEF Sound, Requests
    <3> QED
      BY <2>7, <3>1, NoRequestSound DEF CacheList, Put, RequestsSound
  <2>8. CASE LookUp(r)
    BY <2>0, <2>8, EndsSound, ResolvesSound DEF LookUp, TypeOK
  <2> QED
    BY <1>1, <2>1, <2>2, <2>3, <2>4, <2>5, <2>6, <2>7, <2>8 DEF Resolve
<1>2. ASSUME NEW r \in Request, Send(r) PROVE RequestsSound'
  <2>1. [request[r] EXCEPT !.pc = "acquiring", !.there = TRUE] \in Sound
    BY ZenonT(60), <1>2 DEF Send, RequestsSound, Sound, Requests
  <2> QED
    BY <1>2, <2>1, EndsSound DEF Send, Put, RequestsSound
<1>3. ASSUME NEW r \in Request, Acquire(r) \/ Drop(r) PROVE RequestsSound'
  BY <1>3, EndsSound DEF Acquire, Drop
<1>4. ASSUME NEW t \in Thread, Refresh(t) \/ Reclaim(t) PROVE RequestsSound'
  BY <1>4 DEF Refresh, Reclaim, RequestsSound
<1>5. ASSUME NEW t \in Thread, WorkerWrites(t) \/ WorkerDies(t) PROVE RequestsSound'
  BY <1>5, GoneSound DEF WorkerWrites, WorkerDies, Changes
<1>6. ASSUME NEW t \in Thread, NEW p \in Path, NewThread(t, p) \/ OtherCreates(p, t)
      PROVE RequestsSound'
  BY <1>6, GoneSound DEF NewThread, OtherCreates, Changes, RequestsSound
<1>7. ASSUME NEW p \in Path, OtherWrites(p) \/ OtherDeletes(p) PROVE RequestsSound'
  BY <1>7, GoneSound DEF OtherWrites, OtherDeletes, Changes
<1>8. ASSUME NEW p \in Path, NEW q \in Path, OtherMoves(p, q) PROVE RequestsSound'
  BY <1>8, GoneSound DEF OtherMoves
<1>9. CASE UNCHANGED vars
  BY <1>9 DEF vars, RequestsSound
<1> QED
  BY <1>1, <1>2, <1>3, <1>4, <1>5, <1>6, <1>7, <1>8, <1>9 DEF Next

-----------------------------------------------------------------------------
(* The type invariant.                                                     *)

(* What updateFromWorkerState leaves of the cache is typed.                *)
LEMMA UpdatesType ==
  ASSUME TypeOK, NEW t \in Thread, NEW p \in Path, Updates(t, p)
  PROVE  /\ byId' \in [Thread -> Path \cup {None}]
         /\ baseline' \in [Thread -> [path : Path \cup {None}, rev : Revision]]
         /\ unpersisted' \subseteq Thread
<1>1. CASE ~Exists(p) \/ ~Headed(p)
  BY <1>1 DEF TypeOK, Updates, cached
<1>2. CASE Exists(p) /\ Headed(p)
  <2>1. file[p].id \in Thread /\ Sample(p) \in [path : Path \cup {None}, rev : Revision]
    BY <1>2 DEF TypeOK, Headed, Sample, Content
  <2> QED
    BY SMTT(30), <1>2, <2>1 DEF TypeOK, Updates
<1> QED
  BY <1>1, <1>2

(* Every variable keeps its type in every step.                            *)
LEMMA StepType == ASSUME TypeOK, RequestsSound, [Next]_vars PROVE TypeOK'
<1> USE CatalogAssumption DEF TypeOK
<1>0. request' \in [Request -> Requests]
  BY SoundKept DEF RequestsSound, Sound
<1>1. ASSUME NEW r \in Request, Resolve(r) PROVE TypeOK'
  <2>1. ASSUME NEW t \in Thread, AskCached(r, t) PROVE TypeOK'
    BY <1>0, <2>1 DEF AskCached, Headed, Content, Persisted
  <2>2. ASSUME NEW t \in Thread, AskUnsaved(r, t) \/ AskUnknown(r, t) PROVE TypeOK'
    BY <1>0, <2>2 DEF AskUnsaved, AskUnknown, cached
  <2>3. ASSUME NEW p \in Path, AskPath(r, p) PROVE TypeOK'
    BY <1>0, <2>3 DEF AskPath, Headed, Content
  <2>4. CASE CacheList(r)
    <3>1. PICK f \in {g \in [{s.id : s \in request[r].found} -> Path] :
                        \A t \in DOMAIN g : [id |-> t, path |-> g[t]] \in request[r].found} :
            byId' = [t \in Thread |-> IF t \in DOMAIN f THEN f[t] ELSE byId[t]]
      BY <2>4 DEF CacheList
    <3>2. byId' \in [Thread -> Path \cup {None}]
      BY <3>1
    <3> QED
      BY <1>0, <2>4, <3>2 DEF CacheList
  <2>5. ASSUME AskList(r) \/ (\E d \in Directory : ReadDirectory(r, d)) \/ LookUp(r) PROVE TypeOK'
    BY <1>0, <2>5 DEF AskList, ReadDirectory, LookUp, cached
  <2> QED
    BY <1>1, <2>1, <2>2, <2>3, <2>4, <2>5 DEF Resolve
<1>2. ASSUME NEW r \in Request, Send(r) \/ Drop(r) PROVE TypeOK'
  <2>1. Send(r) => request[r].session.id \in Thread
    BY DEF Send, RequestsSound, Sound, Session
  <2> QED
    BY <1>0, <1>2, <2>1 DEF Send, Drop, cached
<1>3. ASSUME NEW r \in Request, Acquire(r) PROVE TypeOK'
  <2>1. request[r].session \in Session
    BY <1>3 DEF Acquire, RequestsSound, Sound
  <2> QED
    BY <1>0, <1>3, <2>1 DEF Acquire, Session, cached
<1>4. ASSUME NEW t \in Thread, Refresh(t) PROVE TypeOK'
  <2>1. \/ \E p \in Path : Updates(t, p)
        \/ UNCHANGED cached
    BY <1>4 DEF Refresh, Persisted
  <2>2. busy' \subseteq Thread /\ UNCHANGED <<file, worker, unsaved, writes>>
    BY <1>4 DEF Refresh
  <2> QED
    BY <1>0, <2>1, <2>2, UpdatesType DEF cached
<1>5. ASSUME NEW t \in Thread, Reclaim(t) \/ WorkerDies(t) PROVE TypeOK'
  BY <1>0, <1>5 DEF Reclaim, WorkerDies, cached
<1>6. ASSUME NEW t \in Thread, NEW p \in Path, NewThread(t, p) PROVE TypeOK'
  BY <1>0, <1>6, UpdatesType DEF NewThread
<1>7. ASSUME NEW p \in Path, NEW c \in [id : Thread \cup {None}, rev : {writes + 1}], NEW gone,
             Changes(p, c, gone) \/ Changes(p, NoFile, gone), unsaved' \subseteq unsaved,
             UNCHANGED <<worker, busy>>
      PROVE  TypeOK'
  <2>1. writes' \in 0..MaxWrites /\ UNCHANGED cached
    BY <1>7 DEF Changes
  <2>2. file' \in [Path -> Content]
    BY <1>7 DEF Changes, Content, Revision, NoFile
  <2> QED
    BY <1>0, <1>7, <2>1, <2>2 DEF cached
<1>8. ASSUME NEW t \in Thread, WorkerWrites(t) PROVE TypeOK'
  BY <1>7, <1>8 DEF WorkerWrites, Content
<1>9. ASSUME NEW p \in Path, OtherWrites(p) \/ OtherDeletes(p) PROVE TypeOK'
  BY <1>7, <1>9 DEF OtherWrites, OtherDeletes, Content
<1>10. ASSUME NEW p \in Path, NEW t \in Thread, OtherCreates(p, t) PROVE TypeOK'
  BY <1>7, <1>10 DEF OtherCreates
<1>11. ASSUME NEW p \in Path, NEW q \in Path, OtherMoves(p, q) PROVE TypeOK'
  <2>1. file' \in [Path -> Content]
    BY <1>11 DEF OtherMoves, Content, Revision, NoFile
  <2> QED
    BY <1>0, <1>11, <2>1 DEF OtherMoves, cached
<1>12. CASE UNCHANGED vars
  BY <1>12 DEF vars
<1> QED
  BY <1>1, <1>2, <1>3, <1>4, <1>5, <1>6, <1>8, <1>9, <1>10, <1>11, <1>12 DEF Next

-----------------------------------------------------------------------------
(* A session that its worker has not saved yet.                            *)

(* Nobody else writes to its path, the catalog knows it as not saved, and  *)
(* no file and no list has its id.                                         *)
OnlyInWorker(t) ==
  /\ worker[t] \in Path /\ byId[t] = worker[t] /\ t \in unpersisted
  /\ file[worker[t]] = NoFile
  /\ \A u \in Thread \ {t} : worker[u] # worker[t]
  /\ \A p \in Path : file[p].id # t

Unfound(t) == \A r \in Request : \A s \in request[r].found : s.id # t

Alone == \A t \in unsaved : OnlyInWorker(t) /\ Unfound(t)

(* A list only finds what is there when it reads.                          *)
FoundWhereItIs ==
  \A r \in Request :
    request'[r].found \subseteq request[r].found \cup {s \in Session : file[s.path].id = s.id}

(* So does any request that is put with nothing else found.                *)
LEMMA PutFound ==
  ASSUME TypeOK, NEW q \in Request, NEW rec, Put(q, rec),
         rec.found \subseteq request[q].found \cup {s \in Session : file[s.path].id = s.id}
  PROVE  FoundWhereItIs
  BY DEF Put, FoundWhereItIs, TypeOK

(* A request that has ended has found nothing.                             *)
LEMMA EndsFound == ASSUME TypeOK, NEW q \in Request, Ends(q) PROVE FoundWhereItIs
  BY PutFound DEF Ends, NoRequest

(* A request that has only just been asked has found nothing.              *)
LEMMA AsksFound ==
  ASSUME TypeOK, NEW q \in Request, NEW x, NEW y, NEW z,
         Lists(q, Asks(x), y) \/ Resolves(q, Asks(x), y, z)
  PROVE  FoundWhereItIs
  BY PutFound DEF Lists, Resolves, Asks, NoRequest

(* No other step adds to what has been found.                              *)
LEMMA FoundKept == ASSUME TypeOK, [Next]_vars PROVE FoundWhereItIs
<1>1. ASSUME NEW q \in Request, Resolve(q) PROVE FoundWhereItIs
  <2>0. request[q] \in Requests
    BY DEF TypeOK
  <2>1. ASSUME NEW d \in Directory, ReadDirectory(q, d) PROVE FoundWhereItIs
    <3> DEFINE read == {s \in Session : InDir[s.path] = d /\ file[s.path].id = s.id}
    <3> DEFINE rec == [request[q] EXCEPT !.unread = request[q].unread \ {d},
                                         !.found = request[q].found \cup read]
    <3>1. Put(q, rec)
      BY <2>1 DEF ReadDirectory
    <3>2. rec.found = request[q].found \cup read
      BY <2>0 DEF Requests
    <3> QED
      BY <3>1, <3>2, PutFound
  <2>2. CASE CacheList(q)
    <3>1. Put(q, NoRequest) \/ Put(q, [request[q] EXCEPT !.pc = "listed", !.found = {}])
      BY <2>2 DEF CacheList
    <3> QED
      BY <2>0, <3>1, PutFound DEF NoRequest, Requests
  <2>3. CASE LookUp(q)
    <3>1. \/ Ends(q)
          \/ \E id, p : Put(q, [request[q] EXCEPT !.pc = "resolved",
                                                  !.session = [id |-> id, path |-> p]])
      BY <2>3 DEF LookUp, Resolves
    <3> QED
      BY <2>0, <3>1, EndsFound, PutFound DEF Requests
  <2>4. CASE AskList(q)
    BY <2>4, AsksFound DEF AskList
  <2>5. ASSUME NEW t \in Thread, AskCached(q, t) \/ AskUnsaved(q, t) \/ AskUnknown(q, t)
        PROVE  FoundWhereItIs
    BY <2>5, AsksFound, EndsFound DEF AskCached, AskUnsaved, AskUnknown
  <2>6. ASSUME NEW p \in Path, AskPath(q, p) PROVE FoundWhereItIs
    BY <2>6, AsksFound, EndsFound DEF AskPath
  <2> QED
    BY <1>1, <2>1, <2>2, <2>3, <2>4, <2>5, <2>6 DEF Resolve
<1>2. ASSUME NEW q \in Request, Send(q) \/ Acquire(q) \/ Drop(q) PROVE FoundWhereItIs
  <2>1. Ends(q) \/ Put(q, [request[q] EXCEPT !.pc = "acquiring", !.there = TRUE])
    BY <1>2 DEF Send, Acquire, Drop
  <2> QED
    BY <2>1, EndsFound, PutFound DEF TypeOK, Requests
<1>3. ASSUME (\E threads : Gone(threads)) \/ UNCHANGED request PROVE FoundWhereItIs
  <2>1. ASSUME NEW threads, Gone(threads), NEW r \in Request
        PROVE  request'[r].found = request[r].found
    BY <2>1 DEF Gone, TypeOK, Requests
  <2> QED
    BY <1>3, <2>1 DEF FoundWhereItIs
<1>4. ASSUME NEW t \in Thread, Refresh(t) \/ Reclaim(t) \/ WorkerWrites(t) \/ WorkerDies(t)
      PROVE  FoundWhereItIs
  BY <1>3, <1>4 DEF Refresh, Reclaim, WorkerWrites, WorkerDies, Changes
<1>5. ASSUME NEW t \in Thread, NEW p \in Path, NewThread(t, p) \/ OtherCreates(p, t)
      PROVE  FoundWhereItIs
  BY <1>3, <1>5 DEF NewThread, OtherCreates, Changes
<1>6. ASSUME NEW p \in Path, \/ OtherWrites(p) \/ OtherDeletes(p)
                             \/ \E q \in Path : OtherMoves(p, q)
      PROVE  FoundWhereItIs
  BY <1>3, <1>6 DEF OtherWrites, OtherDeletes, OtherMoves, Changes
<1> QED
  BY <1>1, <1>2, <1>3, <1>4, <1>5, <1>6 DEF Next, vars

(* What the catalog is told of other sessions leaves an unsaved one alone. *)
LEMMA UpdatesAlone ==
  ASSUME TypeOK, NEW t \in unsaved, OnlyInWorker(t), NEW u \in Thread, NEW p \in Path,
         u # t \/ p = worker[t], Updates(u, p)
  PROVE  byId'[t] = byId[t] /\ t \in unpersisted'
  BY DEF TypeOK, OnlyInWorker, Updates, Exists, Headed, cached

(* A request that is put takes nothing from an unsaved session.            *)
LEMMA ResolveAlone ==
  ASSUME TypeOK, NEW t \in unsaved, OnlyInWorker(t), Unfound(t), NEW r \in Request, Resolve(r)
  PROVE  byId'[t] = byId[t] /\ t \in unpersisted' /\ UNCHANGED <<file, worker, unsaved>>
<1> USE DEF TypeOK, OnlyInWorker
<1>1. ASSUME NEW u \in Thread, AskCached(r, u)
      PROVE  byId'[t] = byId[t] /\ t \in unpersisted' /\ UNCHANGED <<file, worker, unsaved>>
  BY <1>1 DEF AskCached, Persisted, Exists
<1>2. ASSUME NEW u \in Thread, AskUnsaved(r, u) \/ AskUnknown(r, u)
      PROVE  byId'[t] = byId[t] /\ t \in unpersisted' /\ UNCHANGED <<file, worker, unsaved>>
  BY <1>2 DEF AskUnsaved, AskUnknown, cached
<1>3. ASSUME NEW p \in Path, AskPath(r, p)
      PROVE  byId'[t] = byId[t] /\ t \in unpersisted' /\ UNCHANGED <<file, worker, unsaved>>
  BY <1>3 DEF AskPath
<1>4. ASSUME CacheList(r)
      PROVE  byId'[t] = byId[t] /\ t \in unpersisted' /\ UNCHANGED <<file, worker, unsaved>>
  <2>1. PICK f \in {g \in [{s.id : s \in request[r].found} -> Path] :
                      \A u \in DOMAIN g : [id |-> u, path |-> g[u]] \in request[r].found} :
          byId' = [u \in Thread |-> IF u \in DOMAIN f THEN f[u] ELSE byId[u]]
    BY <1>4 DEF CacheList
  <2>2. t \notin DOMAIN f
    BY DEF Unfound
  <2> QED
    BY <1>4, <2>1, <2>2 DEF CacheList
<1>5. ASSUME AskList(r) \/ (\E d \in Directory : ReadDirectory(r, d)) \/ LookUp(r)
      PROVE  byId'[t] = byId[t] /\ t \in unpersisted' /\ UNCHANGED <<file, worker, unsaved>>
  BY <1>5 DEF AskList, ReadDirectory, LookUp, cached
<1> QED
  BY <1>1, <1>2, <1>3, <1>4, <1>5 DEF Resolve

(* A session that stays unsaved stays in its worker alone.                 *)
LEMMA OnlyInWorkerKept ==
  ASSUME TypeOK, RequestsSound, [Next]_vars, NEW t \in unsaved, OnlyInWorker(t), Unfound(t),
         t \in unsaved'
  PROVE  OnlyInWorker(t)'
<1> USE DEF TypeOK, OnlyInWorker
<1>1. ASSUME NEW r \in Request, Resolve(r) PROVE OnlyInWorker(t)'
  BY <1>1, ResolveAlone
<1>2. ASSUME NEW r \in Request, Send(r) \/ Drop(r) PROVE OnlyInWorker(t)'
  BY <1>2 DEF Send, Drop, cached
<1>3. ASSUME NEW r \in Request, Acquire(r) PROVE OnlyInWorker(t)'
  <2>1. request[r].session \in Session
    BY <1>3 DEF Acquire, RequestsSound, Sound
  <2> QED
    BY <1>3, <2>1, CatalogAssumption DEF Acquire, Session, cached, NoFile
<1>4. ASSUME NEW u \in Thread, Refresh(u) PROVE OnlyInWorker(t)'
  <2>1. \/ \E p \in Path : (u # t \/ p = worker[t]) /\ Updates(u, p)
        \/ UNCHANGED cached
    BY <1>4 DEF Refresh, Persisted
  <2> QED
    BY <1>4, <2>1, UpdatesAlone DEF Refresh, cached
<1>5. ASSUME NEW u \in Thread, Reclaim(u) \/ WorkerDies(u) PROVE OnlyInWorker(t)'
  BY <1>5, CatalogAssumption DEF Reclaim, CanReclaim, Persisted, Exists, WorkerDies, cached
<1>6. ASSUME NEW u \in Thread, NEW p \in Path, NewThread(u, p) PROVE OnlyInWorker(t)'
  BY <1>6, UpdatesAlone, CatalogAssumption DEF NewThread, NewId
<1>7. ASSUME NEW u \in Thread, WorkerWrites(u) PROVE OnlyInWorker(t)'
  BY <1>7 DEF WorkerWrites, Changes, cached
<1>8. ASSUME NEW u \in Thread, NEW p \in Path, OtherCreates(p, u) PROVE OnlyInWorker(t)'
  BY <1>8, CatalogAssumption DEF OtherCreates, Changes, Unused, cached
<1>9. ASSUME NEW p \in Path, OtherWrites(p) \/ OtherDeletes(p) PROVE OnlyInWorker(t)'
  BY SMTT(30), <1>9, CatalogAssumption DEF OtherWrites, OtherDeletes,
     Changes, Exists, NoFile, cached
<1>10. ASSUME NEW p \in Path, NEW q \in Path, OtherMoves(p, q) PROVE OnlyInWorker(t)'
  BY <1>10, CatalogAssumption DEF OtherMoves, Unused, NoFile, cached
<1>11. CASE UNCHANGED vars
  BY <1>11 DEF vars
<1> QED
  BY <1>1, <1>2, <1>3, <1>4, <1>5, <1>6, <1>7, <1>8, <1>9, <1>10, <1>11 DEF Next

(* Every session that is not saved is in its worker alone.                 *)
LEMMA AloneKept == ASSUME TypeOK, RequestsSound, Alone, [Next]_vars PROVE Alone'
<1>1. ASSUME NEW t \in unsaved, t \in unsaved' PROVE OnlyInWorker(t)' /\ Unfound(t)'
  <2>1. Unfound(t)'
    BY FoundKept DEF FoundWhereItIs, Alone, OnlyInWorker, Unfound, Session
  <2> QED
    BY <1>1, <2>1, OnlyInWorkerKept DEF Alone
<1>2. ASSUME NEW t \in unsaved', t \notin unsaved PROVE OnlyInWorker(t)' /\ Unfound(t)'
  <2>1. PICK u \in Thread, p \in Path : NewThread(u, p)
    BY <1>2 DEF Next, vars, Resolve, AskCached, AskUnsaved, AskUnknown, AskPath, AskList,
      ReadDirectory, CacheList, LookUp, Send, Acquire, Drop, Refresh, Reclaim, WorkerWrites,
      WorkerDies, OtherCreates, OtherWrites, OtherDeletes, OtherMoves
  <2>2. t = u
    BY <1>2, <2>1 DEF NewThread
  <2>3. byId'[t] = p /\ t \in unpersisted'
    BY <2>1, <2>2 DEF NewThread, NewId, Updates, TypeOK
  <2> QED
    BY <2>1, <2>2, <2>3 DEF NewThread, NewId, OnlyInWorker, Unfound, Exists, TypeOK
<1> QED
  BY <1>1, <1>2 DEF Alone

-----------------------------------------------------------------------------
(* The theorems.                                                           *)

(* The state that the catalog, the requests and the workers keep is typed, *)
(* requests are sound and unsaved sessions are in their workers alone.     *)
IInv == TypeOK /\ RequestsSound /\ Alone

(* The invariant is inductive, and holds in the beginning.                 *)
LEMMA Invariant == Spec => []IInv
<1>1. ASSUME Init PROVE IInv
  <2>1. RequestsSound
    BY <1>1, NoRequestSound DEF Init, RequestsSound
  <2>2. TypeOK
    BY <1>1, <2>1, CatalogAssumption
    DEF Init, TypeOK, RequestsSound, Sound, Content, Revision, NoFile, NoSample
  <2> QED
    BY <1>1, <2>1, <2>2 DEF Init, IInv, Alone
<1>2. IInv /\ [Next]_vars => IInv'
  BY StepType, SoundKept, AloneKept DEF IInv
<1> QED
  BY <1>1, <1>2, PTL DEF Spec

(* Every field holds what its declaration says.                            *)
THEOREM TypeCorrect == Spec => []TypeOK
  BY Invariant, PTL DEF IInv

(* resolveThread never gives a request the session of another thread, for  *)
(* whatever others do to the files and the cache meanwhile.                *)
THEOREM Answers == Spec => []AnswersItsThread
<1>1. IInv => AnswersItsThread
  BY DEF IInv, RequestsSound, Sound, AnswersItsThread
<1> QED
  BY <1>1, Invariant, PTL

(* canReclaim keeps the pool from taking away the only worker that has a   *)
(* session that Pi has not saved.                                          *)
THEOREM Reclaimed == Spec => ReclaimedIsSaved
<1>1. ASSUME IInv, [Next]_vars, NEW t \in Thread, t \in unsaved, worker'[t] = None
      PROVE  t \notin unsaved'
  <2>1. ASSUME t \in unsaved' PROVE FALSE
    BY <1>1, <2>1, OnlyInWorkerKept, CatalogAssumption DEF IInv, Alone, OnlyInWorker
  <2> QED
    BY <2>1
<1>2. IInv /\ [Next]_vars =>
        [\A t \in Thread : t \in unsaved /\ worker'[t] = None => t \notin unsaved']_vars
  BY <1>1
<1> QED
  BY <1>2, Invariant, PTL DEF Spec, ReclaimedIsSaved

-----------------------------------------------------------------------------
(* The files, and what the daemon has to do with them.                     *)

(* The revisions that have been given out.                                 *)
Given == Path \cup 1..writes

(* No two files have the same revision or the same id.                     *)
Distinct ==
  /\ \A p \in Path : Exists(p) => file[p].rev \in Given
  /\ \A p, q \in Path : Exists(p) /\ Exists(q) /\ p # q =>
       /\ file[p].rev # file[q].rev
       /\ file[p].id # None => file[p].id # file[q].id

(* A revision that a baseline has is one of its thread's session.          *)
Based ==
  \A t \in Thread : baseline[t] # NoSample =>
    /\ baseline[t].path \in Path /\ baseline[t].rev \in Given
    /\ \A p \in Path : Exists(p) /\ file[p].rev = baseline[t].rev => file[p].id = t

(* A worker's session, once it is saved, is nowhere but at its path.       *)
Backed ==
  \A t \in Thread \ unsaved : worker[t] # None =>
    /\ Exists(worker[t])
    /\ \A p \in Path : file[p].id = t => p = worker[t]

FilesInv == Distinct /\ Based /\ Backed

(* What has an id is a file, and a new revision is one that no file has.   *)
LEMMA FileFacts ==
  ASSUME TypeOK
  PROVE  /\ \A p \in Path : file[p].id # None => Exists(p)
         /\ \A c \in Content : c.rev = writes + 1 => c # NoFile
         /\ writes < MaxWrites => writes + 1 \notin Given
         /\ 0 \notin Given
  BY CatalogAssumption DEF TypeOK, Exists, NoFile, Content, Revision, Given

(* A file is replaced by one with a new revision and an id that no other   *)
(* file has, or is removed.                                                *)
LEMMA ChangesDistinct ==
  ASSUME TypeOK, Distinct, Based, NEW p \in Path, NEW c \in Content, NEW gone, Changes(p, c, gone),
         c = NoFile \/ (c.rev = writes + 1
                        /\ \A q \in Path : q # p /\ c.id # None => file[q].id # c.id)
  PROVE  Distinct' /\ Based'
<1>1. /\ writes < MaxWrites /\ writes' = writes + 1 /\ baseline' = baseline
      /\ file'[p] = c /\ \A q \in Path : q # p => file'[q] = file[q]
  BY DEF Changes, TypeOK, cached
<1>2. writes + 1 \notin Given /\ Given \subseteq Given' /\ writes + 1 \in Given'
  BY <1>1, FileFacts DEF Given, TypeOK
<1>3. Distinct'
  BY <1>1, <1>2 DEF Distinct, Exists
<1>4. Based'
  BY <1>1, <1>2 DEF Based, Exists
<1> QED
  BY <1>3, <1>4

(* What no step of the files touches.                                      *)
LEMMA SameDistinct ==
  ASSUME Distinct, Based, UNCHANGED <<file, baseline, writes>>
  PROVE  Distinct' /\ Based'
  BY DEF Distinct, Based, Given, Exists

(* The catalog takes its samples of files that are there.                  *)
LEMMA UpdatesBased ==
  ASSUME TypeOK, Distinct, Based, NEW t \in Thread, NEW p \in Path, Updates(t, p),
         UNCHANGED <<file, writes>>
  PROVE  Distinct' /\ Based'
<1>1. CASE ~Exists(p) \/ ~Headed(p)
  BY <1>1, SameDistinct DEF Updates, cached
<1>2. CASE Exists(p) /\ Headed(p)
  <2>1. file[p].id \in Thread
    BY <1>2 DEF TypeOK, Headed, Content
  <2>2. /\ baseline'[file[p].id] = Sample(p)
        /\ \A u \in Thread : u # file[p].id => baseline'[u] = baseline[u]
    BY <1>2, <2>1 DEF Updates, TypeOK
  <2>3. \A q \in Path : Exists(q) /\ file[q].rev = file[p].rev => q = p
    BY <1>2 DEF Distinct
  <2>4. Based'
    BY <1>2, <2>1, <2>2, <2>3 DEF Based, Sample, Distinct, Given, Exists
  <2> QED
    BY <2>4 DEF Distinct, Given, Exists
<1> QED
  BY <1>1, <1>2

(* The files and the baselines, in every step.                             *)
LEMMA DistinctKept == ASSUME IInv, Distinct, Based, Next PROVE Distinct' /\ Based'
<1> USE DEF IInv
<1>1. ASSUME NEW r \in Request, Resolve(r) \/ Send(r) \/ Acquire(r) \/ Drop(r)
      PROVE  Distinct' /\ Based'
  BY <1>1, SameDistinct
  DEF Resolve, AskCached, AskUnsaved, AskUnknown, AskPath, AskList, ReadDirectory, CacheList,
      LookUp, Send, Acquire, Drop, cached
<1>2. ASSUME NEW t \in Thread, Reclaim(t) \/ WorkerDies(t) PROVE Distinct' /\ Based'
  BY <1>2, SameDistinct DEF Reclaim, WorkerDies, cached
<1>3. ASSUME NEW t \in Thread, Refresh(t) PROVE Distinct' /\ Based'
  <2>1. (\E p \in Path : Updates(t, p)) \/ UNCHANGED cached
    BY <1>3 DEF Refresh, Persisted, TypeOK
  <2> QED
    BY <1>3, <2>1, UpdatesBased, SameDistinct DEF Refresh, cached
<1>4. ASSUME NEW t \in Thread, NEW p \in Path, NewThread(t, p) PROVE Distinct' /\ Based'
  BY <1>4, UpdatesBased DEF NewThread
<1>5. ASSUME NEW t \in Thread, WorkerWrites(t) PROVE Distinct' /\ Based'
  <2> DEFINE p == worker[t]
  <2> DEFINE c == [id |-> IF t \in unsaved THEN t ELSE file[p].id, rev |-> writes + 1]
  <2>1. p \in Path /\ writes < MaxWrites /\ Changes(p, c, {})
    BY <1>5 DEF WorkerWrites, Changes, TypeOK
  <2>2. c \in Content
    BY <2>1, CatalogAssumption DEF TypeOK, Content, Revision
  <2>3. ASSUME NEW q \in Path, q # p, c.id # None PROVE file[q].id # c.id
    <3>1. CASE t \in unsaved
      BY <3>1 DEF Alone, OnlyInWorker
    <3>2. CASE t \notin unsaved
      BY <2>1, <2>3, <3>2, FileFacts DEF Distinct
    <3> QED
      BY <3>1, <3>2
  <2> QED
    BY <2>1, <2>2, <2>3, ChangesDistinct
<1>6. ASSUME NEW p \in Path, OtherWrites(p) PROVE Distinct' /\ Based'
  <2>1. PICK id \in {file[p].id, None} :
          Changes(p, [id |-> id, rev |-> writes + 1], IF id = None THEN {file[p].id} ELSE {})
    BY <1>6 DEF OtherWrites
  <2>2. [id |-> id, rev |-> writes + 1] \in Content
    BY <2>1, CatalogAssumption DEF TypeOK, Content, Revision, Changes
  <2>3. \A q \in Path : q # p /\ id # None => file[q].id # id
    BY <2>1, FileFacts DEF Distinct
  <2> QED
    BY <2>1, <2>2, <2>3, ChangesDistinct
<1>7. ASSUME NEW t \in Thread, NEW p \in Path, OtherCreates(p, t) PROVE Distinct' /\ Based'
  <2>1. [id |-> t, rev |-> writes + 1] \in Content
    BY <1>7, CatalogAssumption DEF OtherCreates, TypeOK, Content, Revision, Changes
  <2> QED
    BY <1>7, <2>1, ChangesDistinct DEF OtherCreates
<1>8. ASSUME NEW p \in Path, OtherDeletes(p) PROVE Distinct' /\ Based'
  <2>1. NoFile \in Content
    BY CatalogAssumption DEF NoFile, Content, Revision
  <2> QED
    BY <1>8, <2>1, ChangesDistinct DEF OtherDeletes
<1>9. ASSUME NEW p \in Path, NEW q \in Path, OtherMoves(p, q) PROVE Distinct' /\ Based'
  <2>1. /\ p # q /\ file'[q] = file[p] /\ file'[p] = NoFile
        /\ \A x \in Path : x # p /\ x # q => file'[x] = file[x]
        /\ baseline' = baseline /\ Given \subseteq Given'
        /\ Exists(p) /\ ~Exists(q)
    BY <1>9 DEF OtherMoves, TypeOK, cached, Given
  <2>2. Distinct'
    BY <2>1 DEF Distinct, Exists
  <2>3. Based'
    BY <2>1 DEF Based, Exists
  <2> QED
    BY <2>2, <2>3
<1> QED
  BY <1>1, <1>2, <1>3, <1>4, <1>5, <1>6, <1>7, <1>8, <1>9 DEF Next

(* The workers' sessions, in every step.                                   *)
LEMMA BackedKept == ASSUME IInv, FilesInv, Next PROVE Backed'
<1> USE DEF IInv, TypeOK
<1>1. ASSUME UNCHANGED <<file, worker, unsaved>> PROVE Backed'
  BY <1>1 DEF FilesInv, Backed, Exists
<1>2. ASSUME NEW r \in Request, Resolve(r) \/ Send(r) \/ Drop(r) PROVE Backed'
  BY <1>1, <1>2
  DEF Resolve, AskCached, AskUnsaved, AskUnknown, AskPath, AskList, ReadDirectory, CacheList,
      LookUp, Send, Drop
<1>3. ASSUME NEW r \in Request, Acquire(r) PROVE Backed'
  <2> DEFINE s == request[r].session
  <2>1. s.id \in Thread /\ s.path \in Path
    BY <1>3 DEF Acquire, RequestsSound, Sound, Session
  <2>2. CASE worker' = worker
    BY <1>1, <1>3, <2>2 DEF Acquire
  <2>3. CASE worker' # worker
    <3>1. worker[s.id] = None /\ file[s.path].id = s.id /\ worker'[s.id] = s.path
          /\ \A t \in Thread : t # s.id => worker'[t] = worker[t]
      BY <1>3, <2>1, <2>3 DEF Acquire
    <3>2. Exists(s.path) /\ \A p \in Path : file[p].id = s.id => p = s.path
      BY <2>1, <3>1, FileFacts, CatalogAssumption DEF FilesInv, Distinct
    <3> QED
      BY <1>3, <3>1, <3>2 DEF FilesInv, Backed, Acquire, Exists
  <2> QED
    BY <2>2, <2>3
<1>4. ASSUME NEW t \in Thread, Refresh(t) PROVE Backed'
  BY <1>1, <1>4 DEF Refresh
<1>5. ASSUME NEW t \in Thread, Reclaim(t) \/ WorkerDies(t) PROVE Backed'
  BY <1>5 DEF Reclaim, WorkerDies, FilesInv, Backed, Exists
<1>6. ASSUME NEW t \in Thread, NEW p \in Path, NewThread(t, p) PROVE Backed'
  BY <1>6 DEF NewThread, FilesInv, Backed, Exists
<1>7. ASSUME NEW t \in Thread, WorkerWrites(t) PROVE Backed'
  <2> DEFINE p == worker[t]
  <2>1. p \in Path /\ writes < MaxWrites
    BY <1>7 DEF WorkerWrites, Changes
  <2>2. /\ file'[p] = [id |-> IF t \in unsaved THEN t ELSE file[p].id, rev |-> writes + 1]
        /\ \A q \in Path : q # p => file'[q] = file[q]
        /\ worker' = worker /\ unsaved' = unsaved \ {t}
    BY <1>7, <2>1 DEF WorkerWrites, Changes
  <2>3. file'[p] # NoFile
    BY <2>2 DEF NoFile
  <2>4. ASSUME NEW u \in Thread \ unsaved', worker[u] # None
        PROVE  file'[worker[u]] # NoFile /\ \A q \in Path : file'[q].id = u => q = worker[u]
    <3>1. CASE u = t /\ t \in unsaved
      BY <2>2, <2>3, <3>1 DEF Alone, OnlyInWorker
    <3>2. CASE u \notin unsaved
      BY <2>2, <2>3, <2>4, <3>2 DEF FilesInv, Backed, Exists
    <3> QED
      BY <2>2, <3>1, <3>2
  <2> QED
    BY <2>2, <2>4 DEF Backed, Exists
<1>8. ASSUME NEW p \in Path, OtherWrites(p) PROVE Backed'
  <2>1. PICK id \in {file[p].id, None} :
          Changes(p, [id |-> id, rev |-> writes + 1], IF id = None THEN {file[p].id} ELSE {})
    BY <1>8 DEF OtherWrites
  <2>2. /\ file'[p] = [id |-> id, rev |-> writes + 1]
        /\ \A q \in Path : q # p => file'[q] = file[q]
        /\ worker' = worker /\ unsaved' = unsaved
    BY <1>8, <2>1 DEF OtherWrites, Changes
  <2>3. file'[p] # NoFile
    BY <2>2 DEF NoFile
  <2> QED
    BY <2>2, <2>3, CatalogAssumption DEF FilesInv, Backed, Exists
<1>9. ASSUME NEW p \in Path, NEW t \in Thread, OtherCreates(p, t) PROVE Backed'
  <2>1. /\ file'[p] = [id |-> t, rev |-> writes + 1] /\ worker[t] = None
        /\ \A q \in Path : q # p => file'[q] = file[q]
        /\ worker' = worker /\ unsaved' = unsaved
    BY <1>9 DEF OtherCreates, Changes
  <2>2. file'[p] # NoFile
    BY <2>1 DEF NoFile
  <2> QED
    BY <2>1, <2>2 DEF FilesInv, Backed, Exists
<1>10. ASSUME NEW p \in Path, OtherDeletes(p) PROVE Backed'
  <2>1. /\ file'[p] = NoFile /\ Unused(p)
        /\ \A q \in Path : q # p => file'[q] = file[q]
        /\ worker' = worker /\ unsaved' = unsaved
    BY <1>10 DEF OtherDeletes, Changes
  <2> QED
    BY <2>1, CatalogAssumption DEF FilesInv, Backed, Exists, Unused, NoFile
<1>11. ASSUME NEW p \in Path, NEW q \in Path, OtherMoves(p, q) PROVE Backed'
  <2>1. /\ p # q /\ file'[q] = file[p] /\ file'[p] = NoFile /\ Unused(p) /\ Unused(q)
        /\ \A x \in Path : x # p /\ x # q => file'[x] = file[x]
        /\ worker' = worker /\ unsaved' = unsaved
    BY <1>11 DEF OtherMoves
  <2> QED
    BY <2>1, CatalogAssumption DEF FilesInv, Backed, Exists, Unused, NoFile
<1> QED
  BY <1>2, <1>3, <1>4, <1>5, <1>6, <1>7, <1>8, <1>9, <1>10, <1>11 DEF Next

(* All of it is inductive.                                                 *)
LEMMA FilesInvariant == Spec => [](IInv /\ FilesInv)
<1>1. ASSUME Init PROVE FilesInv
  <2>1. PICK ids \in [Path -> Thread \cup {None}] :
          /\ \A p, q \in Path : ids[p] = ids[q] => p = q \/ ids[p] = None
          /\ file = [p \in Path |-> IF ids[p] = None THEN NoFile ELSE [id |-> ids[p], rev |-> p]]
    BY <1>1 DEF Init
  <2>2. Distinct
    BY <2>1 DEF Distinct, Exists, NoFile, Given
  <2> QED
    BY <1>1, <2>2 DEF Init, FilesInv, Based, Backed
<1>2. IInv /\ FilesInv /\ [Next]_vars => FilesInv'
  <2>1. UNCHANGED vars /\ FilesInv => FilesInv'
    BY DEF vars, FilesInv, Distinct, Based, Backed, Given, Exists
  <2> QED
    BY <2>1, DistinctKept, BackedKept DEF FilesInv
<1> QED
  BY <1>1, <1>2, Invariant, PTL DEF Spec

-----------------------------------------------------------------------------
(* Where a thread that is asked for is found.                              *)

(* The catalog has the thread's file.                                      *)
At(t) == byId[t] \in Path /\ file[byId[t]].id = t

(* No list that is under way has it anywhere else.                         *)
FoundRight(t) == \A q \in Request : \A s \in request[q].found : s.id = t => file[s.path].id = t

Waits(r) == request[r].there /\ request[r].pc \in {"listing", "listed", "resolved"}

(* A list has yet to come to the directory of its file, or has found it.   *)
WillFind(r, t) ==
  \E p \in Path : file[p].id = t /\ (InDir[p] \in request[r].unread
                                     \/ [id |-> t, path |-> p] \in request[r].found)

(* A request that can expect to find its thread.                           *)
Sought(r) ==
  LET t == request[r].asked
  IN Waits(r) => /\ t \in Thread /\ FoundRight(t)
                 /\ request[r].pc = "listing" => WillFind(r, t)
                 /\ request[r].pc = "listed" => At(t)
                 /\ request[r].pc = "resolved" => t \in unsaved \/ At(t)

Seek == \A r \in Request : Sought(r)

(* What a step must not do with a file that a request looks for.           *)
Stays(t) == \A p \in Path : file[p].id = t => file'[p].id = t

(* A step that moves or spoils the file of a thread tells the requests.    *)
LEMMA StaysOrGone ==
  ASSUME IInv, Next, NEW t \in Thread
  PROVE  Stays(t) \/ \E threads : t \in threads /\ Gone(threads)
<1> USE CatalogAssumption DEF IInv, TypeOK
<1> DEFINE Goal == Stays(t) \/ \E threads : t \in threads /\ Gone(threads)
<1>1. ASSUME UNCHANGED file PROVE Goal
  BY <1>1 DEF Stays
<1> HIDE DEF Goal
<1>2. ASSUME NEW r \in Request, Resolve(r) \/ Send(r) \/ Drop(r) \/ Acquire(r) PROVE Goal
  BY <1>1, <1>2
  DEF Resolve, AskCached, AskUnsaved, AskUnknown, AskPath, AskList, ReadDirectory, CacheList,
      LookUp, Send, Drop, Acquire
<1>3. ASSUME NEW u \in Thread, Refresh(u) \/ Reclaim(u) \/ WorkerDies(u) PROVE Goal
  BY <1>1, <1>3 DEF Refresh, Reclaim, WorkerDies
<1>4. ASSUME NEW u \in Thread, NEW p \in Path, NewThread(u, p) PROVE Goal
  BY <1>1, <1>4 DEF NewThread
<1>5. ASSUME NEW u \in Thread, WorkerWrites(u) PROVE Goal
  <2> DEFINE p == worker[u]
  <2>1. /\ p \in Path /\ file'[p].id = (IF u \in unsaved THEN u ELSE file[p].id)
        /\ \A q \in Path : q # p => file'[q] = file[q]
    BY <1>5 DEF WorkerWrites, Changes
  <2>2. u \in unsaved => file[p].id = None
    BY DEF Alone, OnlyInWorker, NoFile
  <2> QED
    BY <2>1, <2>2 DEF Goal, Stays
<1>6. ASSUME NEW p \in Path, OtherWrites(p) PROVE Goal
  <2>1. PICK id \in {file[p].id, None} :
          Changes(p, [id |-> id, rev |-> writes + 1], IF id = None THEN {file[p].id} ELSE {})
    BY <1>6 DEF OtherWrites
  <2>2. /\ file'[p].id = id /\ \A q \in Path : q # p => file'[q] = file[q]
        /\ id = None => Gone({file[p].id})
    BY <2>1 DEF Changes
  <2> QED
    BY <2>2 DEF Goal, Stays
<1>7. ASSUME NEW u \in Thread, NEW p \in Path, OtherCreates(p, u) PROVE Goal
  <2>1. file[p].id = None /\ \A q \in Path : q # p => file'[q] = file[q]
    BY <1>7 DEF OtherCreates, Changes, Exists, NoFile
  <2> QED
    BY <2>1 DEF Goal, Stays
<1>8. ASSUME NEW p \in Path, OtherDeletes(p) PROVE Goal
  <2>1. Gone({file[p].id}) /\ \A q \in Path : q # p => file'[q] = file[q]
    BY <1>8 DEF OtherDeletes, Changes
  <2> QED
    BY <2>1 DEF Goal, Stays
<1>9. ASSUME NEW p \in Path, NEW q \in Path, OtherMoves(p, q) PROVE Goal
  <2>1. Gone({file[p].id}) /\ file[q].id = None
        /\ \A x \in Path : x # p /\ x # q => file'[x] = file[x]
    BY <1>9 DEF OtherMoves, Exists, NoFile
  <2> QED
    BY <2>1 DEF Goal, Stays
<1>10. Goal
  BY <1>2, <1>3, <1>4, <1>5, <1>6, <1>7, <1>8, <1>9 DEF Next
<1> QED
  BY <1>10 DEF Goal

(* A list that has it right keeps it right.                                *)
LEMMA RightKept ==
  ASSUME TypeOK, TypeOK', FoundWhereItIs, NEW t \in Thread, FoundRight(t), Stays(t)
  PROVE  FoundRight(t)'
<1> SUFFICES ASSUME NEW q \in Request, NEW s \in request'[q].found, s.id = t
             PROVE  file'[s.path].id = t
  BY DEF FoundRight
<1>1. s.path \in Path
  BY DEF TypeOK, Requests, Session
<1>2. file[s.path].id = t
  BY DEF FoundWhereItIs, FoundRight
<1> QED
  BY <1>1, <1>2 DEF Stays

(* What the catalog is told of any thread agrees with the files.           *)
LEMMA UpdatesAt ==
  ASSUME TypeOK, NEW t \in Thread, At(t), NEW u \in Thread, NEW p \in Path, Updates(u, p),
         u = t => Exists(p)
  PROVE  byId'[t] \in Path /\ file[byId'[t]].id = t
<1>1. CASE ~Exists(p) \/ ~Headed(p)
  BY <1>1 DEF Updates, cached, At, TypeOK
<1>2. CASE Exists(p) /\ Headed(p)
  <2>1. file[p].id \in Thread
    BY <1>2 DEF TypeOK, Headed, Content
  <2> QED
    BY <1>2, <2>1 DEF Updates, At, TypeOK
<1> QED
  BY <1>1, <1>2

(* No step leads the catalog astray.                                       *)
LEMMA AtKept ==
  ASSUME IInv, FilesInv, Next, NEW t \in Thread, At(t), FoundRight(t), Stays(t)
  PROVE  At(t)'
<1> USE DEF IInv, TypeOK
<1>0. t \notin unsaved /\ Persisted(t) /\ byId[t] # None
  BY CatalogAssumption DEF Alone, OnlyInWorker, At, Persisted, Exists, NoFile
<1> DEFINE Goal == byId'[t] \in Path /\ file[byId'[t]].id = t
<1>1. ASSUME UNCHANGED byId PROVE Goal
  BY <1>1 DEF At
<1>2. ASSUME NEW r \in Request, Resolve(r) PROVE Goal
  <2>1. ASSUME NEW u \in Thread, AskCached(r, u) PROVE Goal
    BY <2>1, CatalogAssumption DEF AskCached, Persisted, At, Headed, Content
  <2>2. ASSUME NEW u \in Thread, AskUnsaved(r, u) PROVE Goal
    BY <1>1, <2>2 DEF AskUnsaved, cached
  <2>3. ASSUME NEW u \in Thread, AskUnknown(r, u) PROVE Goal
    BY <1>0, <2>3 DEF AskUnknown, At
  <2>4. ASSUME NEW p \in Path, AskPath(r, p) PROVE Goal
    BY <2>4 DEF AskPath, At, Headed, Content
  <2>5. CASE CacheList(r)
    <3>1. PICK f \in {g \in [{s.id : s \in request[r].found} -> Path] :
                        \A u \in DOMAIN g : [id |-> u, path |-> g[u]] \in request[r].found} :
            byId' = [u \in Thread |-> IF u \in DOMAIN f THEN f[u] ELSE byId[u]]
      BY <2>5 DEF CacheList
    <3>2. CASE t \in DOMAIN f
      <4>1. [id |-> t, path |-> f[t]] \in request[r].found /\ byId'[t] = f[t] /\ f[t] \in Path
        BY <3>1, <3>2
      <4> QED
        BY <4>1 DEF FoundRight
    <3>3. CASE t \notin DOMAIN f
      BY <3>1, <3>3 DEF At
    <3> QED
      BY <3>2, <3>3
  <2>6. ASSUME AskList(r) \/ (\E d \in Directory : ReadDirectory(r, d)) \/ LookUp(r) PROVE Goal
    BY <1>1, <2>6 DEF AskList, ReadDirectory, LookUp, cached
  <2> QED
    BY <1>2, <2>1, <2>2, <2>3, <2>4, <2>5, <2>6 DEF Resolve
<1>3. ASSUME NEW u \in Thread, Refresh(u) PROVE Goal
  <2>1. CASE UNCHANGED cached
    BY <1>1, <2>1 DEF cached
  <2>2. CASE ~UNCHANGED cached
    <3>1. PICK p \in Path : Updates(u, p) /\ (u = t => p = worker[t] \/ Exists(p))
      BY <1>3, <2>2, CatalogAssumption DEF Refresh, Persisted, Exists, NoFile
    <3>2. u = t => Exists(p)
      BY <1>0, <3>1, CatalogAssumption DEF FilesInv, Backed
    <3> QED
      BY <3>1, <3>2, UpdatesAt
  <2> QED
    BY <2>1, <2>2
<1>4. ASSUME NEW u \in Thread, NEW p \in Path, NewThread(u, p) PROVE Goal
  <2>1. u # t
    BY <1>4 DEF NewThread, NewId, At
  <2> QED
    BY <1>4, <2>1, UpdatesAt DEF NewThread
<1>5. ASSUME NEW r \in Request, Send(r) \/ Drop(r) \/ Acquire(r) PROVE Goal
  BY <1>1, <1>5 DEF Send, Drop, Acquire, cached
<1>6. ASSUME NEW u \in Thread, Reclaim(u) \/ WorkerDies(u) \/ WorkerWrites(u)
                               \/ \E p \in Path : OtherCreates(p, u)
      PROVE  Goal
  BY <1>1, <1>6 DEF Reclaim, WorkerDies, WorkerWrites, OtherCreates, Changes, cached
<1>7. ASSUME NEW p \in Path, OtherWrites(p) \/ OtherDeletes(p) \/ \E q \in Path : OtherMoves(p, q)
      PROVE  Goal
  BY <1>1, <1>7 DEF OtherWrites, OtherDeletes, OtherMoves, Changes, cached
<1>8. Goal
  BY <1>2, <1>3, <1>4, <1>5, <1>6, <1>7 DEF Next
<1> QED
  BY <1>8 DEF At, Stays

(* A session stays unsaved until its worker saves it where the catalog     *)
(* expects it, or dies.                                                    *)
LEMMA UnsavedGoes ==
  ASSUME IInv, Next, NEW t \in unsaved
  PROVE  t \in unsaved' \/ At(t)' \/ \E threads : t \in threads /\ Gone(threads)
<1> USE DEF IInv, TypeOK
<1> DEFINE Goal == t \in unsaved' \/ At(t)' \/ \E threads : t \in threads /\ Gone(threads)
<1>1. ASSUME NEW u \in Thread, WorkerWrites(u), u = t PROVE Goal
  <2>1. worker[t] \in Path /\ byId[t] = worker[t]
    BY DEF Alone, OnlyInWorker
  <2>2. file'[worker[t]].id = t /\ byId' = byId
    BY <1>1, <2>1 DEF WorkerWrites, Changes, cached
  <2> QED
    BY <2>1, <2>2 DEF At
<1>2. ASSUME NEW u \in Thread, WorkerWrites(u), u # t PROVE t \in unsaved'
  BY <1>2 DEF WorkerWrites
<1>3. ASSUME NEW u \in Thread, WorkerDies(u) PROVE Goal
  <2>1. unsaved' = unsaved \ {u} /\ Gone({u} \cap unsaved)
    BY <1>3 DEF WorkerDies
  <2>2. u = t => t \in {u} \cap unsaved
    OBVIOUS
  <2> QED
    BY <2>1, <2>2
<1>4. ASSUME NEW u \in Thread, NEW p \in Path, NewThread(u, p) PROVE t \in unsaved'
  BY <1>4 DEF NewThread
<1>5. ASSUME UNCHANGED unsaved PROVE t \in unsaved'
  BY <1>5
<1> HIDE DEF Goal
<1>6. ASSUME NEW r \in Request, Resolve(r) \/ Send(r) \/ Drop(r) \/ Acquire(r) PROVE Goal
  BY <1>5, <1>6
  DEF Goal, Resolve, AskCached, AskUnsaved, AskUnknown, AskPath, AskList, ReadDirectory,
      CacheList, LookUp, Send, Drop, Acquire
<1>7. ASSUME NEW u \in Thread, Refresh(u) \/ Reclaim(u) PROVE Goal
  BY <1>5, <1>7 DEF Goal, Refresh, Reclaim
<1>8. ASSUME NEW p \in Path, \/ \E u \in Thread : OtherCreates(p, u)
                             \/ OtherWrites(p) \/ OtherDeletes(p)
                             \/ \E q \in Path : OtherMoves(p, q)
      PROVE  Goal
  BY <1>5, <1>8 DEF Goal, OtherCreates, OtherWrites, OtherDeletes, OtherMoves
<1>9. Goal
  <2>1. ASSUME NEW u \in Thread, NEW p \in Path, NewThread(u, p) PROVE Goal
    BY <1>4, <2>1 DEF Goal
  <2>2. ASSUME NEW u \in Thread, WorkerWrites(u) PROVE Goal
    BY <1>1, <1>2, <2>2 DEF Goal
  <2> QED
    BY <1>3, <1>6, <1>7, <1>8, <2>1, <2>2 DEF Next
<1> QED
  BY <1>9 DEF Goal

(* A request that a step leaves as it was still finds its thread.          *)
LEMMA SoughtKept ==
  ASSUME IInv, IInv', FilesInv, Next, NEW r \in Request, Sought(r),
         \/ request'[r] = request[r]
         \/ request' = request
         \/ \E threads : Gone(threads)
  PROVE  Sought(r)'
<1> DEFINE t == request[r].asked
<1>0. /\ request[r] \in Requests /\ TypeOK /\ TypeOK'
      /\ \A threads : Gone(threads) =>
           request'[r] = IF {t, request[r].session.id} \cap (threads \ {None}) # {}
                         THEN [request[r] EXCEPT !.there = FALSE] ELSE request[r]
  BY DEF IInv, TypeOK, Gone
<1>1. \/ request'[r] = request[r]
      \/ ~request'[r].there
  BY <1>0 DEF Requests
<1> SUFFICES ASSUME request'[r] = request[r], Waits(r) PROVE Sought(r)'
  BY <1>1 DEF Sought, Waits
<1>2. t \in Thread /\ FoundRight(t) /\ request[r].there
  BY DEF Sought, Waits
<1>3. ASSUME NEW threads, t \in threads, Gone(threads) PROVE FALSE
  BY <1>0, <1>2, <1>3, CatalogAssumption DEF Requests
<1>4. Stays(t)
  BY <1>2, <1>3, StaysOrGone
<1>5. FoundRight(t)'
  BY <1>0, <1>2, <1>4, RightKept, FoundKept
<1>6. At(t) => At(t)'
  BY <1>2, <1>4, AtKept
<1>7. t \in unsaved => t \in unsaved' \/ At(t)'
  BY <1>3, UnsavedGoes
<1>8. WillFind(r, t) => WillFind(r, t)'
  BY <1>4 DEF WillFind, Stays
<1> QED
  BY <1>2, <1>5, <1>6, <1>7, <1>8 DEF Sought, Waits

(* What a request that has just been asked may rely on.                    *)
LEMMA AsksThere ==
  ASSUME IInv, NEW x, Asks(x).there
  PROVE  /\ x \in Thread /\ FoundRight(x)
         /\ \/ x \in unsaved /\ byId[x] = worker[x] /\ x \in unpersisted
               /\ worker[x] \in Path /\ ~Exists(worker[x])
            \/ /\ \E p \in Path : file[p].id = x
               /\ x \in unpersisted => At(x)
<1>1. x \in Thread /\ There(x)
  BY DEF Asks, NoRequest
<1> QED
  BY <1>1 DEF There, FoundRight, At, IInv, Alone, OnlyInWorker, Exists

(* The request that takes the step.                                        *)
LEMMA OwnSought ==
  ASSUME IInv, IInv', FilesInv, NEW r \in Request, Sought(r), Resolve(r)
  PROVE  Sought(r)'
<1> USE DEF IInv, TypeOK
<1>0. request[r] \in Requests /\ Next /\ UNCHANGED <<file, unsaved>>
  BY DEF Next, Resolve, AskCached, AskUnsaved, AskUnknown, AskPath, AskList, ReadDirectory,
         CacheList, LookUp
<1>00. /\ \A p \in Path : InDir[p] \in Directory
       /\ \A t : Stays(t)
       /\ FoundWhereItIs
  BY <1>0, CatalogAssumption, FoundKept DEF Stays
<1>1. ASSUME Ends(r) PROVE Sought(r)'
  BY <1>1 DEF Ends, Put, NoRequest, Sought, Waits
<1>2. ASSUME NEW t \in Thread, Lists(r, Asks(t), Directory),
             t \in unsaved => FALSE
      PROVE  Sought(r)'
  <2>1. /\ request'[r].asked = t /\ request'[r].there = Asks(t).there
        /\ request'[r].pc = "listing" /\ request'[r].unread = Directory
    BY <1>2 DEF Lists, Put, Asks, NoRequest
  <2>2. Asks(t).there => FoundRight(t)' /\ \E p \in Path : file'[p].id = t
    BY <1>0, <1>00, <1>2, AsksThere, RightKept
  <2> QED
    BY <1>00, <2>1, <2>2 DEF Sought, Waits, WillFind
<1>3. ASSUME NEW t \in Thread, NEW p \in Path, Resolves(r, Asks(t), t, p), t \in unsaved \/ At(t)'
      PROVE  Sought(r)'
  <2>1. /\ request'[r].asked = t /\ request'[r].there = Asks(t).there
        /\ request'[r].pc = "resolved"
    BY <1>3 DEF Resolves, Put, Asks, NoRequest
  <2>2. Asks(t).there => FoundRight(t)'
    BY <1>0, <1>00, AsksThere, RightKept
  <2> QED
    BY <1>0, <1>3, <2>1, <2>2 DEF Sought, Waits
<1>4. ASSUME NEW t \in Thread, AskCached(r, t) PROVE Sought(r)'
  <2>1. byId[t] \in Path /\ Exists(byId[t])
    BY <1>4 DEF AskCached, Persisted
  <2>2. t \notin unsaved
    BY <2>1 DEF Alone, OnlyInWorker, Exists
  <2>3. \/ /\ Resolves(r, Asks(t), t, byId[t])
           /\ file[byId[t]].id = t
           /\ byId'[t] = byId[t]
        \/ Lists(r, Asks(t), Directory)
        \/ Ends(r)
    BY <1>4 DEF AskCached
  <2> QED
    BY <1>0, <1>1, <1>2, <1>3, <2>1, <2>2, <2>3 DEF At
<1>5. ASSUME NEW t \in Thread, AskUnsaved(r, t) PROVE Sought(r)'
  <2>1. byId[t] \in Path /\ ~Exists(byId[t]) /\ t \in unpersisted
        /\ Resolves(r, Asks(t), t, byId[t])
    BY <1>5, CatalogAssumption DEF AskUnsaved, Persisted
  <2>2. CASE t \in unsaved
    BY <1>3, <2>1, <2>2
  <2>3. CASE t \notin unsaved
    <3>1. ~Asks(t).there
      BY <2>1, <2>3, AsksThere, CatalogAssumption DEF At, Exists, NoFile
    <3>2. ~request'[r].there
      BY <2>1, <3>1 DEF Resolves, Put, Asks, NoRequest
    <3> QED
      BY <3>2 DEF Sought, Waits
  <2> QED
    BY <2>2, <2>3
<1>6. ASSUME NEW t \in Thread, AskUnknown(r, t) PROVE Sought(r)'
  <2>1. t \notin unsaved
    BY <1>6, CatalogAssumption DEF AskUnknown, Alone, OnlyInWorker
  <2> QED
    BY <1>2, <1>6, <2>1 DEF AskUnknown
<1>7. ASSUME NEW x, x \notin Thread, (\E dirs : Lists(r, Asks(x), dirs))
                                      \/ \E id, p : Resolves(r, Asks(x), id, p)
      PROVE  Sought(r)'
  <2>1. request'[r].there = Asks(x).there
    <3>1. ASSUME NEW dirs, Lists(r, Asks(x), dirs) PROVE request'[r].there = Asks(x).there
      BY <3>1 DEF Lists, Put, Asks, NoRequest
    <3>2. ASSUME NEW id, NEW p, Resolves(r, Asks(x), id, p)
          PROVE  request'[r].there = Asks(x).there
      BY <3>2 DEF Resolves, Put, Asks, NoRequest
    <3> QED
      BY <1>7, <3>1, <3>2
  <2>2. ~Asks(x).there
    BY <1>7 DEF Asks, NoRequest
  <2> QED
    BY <2>1, <2>2 DEF Sought, Waits
<1>8. ASSUME NEW p \in Path, AskPath(r, p) PROVE Sought(r)'
  <2>1. p \notin Thread
    BY CatalogAssumption
  <2> QED
    BY <1>1, <1>7, <1>8, <2>1 DEF AskPath
<1>9. CASE AskList(r)
  BY <1>7, <1>9, CatalogAssumption DEF AskList
<1>10. ASSUME NEW d \in Directory, ReadDirectory(r, d) PROVE Sought(r)'
  <2>0. PICK t : t = request[r].asked
    OBVIOUS
  <2> DEFINE read == {s \in Session : InDir[s.path] = d /\ file[s.path].id = s.id}
  <2>1. /\ request[r].pc = "listing" /\ request'[r].pc = "listing"
        /\ request'[r].asked = t /\ request'[r].there = request[r].there
        /\ request'[r].unread = request[r].unread \ {d}
        /\ request'[r].found = request[r].found \cup read
    BY <2>0, <1>0, <1>10 DEF ReadDirectory, Put, Requests
  <2> SUFFICES ASSUME Waits(r) PROVE Sought(r)'
    BY <2>0, <2>1 DEF Sought, Waits
  <2>2. t \in Thread /\ FoundRight(t) /\ WillFind(r, t)
    BY <2>0, <2>1 DEF Sought
  <2>3. FoundRight(t)'
    BY <2>0, <1>00, <2>2, RightKept
  <2>4. PICK p \in Path : file[p].id = t /\ (InDir[p] \in request[r].unread
                                             \/ [id |-> t, path |-> p] \in request[r].found)
    BY <2>0, <2>2 DEF WillFind
  <2>5. InDir[p] = d => [id |-> t, path |-> p] \in read
    BY <2>0, <2>2, <2>4 DEF Session
  <2>6. WillFind(r, t)'
    BY <2>0, <1>0, <2>1, <2>4, <2>5 DEF WillFind
  <2> QED
    BY <2>0, <2>1, <2>2, <2>3, <2>6 DEF Sought, Waits
<1>11. CASE CacheList(r)
  <2>0. PICK t : t = request[r].asked
    OBVIOUS
  <2>1. CASE t = None
    <3>1. Ends(r)
      BY <2>0, <1>11, <2>1 DEF CacheList, Ends
    <3> QED
      BY <2>0, <1>1, <3>1
  <2>2. CASE t # None
    <3>1. /\ request[r].pc = "listing" /\ request[r].unread = {}
          /\ request'[r].pc = "listed" /\ request'[r].asked = t
          /\ request'[r].there = request[r].there
      BY <2>0, <1>0, <1>11, <2>2 DEF CacheList, Put, Requests
    <3> SUFFICES ASSUME Waits(r) PROVE Sought(r)'
      BY <2>0, <3>1 DEF Sought, Waits
    <3>2. t \in Thread /\ FoundRight(t) /\ WillFind(r, t)
      BY <2>0, <3>1 DEF Sought
    <3>3. FoundRight(t)'
      BY <2>0, <1>00, <3>2, RightKept
    <3>4. PICK p \in Path : [id |-> t, path |-> p] \in request[r].found
      BY <2>0, <3>1, <3>2 DEF WillFind
    <3>5. PICK f \in {g \in [{s.id : s \in request[r].found} -> Path] :
                        \A u \in DOMAIN g : [id |-> u, path |-> g[u]] \in request[r].found} :
            byId' = [u \in Thread |-> IF u \in DOMAIN f THEN f[u] ELSE byId[u]]
      BY <2>0, <1>11 DEF CacheList
    <3>6. t \in DOMAIN f
      BY <2>0, <3>4
    <3>7. [id |-> t, path |-> f[t]] \in request[r].found /\ byId'[t] = f[t] /\ f[t] \in Path
      BY <2>0, <3>2, <3>5, <3>6
    <3>8. file[f[t]].id = t
      BY <2>0, <3>2, <3>7 DEF FoundRight
    <3>9. At(t)'
      BY <2>0, <1>0, <3>7, <3>8 DEF At
    <3> QED
      BY <2>0, <3>1, <3>2, <3>3, <3>9 DEF Sought, Waits
  <2> QED
    BY <2>0, <2>1, <2>2
<1>12. CASE LookUp(r)
  <2>0. PICK t : t = request[r].asked
    OBVIOUS
  <2>1. Ends(r) \/ /\ request[r].pc = "listed" /\ request'[r].pc = "resolved"
                   /\ request'[r].asked = t /\ request'[r].there = request[r].there
                   /\ UNCHANGED byId
    <3>1. CASE t \in Thread /\ byId[t] # None
      <4> DEFINE rec == [request[r] EXCEPT !.pc = "resolved",
                                           !.session = [id |-> t, path |-> byId[t]]]
      <4>1. /\ request[r].pc = "listed" /\ UNCHANGED byId
            /\ request' = [request EXCEPT ![r] = rec]
        BY <1>12, <2>0, <3>1 DEF LookUp, Resolves, Put, cached
      <4>2. rec.pc = "resolved" /\ rec.asked = t /\ rec.there = request[r].there
        BY <1>0, <2>0 DEF Requests
      <4>3. request'[r] = rec
        BY <4>1
      <4> HIDE DEF rec
      <4> QED
        BY <2>0, <4>1, <4>2, <4>3
    <3>2. CASE ~(t \in Thread /\ byId[t] # None)
      BY <1>12, <2>0, <3>2 DEF LookUp
    <3> QED
      BY <3>1, <3>2
  <2>2. CASE Ends(r)
    BY <2>0, <1>1, <2>2
  <2>3. CASE ~Ends(r)
    <3> SUFFICES ASSUME Waits(r) PROVE Sought(r)'
      BY <2>0, <2>1, <2>3 DEF Sought, Waits
    <3>1. t \in Thread /\ FoundRight(t) /\ At(t)
      BY <2>0, <2>1, <2>3 DEF Sought
    <3>2. FoundRight(t)' /\ At(t)'
      BY <2>0, <1>0, <1>00, <2>1, <2>3, <3>1, RightKept DEF At
    <3> QED
      BY <2>0, <2>1, <2>3, <3>1, <3>2 DEF Sought, Waits
  <2> QED
    BY <2>0, <2>2, <2>3
<1> QED
  BY <1>4, <1>5, <1>6, <1>8, <1>9, <1>10, <1>11, <1>12 DEF Resolve

(* Every step leaves every request that can expect it to find its thread.  *)
LEMMA SeekKept == ASSUME IInv, IInv', FilesInv, Seek, Next PROVE Seek'
<1>1. ASSUME NEW q \in Request, Resolve(q) PROVE Seek'
  <2> SUFFICES ASSUME NEW r \in Request PROVE Sought(r)'
    BY DEF Seek
  <2>1. CASE r = q
    BY <1>1, <2>1, OwnSought DEF Seek
  <2>2. CASE r # q
    <3>1. \E rec : Put(q, rec)
      BY <1>1 DEF Resolve, AskCached, AskUnsaved, AskUnknown, AskPath, AskList, ReadDirectory,
                  CacheList, LookUp, Lists, Resolves, Ends
    <3>2. request'[r] = request[r]
      BY <2>2, <3>1 DEF Put, IInv, TypeOK
    <3> QED
      BY <3>2, SoughtKept DEF Seek
  <2> QED
    BY <2>1, <2>2
<1>2. ASSUME NEW q \in Request, Send(q) \/ Acquire(q) \/ Drop(q) PROVE Seek'
  <2> SUFFICES ASSUME NEW r \in Request PROVE Sought(r)'
    BY DEF Seek
  <2>1. Ends(q) \/ Put(q, [request[q] EXCEPT !.pc = "acquiring", !.there = TRUE])
    BY <1>2 DEF Send, Acquire, Drop
  <2>2. CASE r = q
    <3>1. request'[r].pc \in {"none", "acquiring"}
      <4>1. Ends(q) => request'[r].pc = "none"
        BY <2>2 DEF Ends, Put, NoRequest, IInv, TypeOK
      <4>2. [request[q] EXCEPT !.pc = "acquiring", !.there = TRUE].pc = "acquiring"
        BY DEF IInv, TypeOK, Requests
      <4> QED
        BY <2>1, <2>2, <4>1, <4>2 DEF Put, IInv, TypeOK
    <3> QED
      BY <3>1 DEF Sought, Waits
  <2>3. CASE r # q
    <3>1. request'[r] = request[r]
      BY <2>1, <2>3 DEF Ends, Put, IInv, TypeOK
    <3> QED
      BY <3>1, SoughtKept DEF Seek
  <2> QED
    BY <2>2, <2>3
<1>3. ASSUME request' = request \/ \E threads : Gone(threads) PROVE Seek'
  BY <1>3, SoughtKept DEF Seek
<1>4. ASSUME NEW t \in Thread, Refresh(t) \/ Reclaim(t) \/ WorkerWrites(t) \/ WorkerDies(t)
      PROVE  Seek'
  BY <1>3, <1>4 DEF Refresh, Reclaim, WorkerWrites, WorkerDies, Changes
<1>5. ASSUME NEW t \in Thread, NEW p \in Path, NewThread(t, p) \/ OtherCreates(p, t) PROVE Seek'
  BY <1>3, <1>5 DEF NewThread, OtherCreates, Changes
<1>6. ASSUME NEW p \in Path, \/ OtherWrites(p) \/ OtherDeletes(p)
                             \/ \E q \in Path : OtherMoves(p, q)
      PROVE  Seek'
  BY <1>3, <1>6 DEF OtherWrites, OtherDeletes, OtherMoves, Changes
<1> QED
  BY <1>1, <1>2, <1>4, <1>5, <1>6 DEF Next

(* A thread whose file stays where it is, or that its worker has not saved *)
(* yet, is found by whoever asks for it, whatever any number of lists,     *)
(* requests and workers do to the cache meanwhile.                         *)
THEOREM Found == Spec => []ThreadsFound
<1>1. Init => Seek
  BY DEF Init, Seek, Sought, Waits, NoRequest
<1>2. IInv /\ IInv' /\ FilesInv /\ Seek /\ [Next]_vars => Seek'
  <2>1. UNCHANGED vars /\ Seek => Seek'
    BY SMTT(30) DEF vars, Seek, Sought, Waits, FoundRight, WillFind, At
  <2> QED
    BY <2>1, SeekKept
<1>3. ASSUME IInv, Seek PROVE ThreadsFound
  <2> SUFFICES ASSUME NEW r \in Request, request[r].there,
                      request[r].pc \in {"listed", "resolved"}
               PROVE  LET t == request[r].asked
                      IN /\ request[r].pc = "listed" => byId[t] # None
                         /\ request[r].pc = "resolved" => worker[t] # None \/ Persisted(t)
    BY DEF ThreadsFound
  <2>0. PICK t : t = request[r].asked
    OBVIOUS
  <2>1. t \in Thread /\ (At(t) \/ (request[r].pc = "resolved" /\ t \in unsaved))
    BY <1>3, <2>0 DEF Seek, Sought, Waits
  <2>2. At(t) => byId[t] # None /\ Persisted(t)
    BY <2>1, CatalogAssumption DEF At, Persisted, Exists, NoFile
  <2>3. t \in unsaved => worker[t] # None
    BY <1>3, CatalogAssumption DEF IInv, Alone, OnlyInWorker
  <2> QED
    BY <2>0, <2>1, <2>2, <2>3
<1> QED
  BY <1>1, <1>2, <1>3, FilesInvariant, PTL DEF Spec

-----------------------------------------------------------------------------
(* What a turn works on.                                                   *)

(* Once a turn is admitted, the file that was compared is the thread's,    *)
(* unless it has been moved meanwhile.                                     *)
Compared ==
  \A r \in Request :
    LET t == request[r].session.id
    IN request[r].pc = "acquiring" /\ request[r].there /\ baseline[t] # NoSample =>
         file[baseline[t].path].id = t

(* A baseline that was not moved is still that of a turn under way.        *)
LEMMA ComparedKept == ASSUME IInv, IInv', FilesInv, Compared, Next PROVE Compared'
<1> USE DEF IInv, TypeOK
<1> SUFFICES ASSUME NEW r \in Request, request'[r].pc = "acquiring", request'[r].there,
                    NEW t, t = request'[r].session.id, baseline'[t] # NoSample
             PROVE  file'[baseline'[t].path].id = t
  BY DEF Compared
<1>0. t \in Thread
  BY DEF RequestsSound, Sound, Session
<1>1. ASSUME Send(r) PROVE file'[baseline'[t].path].id = t
  <2>1. t = request[r].session.id /\ UNCHANGED <<file, baseline>> /\ Unchanged(t)
    <3>1. ~Ends(r)
      BY DEF Ends, Put, NoRequest
    <3>2. Put(r, [request[r] EXCEPT !.pc = "acquiring", !.there = TRUE])
          /\ Unchanged(request[r].session.id) /\ UNCHANGED <<file, baseline>>
      BY <1>1, <3>1 DEF Send, cached
    <3>3. [request[r] EXCEPT !.pc = "acquiring", !.there = TRUE].session = request[r].session
      BY DEF Requests
    <3> QED
      BY <3>2, <3>3 DEF Put
  <2>2. baseline[t].path \in Path /\ Exists(baseline[t].path)
        /\ file[baseline[t].path].rev = baseline[t].rev
    BY <1>0, <2>1 DEF Unchanged, Sample, FilesInv, Based
  <2> QED
    BY <1>0, <2>1, <2>2 DEF FilesInv, Based
<1>2. ASSUME request'[r] = request[r], baseline'[t] = baseline[t], Stays(t)
      PROVE  file'[baseline'[t].path].id = t
  <2>1. baseline[t].path \in Path /\ file[baseline[t].path].id = t
    BY <1>0, <1>2 DEF FilesInv, Based, Compared
  <2> QED
    BY <1>2, <2>1 DEF Stays
<1>3. ASSUME NEW threads, Gone(threads) PROVE request'[r] = request[r] /\ t \notin threads
  BY <1>0, <1>3, CatalogAssumption DEF Gone, Requests
<1>4. ASSUME baseline' = baseline, \E threads : Gone(threads)
      PROVE  file'[baseline'[t].path].id = t
  <2>1. request'[r] = request[r] /\ \A threads : Gone(threads) => t \notin threads
    BY <1>3, <1>4
  <2>2. Stays(t)
    BY <1>0, <2>1, StaysOrGone
  <2> QED
    BY <1>2, <1>4, <2>1, <2>2
<1>5. ASSUME NEW q \in Request, Resolve(q) \/ Acquire(q) \/ Drop(q) \/ (q # r /\ Send(q))
      PROVE  file'[baseline'[t].path].id = t
  <2>1. UNCHANGED <<file, baseline>>
    BY <1>5 DEF Resolve, AskCached, AskUnsaved, AskUnknown, AskPath, AskList, ReadDirectory,
                CacheList, LookUp, Send, Acquire, Drop, cached
  <2> DEFINE Other == q # r /\ request'[r] = request[r]
  <2>2. ASSUME NEW rec, Put(q, rec), rec.pc # "acquiring" PROVE Other
    BY <2>2 DEF Put
  <2>3. ASSUME NEW rec, Put(q, rec), q # r PROVE Other
    BY <2>3 DEF Put
  <2> HIDE DEF Other
  <2>4. ASSUME Ends(q) PROVE Other
    BY <2>2, <2>4 DEF Ends, NoRequest
  <2>5. ASSUME NEW rec \in Requests, NEW x, Lists(q, rec, x) PROVE Other
    <3>1. [rec EXCEPT !.pc = "listing", !.unread = x].pc = "listing"
      BY DEF Requests
    <3> QED
      BY <2>2, <2>5, <3>1 DEF Lists
  <2>6. ASSUME NEW rec \in Requests, NEW x, NEW y, Resolves(q, rec, x, y) PROVE Other
    <3>1. [rec EXCEPT !.pc = "resolved", !.session = [id |-> x, path |-> y]].pc = "resolved"
      BY DEF Requests
    <3> QED
      BY <2>2, <2>6, <3>1 DEF Resolves
  <2>7. ASSUME NEW d \in Directory, ReadDirectory(q, d) PROVE Other
    <3> DEFINE read == {s \in Session : InDir[s.path] = d /\ file[s.path].id = s.id}
    <3> DEFINE rec == [request[q] EXCEPT !.unread = request[q].unread \ {d},
                                         !.found = request[q].found \cup read]
    <3>1. rec.pc = request[q].pc
      BY DEF Requests
    <3>2. Put(q, rec) /\ request[q].pc = "listing"
      BY <2>7 DEF ReadDirectory
    <3> QED
      BY <2>2, <3>1, <3>2
  <2>8. ASSUME CacheList(q) PROVE Other
    <3>1. [request[q] EXCEPT !.pc = "listed", !.found = {}].pc = "listed"
      BY DEF Requests
    <3> QED
      BY <2>2, <2>8, <3>1 DEF CacheList, NoRequest
  <2>9. \A x \in Thread \cup Path \cup {None} : Asks(x) \in Requests
    BY AsksTyped
  <2>10. ASSUME Resolve(q) PROVE Other
    BY <2>4, <2>5, <2>6, <2>7, <2>8, <2>9, <2>10
    DEF Resolve, AskCached, AskUnsaved, AskUnknown, AskPath, AskList, LookUp
  <2>11. Other
    BY <1>5, <2>3, <2>4, <2>10 DEF Acquire, Drop, Send, Ends
  <2> QED
    BY <1>2, <2>1, <2>11 DEF Other, Stays
<1>6. ASSUME NEW u \in Thread, Refresh(u) PROVE file'[baseline'[t].path].id = t
  <2>1. request' = request /\ file' = file /\ t # u
    BY <1>6 DEF Refresh, Settled
  <2>2. UNCHANGED cached \/ \E p \in Path : Updates(u, p) /\ (p = worker[u] \/ file[p].id = u)
    BY <1>6 DEF Refresh, Persisted
  <2>3. ASSUME NEW p \in Path, Updates(u, p)
        PROVE  \/ baseline'[t] = baseline[t]
               \/ baseline'[t] = Sample(p) /\ file[p].id = t
    <3>1. Exists(p) /\ Headed(p) => file[p].id \in Thread
      BY DEF Headed, Content
    <3> QED
      BY <1>0, <2>3, <3>1 DEF Updates, cached
  <2>4. baseline'[t] = baseline[t] => file'[baseline'[t].path].id = t
    BY <1>2, <2>1 DEF Stays
  <2> QED
    <3>1. CASE UNCHANGED cached
      BY <2>4, <3>1 DEF cached
    <3>2. CASE ~UNCHANGED cached
      <4>1. PICK p \in Path : Updates(u, p)
        BY <2>2, <3>2
      <4>2. CASE baseline'[t] = Sample(p) /\ file[p].id = t
        BY <2>1, <4>2 DEF Sample
      <4> QED
        BY <2>3, <2>4, <4>1, <4>2
    <3> QED
      BY <3>1, <3>2
<1>7. ASSUME NEW u \in Thread, NEW p \in Path, NewThread(u, p)
      PROVE  file'[baseline'[t].path].id = t
  <2>1. baseline' = baseline
    BY <1>7 DEF NewThread, Updates
  <2> QED
    BY <1>2, <1>7, <2>1 DEF NewThread, Stays
<1>8. ASSUME NEW u \in Thread, Reclaim(u) PROVE file'[baseline'[t].path].id = t
  BY <1>2, <1>8 DEF Reclaim, Stays, cached
<1>9. ASSUME NEW u \in Thread, WorkerWrites(u) \/ WorkerDies(u) \/ \E p \in Path : OtherCreates(p, u)
      PROVE  file'[baseline'[t].path].id = t
  BY <1>4, <1>9 DEF WorkerWrites, WorkerDies, OtherCreates, Changes, cached
<1>10. ASSUME NEW p \in Path, \/ OtherWrites(p) \/ OtherDeletes(p)
                              \/ \E q \in Path : OtherMoves(p, q)
      PROVE  file'[baseline'[t].path].id = t
  BY <1>4, <1>10 DEF OtherWrites, OtherDeletes, OtherMoves, Changes, cached
<1> QED
  BY <1>1, <1>5, <1>6, <1>7, <1>8, <1>9, <1>10 DEF Next

(* Only what becomes of its worker ends a request that waits for one.      *)
LEMMA OnlyAcquired ==
  ASSUME TypeOK, Next, NEW r \in Request, request[r].pc = "acquiring", request'[r] = NoRequest
  PROVE  Acquire(r)
<1> USE DEF TypeOK
<1>0. request[r] # NoRequest
  BY DEF NoRequest
<1>1. ASSUME NEW q \in Request, Resolve(q) \/ Send(q) \/ Drop(q) PROVE FALSE
  <2>1. q # r
    BY <1>1 DEF Resolve, AskCached, AskUnsaved, AskUnknown, AskPath, AskList, ReadDirectory,
                CacheList, LookUp, Send, Drop, Idle
  <2>2. \E rec : Put(q, rec)
    BY <1>1 DEF Resolve, AskCached, AskUnsaved, AskUnknown, AskPath, AskList, ReadDirectory,
                CacheList, LookUp, Send, Drop, Lists, Resolves, Ends
  <2> QED
    BY <1>0, <2>1, <2>2 DEF Put
<1>2. ASSUME NEW q \in Request, Acquire(q) PROVE q = r
  BY <1>0, <1>2 DEF Acquire, Ends, Put
<1>3. ASSUME request' = request \/ \E threads : Gone(threads) PROVE FALSE
  <2>1. PICK threads : Gone(threads)
    BY <1>0, <1>3
  <2>2. request'[r].pc = "acquiring"
    BY <2>1 DEF Gone, Requests
  <2> QED
    BY <2>2 DEF NoRequest
<1>4. ASSUME NEW t \in Thread, Refresh(t) \/ Reclaim(t) \/ WorkerWrites(t) \/ WorkerDies(t)
      PROVE  FALSE
  BY <1>3, <1>4 DEF Refresh, Reclaim, WorkerWrites, WorkerDies, Changes
<1>5. ASSUME NEW t \in Thread, NEW p \in Path, NewThread(t, p) \/ OtherCreates(p, t) PROVE FALSE
  BY <1>3, <1>5 DEF NewThread, OtherCreates, Changes
<1>6. ASSUME NEW p \in Path, \/ OtherWrites(p) \/ OtherDeletes(p)
                             \/ \E q \in Path : OtherMoves(p, q)
      PROVE  FALSE
  BY <1>3, <1>6 DEF OtherWrites, OtherDeletes, OtherMoves, Changes
<1> QED
  BY <1>1, <1>2, <1>4, <1>5, <1>6 DEF Next

(* The worker that a turn is given has the file that assertUnchanged has   *)
(* compared with the baseline, unless somebody moved that file after it.   *)
THEOREM BaselineServed == Spec => TurnsOnBaseline
<1>1. Init => Compared
  BY DEF Init, Compared, NoRequest
<1>2. IInv /\ IInv' /\ FilesInv /\ Compared /\ [Next]_vars => Compared'
  <2>1. UNCHANGED vars /\ Compared => Compared'
    BY DEF vars, Compared
  <2> QED
    BY <2>1, ComparedKept
<1>3. ASSUME IInv, FilesInv, Compared, Next, NEW r \in Request, NEW t,
             t = request[r].session.id, request[r].pc = "acquiring", request[r].there,
             request'[r] = NoRequest, t \in busy', baseline[t] # NoSample
      PROVE  worker'[t] = baseline[t].path
  <2> USE DEF IInv, TypeOK
  <2> DEFINE p == request[r].session.path
  <2>0. TypeOK /\ Alone /\ FilesInv
    BY <1>3
  <2>1. Acquire(r) /\ t \in Thread /\ p \in Path
    BY <1>3, OnlyAcquired DEF RequestsSound, Sound, Session
  <2>2. (worker[t] # None \/ file[p].id = t) /\ worker'[t] = IF worker[t] = None THEN p ELSE worker[t]
    BY <1>3, <2>1 DEF Acquire
  <2>3. baseline[t].path \in Path /\ file[baseline[t].path].id = t
    BY <1>3, <2>1 DEF Compared, FilesInv, Based
  <2>4. CASE worker[t] # None
    <3>1. t \notin unsaved
      BY <2>0, <2>1, <2>3 DEF Alone, OnlyInWorker
    <3> QED
      BY <2>0, <2>1, <2>2, <2>3, <2>4, <3>1 DEF FilesInv, Backed
  <2>5. CASE worker[t] = None
    BY <2>0, <2>1, <2>2, <2>3, <2>5, FileFacts, CatalogAssumption DEF FilesInv, Distinct
  <2> QED
    BY <2>4, <2>5
<1>4. IInv /\ FilesInv /\ Compared /\ [Next]_vars =>
        [\A r \in Request :
           LET t == request[r].session.id
           IN /\ request[r].pc = "acquiring" /\ request[r].there /\ request'[r] = NoRequest
              /\ t \in busy' /\ baseline[t] # NoSample
              => worker'[t] = baseline[t].path]_vars
  BY <1>3
<1> QED
  BY <1>1, <1>2, <1>4, FilesInvariant, PTL DEF Spec, TurnsOnBaseline
=============================================================================
