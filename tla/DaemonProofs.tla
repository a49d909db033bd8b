---------------------------- MODULE DaemonProofs ----------------------------
(***************************************************************************)
(* What holds of the socket path for any number of daemons and of starts.  *)
(***************************************************************************)
EXTENDS Daemon, TLAPS

(* A step of a process that changes what it keeps leaves it a process.     *)
LEMMA ProcessTyped ==
  ASSUME proc \in [Daemons -> Process], NEW d \in Daemons, NEW p \in Process,
         proc' = [proc EXCEPT ![d] = p]
  PROVE  proc' \in [Daemons -> Process]
  OBVIOUS

(* A process that runs no daemon is a process.                             *)
LEMMA OffTyped == Off \in Process
  BY DaemonAssumption DEF Off, Process

(* So is one that has just started.                                        *)
LEMMA StartTyped ==
  ASSUME NEW n \in 0..MaxStarts, NEW s \in BOOLEAN, NEW t \in BOOLEAN
  PROVE  [Off EXCEPT !.start = "starting", !.run = n, !.stdio = s, !.tcp = t] \in Process
  BY OffTyped DEF Process

(* Every variable keeps its type in every step.                            *)
LEMMA StepType == ASSUME TypeOK, [Next]_vars PROVE TypeOK'
<1> USE DaemonAssumption DEF TypeOK, Other
<1>1. ASSUME NEW d \in Daemons, Start(d) PROVE TypeOK'
  <2>1. starts + 1 \in 0..MaxStarts /\ starts' = starts + 1
    BY <1>1 DEF Start
  <2>2. PICK s, t \in BOOLEAN :
          proc' = [proc EXCEPT ![d] = [Off EXCEPT !.start = "starting", !.run = starts + 1,
                                                  !.stdio = s, !.tcp = t]]
    BY <1>1 DEF Start
  <2>3. [Off EXCEPT !.start = "starting", !.run = starts + 1, !.stdio = s, !.tcp = t] \in Process
    BY <2>1, StartTyped
  <2>4. proc' \in [Daemons -> Process]
    BY <2>2, <2>3, ProcessTyped
  <2> QED
    BY <1>1, <2>1, <2>4 DEF Start
<1>2. ASSUME NEW d \in Daemons, Fails(d) PROVE TypeOK'
  <2> DEFINE p == [proc[d] EXCEPT !.start = "failed", !.stop = Begun(proc[d].stop)]
  <2>1. p \in Process
    BY ZenonT(60) DEF Process, Begun
  <2>2. proc' = [proc EXCEPT ![d] = p]
    BY <1>2 DEF Fails
  <2>3. proc' \in [Daemons -> Process]
    BY <2>1, <2>2, ProcessTyped
  <2> QED
    BY <1>2, <2>3 DEF Fails, Closing
<1>3. ASSUME NEW d \in Daemons, Opening(d) PROVE TypeOK'
  <2>1. CASE ServiceStarts(d)
    <3> DEFINE p == [proc[d] EXCEPT !.service = "running", !.start =
                       IF proc[d].stdio THEN NextTransport(d) ELSE "binding"]
    <3>1. p \in Process
      BY ZenonT(60) DEF Process, NextTransport
    <3>2. proc' = [proc EXCEPT ![d] = p]
      BY <2>1 DEF ServiceStarts
    <3> QED
      BY <2>1, <3>1, <3>2, ProcessTyped DEF ServiceStarts
  <2>2. CASE Bind(d)
    BY <2>2 DEF Bind, NextTransport, Process
  <2>3. CASE BindRefused(d)
    BY <2>3 DEF BindRefused, Goes, Process
  <2>4. CASE Look(d) /\ ~Fails(d)
    <3> DEFINE p == [proc[d] EXCEPT !.start = "probing", !.existing = path]
    <3>0. proc[d] \in Process /\ path \in 0..MaxStarts
      BY <2>4 DEF Look
    <3>1. p \in Process
      BY <3>0 DEF Process
    <3>2. proc' = [proc EXCEPT ![d] = p]
      BY <2>4 DEF Look
    <3> QED
      BY <2>4, <3>1, <3>2, ProcessTyped DEF Look
  <2>5. CASE Probe(d) /\ ~Fails(d)
    BY <2>5 DEF Probe, Goes, Process
  <2>6. CASE Check(d) /\ ~Fails(d)
    <3> DEFINE p == [proc[d] EXCEPT !.start = "removing", !.current = path]
    <3>0. proc[d] \in Process /\ path = proc[d].existing
      BY <2>6 DEF Check
    <3>1. p \in Process
      BY <3>0 DEF Process
    <3>2. proc' = [proc EXCEPT ![d] = p]
      BY <2>6 DEF Check
    <3> QED
      BY <2>6, <3>1, <3>2, ProcessTyped DEF Check
  <2>7. CASE Remove(d) /\ ~Fails(d)
    <3>1. proc' \in [Daemons -> Process]
      BY <2>7 DEF Remove, Goes, Process
    <3>2. path' \in 0..Other
      BY <2>7 DEF Remove
    <3>3. raced' = (raced \/ (path # proc[d].current /\ Live(path)))
      BY <2>7 DEF Remove
    <3>4. raced' \in BOOLEAN
      BY <3>3, Zenon
    <3> QED
      BY <2>7, <3>1, <3>2, <3>4 DEF Remove, Goes
  <2>8. CASE NetworkOpens(d)
    BY <2>8 DEF NetworkOpens, Process
  <2> QED
    BY <1>2, <1>3, <2>1, <2>2, <2>3, <2>4, <2>5, <2>6, <2>7, <2>8
    DEF Opening, ServiceFails, RebindRefused, ProbeTimeout, NetworkFails
<1>4. ASSUME NEW d \in Daemons, Stop(d) PROVE TypeOK'
  BY <1>4 DEF Stop, Closing, Process
<1>5. ASSUME NEW d \in Daemons, Stopping(d) PROVE TypeOK'
  <2>1. CASE TransportsClosed(d)
    BY <2>1 DEF TransportsClosed, Process
  <2>2. CASE ServiceStops(d)
    <3> DEFINE p == [proc[d] EXCEPT !.stop = "done", !.service = "stopped"]
    <3>1. p \in Process
      BY ZenonT(60) DEF Process
    <3>2. proc' = [proc EXCEPT ![d] = p]
      BY <2>2 DEF ServiceStops
    <3> QED
      BY <2>2, <3>1, <3>2, ProcessTyped DEF ServiceStops
  <2> QED
    BY <1>5, <2>1, <2>2 DEF Stopping
<1>6. ASSUME NEW d \in Daemons, Exit(d) PROVE TypeOK'
  <2>1. proc' \in [Daemons -> Process]
    BY <1>6, OffTyped, ProcessTyped DEF Exit
  <2> QED
    BY <1>6, <2>1 DEF Exit
<1>7. ASSUME NEW d \in Daemons, Crash(d) PROVE TypeOK'
  <2>1. proc' \in [Daemons -> Process]
    BY <1>7, OffTyped, ProcessTyped DEF Crash
  <2> QED
    BY <1>7, <2>1 DEF Crash
<1>8. CASE UNCHANGED vars
  BY <1>8 DEF vars
<1> QED
  BY <1>1, <1>3, <1>4, <1>5, <1>6, <1>7, <1>8 DEF Next

(* And it has it at first.                                                 *)
LEMMA InitTyped == Init => TypeOK
<1> SUFFICES ASSUME Init PROVE TypeOK
  OBVIOUS
<1>1. proc \in [Daemons -> Process]
  BY OffTyped DEF Init
<1>2. path \in 0..Other /\ starts \in 0..MaxStarts
  BY DaemonAssumption DEF Init, Other
<1> QED
  BY <1>1, <1>2 DEF Init, TypeOK

(* Processes, files and looks at the path are typed: the state that        *)
(* startDaemon and startUnixSocketServer keep.                             *)
THEOREM TypeCorrect == Spec => []TypeOK
  BY InitTyped, StepType, PTL DEF Spec

-----------------------------------------------------------------------------
(* The inductive invariant of the socket path.                             *)

Unbound ==
  {"starting", "binding", "looking", "probing", "checking", "removing", "rebinding"}

(* Runs are numbered from 1, and files bear the numbers of runs.           *)
Numbered ==
  /\ path \in (0..starts) \union {Other}
  /\ \A d \in Daemons :
       /\ proc[d].start # "off" => proc[d].run \in 1..starts
       /\ proc[d].existing \in 0..starts /\ proc[d].current \in 0..starts

Distinct ==
  \A d, e \in Daemons :
    proc[d].start # "off" /\ proc[e].start # "off" /\ proc[d].run = proc[e].run => d = e

(* What is open at each step of a start and of a stop.                     *)
Phases ==
  \A d \in Daemons :
    /\ proc[d].start \in Unbound \union {"off"} => proc[d].stop = "none"
    /\ d \in serving => proc[d].start = "up"
    /\ d \in listening => proc[d].start \in {"opening", "up"} /\ proc[d].stop = "none"

(* A file that is not bound yet has been seen by nobody.                   *)
Fresh ==
  \A d \in Daemons : proc[d].start \in Unbound =>
    /\ path # proc[d].run
    /\ \A e \in Daemons : proc[e].existing # proc[d].run /\ proc[e].current # proc[d].run

(* The file that has been probed belongs to no live daemon.                *)
Probed ==
  \A d \in Daemons :
    /\ proc[d].start = "checking" /\ path = proc[d].existing => ~Live(path)
    /\ proc[d].start = "removing" /\ path = proc[d].current => ~Live(path)

(* What is no socket is in everybody's way.                                *)
OtherAlone ==
  path = Other =>
    /\ listening = {}
    /\ \A d \in Daemons : proc[d].start \notin {"probing", "checking", "removing", "rebinding"}

IInv ==
  /\ TypeOK /\ Numbered /\ Distinct /\ Phases /\ Fresh /\ Probed /\ OtherAlone
  /\ UpIsReachable /\ StoppedHoldsNothing

(* Every step keeps it: a live daemon's path is taken only in the step     *)
(* that raced records, because what has been probed is not alive.          *)
LEMMA Inductive == ASSUME IInv, [Next]_vars PROVE IInv'
<1> USE DaemonAssumption DEF IInv
<1>0. TypeOK'
  BY StepType
<1>1. ASSUME NEW d \in Daemons, Start(d) PROVE IInv'
  <2>1. /\ proc'[d].start = "starting"
        /\ proc'[d].stop = "none"
        /\ proc'[d].run = starts + 1
        /\ proc'[d].existing = 0
        /\ proc'[d].current = 0
        /\ proc'[d].service = "none"
        /\ \A e \in Daemons : e # d => proc'[e] = proc[e]
    BY <1>1 DEF TypeOK, Start, Off
  <2>2. Numbered' /\ Distinct'
    BY <1>1, <2>1 DEF Start, Numbered, Distinct, TypeOK
  <2>3. Phases' /\ StoppedHoldsNothing'
    BY <1>1, <2>1 DEF Start, Phases, StoppedHoldsNothing
  <2>4. Fresh' /\ Probed'
    BY <1>1, <2>1 DEF Start, Fresh, Probed, Live, Unbound, Numbered, TypeOK, Other
  <2>5. OtherAlone' /\ UpIsReachable'
    BY <1>1, <2>1 DEF Start, OtherAlone, UpIsReachable, Phases
  <2> QED
    BY <1>0, <2>2, <2>3, <2>4, <2>5
<1>2. ASSUME NEW d \in Daemons, Fails(d) /\ proc[d].start \notin {"off", "up", "failed"} PROVE IInv'
  <2>1. /\ proc'[d].start = "failed"
        /\ proc'[d].stop = Begun(proc[d].stop)
        /\ proc'[d].run = proc[d].run
        /\ proc'[d].existing = proc[d].existing
        /\ proc'[d].current = proc[d].current
        /\ proc'[d].service = proc[d].service
        /\ \A e \in Daemons : e # d => proc'[e] = proc[e]
    BY <1>2 DEF TypeOK, Fails, Begun, Closing
  <2>2. Numbered' /\ Distinct'
    BY <1>2, <2>1 DEF Fails, Closing, Numbered, Distinct, TypeOK
  <2>3. Phases' /\ StoppedHoldsNothing'
    BY <1>2, <2>1 DEF Fails, Begun, Closing, Phases, StoppedHoldsNothing, Unbound
  <2>4. Fresh' /\ Probed'
    BY <1>2, <2>1 DEF Fails, Closing, Fresh, Probed, Live, Unbound, Numbered, Phases, TypeOK
  <2>5. OtherAlone' /\ UpIsReachable'
    BY <1>2, <2>1 DEF Fails, Closing, OtherAlone, UpIsReachable, Distinct, Phases, TypeOK
  <2> QED
    BY <1>0, <2>2, <2>3, <2>4, <2>5
<1>3. ASSUME NEW d \in Daemons, ServiceStarts(d) PROVE IInv'
  <2>1. /\ proc'[d].start = IF proc[d].stdio THEN NextTransport(d) ELSE "binding"
        /\ proc'[d].stop = proc[d].stop
        /\ proc'[d].run = proc[d].run
        /\ proc'[d].existing = proc[d].existing
        /\ proc'[d].current = proc[d].current
        /\ proc'[d].service = "running"
        /\ \A e \in Daemons : e # d => proc'[e] = proc[e]
    BY <1>3 DEF TypeOK, ServiceStarts, NextTransport
  <2>2. Numbered' /\ Distinct'
    BY <1>3, <2>1 DEF ServiceStarts, Numbered, Distinct
  <2>3. Phases' /\ StoppedHoldsNothing'
    BY <1>3, <2>1 DEF ServiceStarts, Phases, StoppedHoldsNothing, Unbound
  <2>4. Fresh' /\ Probed'
    BY <1>3, <2>1 DEF ServiceStarts, NextTransport, Fresh, Probed, Live, Unbound
  <2>5. OtherAlone' /\ UpIsReachable'
    BY <1>3, <2>1 DEF ServiceStarts, NextTransport, OtherAlone, UpIsReachable
  <2> QED
    BY <1>0, <2>2, <2>3, <2>4, <2>5
<1>4. ASSUME NEW d \in Daemons, Bind(d) PROVE IInv'
  <2>1. /\ proc'[d].start = NextTransport(d)
        /\ proc'[d].stop = proc[d].stop
        /\ proc'[d].run = proc[d].run
        /\ proc'[d].existing = proc[d].existing
        /\ proc'[d].current = proc[d].current
        /\ proc'[d].service = proc[d].service
        /\ \A e \in Daemons : e # d => proc'[e] = proc[e]
    BY <1>4 DEF TypeOK, Bind, NextTransport
  <2>2. Numbered' /\ Distinct'
    BY <1>4, <2>1 DEF Bind, Numbered, Distinct
  <2>3. Phases' /\ StoppedHoldsNothing'
    BY <1>4, <2>1 DEF Bind, NextTransport, Phases, StoppedHoldsNothing, Unbound
  <2>4. Fresh' /\ Probed'
    BY <1>4, <2>1 DEF Bind, NextTransport, Fresh, Probed, Unbound, Distinct
  <2>5. OtherAlone' /\ UpIsReachable'
    BY <1>4, <2>1 DEF Bind, OtherAlone, UpIsReachable, Numbered, Phases, TypeOK, Other
  <2> QED
    BY <1>0, <2>2, <2>3, <2>4, <2>5
<1>5. ASSUME NEW d \in Daemons, BindRefused(d) PROVE IInv'
  <2>1. /\ proc'[d].start = "looking"
        /\ proc'[d].stop = proc[d].stop
        /\ proc'[d].run = proc[d].run
        /\ proc'[d].existing = proc[d].existing
        /\ proc'[d].current = proc[d].current
        /\ proc'[d].service = proc[d].service
        /\ \A e \in Daemons : e # d => proc'[e] = proc[e]
    BY <1>5 DEF TypeOK, BindRefused, Goes
  <2>2. Numbered' /\ Distinct'
    BY <1>5, <2>1 DEF BindRefused, Goes, Numbered, Distinct
  <2>3. Phases' /\ StoppedHoldsNothing'
    BY <1>5, <2>1 DEF BindRefused, Goes, Phases, StoppedHoldsNothing, Unbound
  <2>4. Fresh' /\ Probed'
    BY <1>5, <2>1 DEF BindRefused, Goes, Fresh, Probed, Live, Unbound
  <2>5. OtherAlone' /\ UpIsReachable'
    BY <1>5, <2>1 DEF BindRefused, Goes, OtherAlone, UpIsReachable
  <2> QED
    BY <1>0, <2>2, <2>3, <2>4, <2>5
<1>6. ASSUME NEW d \in Daemons, Look(d) /\ ~Fails(d) PROVE IInv'
  <2>0. proc' = [proc EXCEPT ![d] = [@ EXCEPT !.start = "probing", !.existing = path]]
    BY <1>6 DEF Look
  <2>1. /\ proc'[d].start = "probing"
        /\ proc'[d].stop = proc[d].stop
        /\ proc'[d].run = proc[d].run
        /\ proc'[d].existing = path
        /\ proc'[d].current = proc[d].current
        /\ proc'[d].service = proc[d].service
        /\ \A e \in Daemons : e # d => proc'[e] = proc[e]
    BY <2>0 DEF TypeOK
  <2>2. Numbered' /\ Distinct'
    BY <1>6, <2>1 DEF Look, Numbered, Distinct
  <2>3. Phases' /\ StoppedHoldsNothing'
    BY <1>6, <2>1 DEF Look, Phases, StoppedHoldsNothing, Unbound
  <2>4. Fresh' /\ Probed'
    BY <1>6, <2>1 DEF Look, Fresh, Probed, Live, Unbound, TypeOK
  <2>5. OtherAlone' /\ UpIsReachable'
    BY <1>6, <2>1 DEF Look, OtherAlone, UpIsReachable, TypeOK
  <2> QED
    BY <1>0, <2>2, <2>3, <2>4, <2>5
<1>7. ASSUME NEW d \in Daemons, Probe(d) /\ ~Fails(d) PROVE IInv'
  <2>0. proc' = [proc EXCEPT ![d].start = "checking"]
    BY <1>7 DEF Probe, Goes
  <2>1. /\ proc'[d].start = "checking"
        /\ proc'[d].stop = proc[d].stop
        /\ proc'[d].run = proc[d].run
        /\ proc'[d].existing = proc[d].existing
        /\ proc'[d].current = proc[d].current
        /\ proc'[d].service = proc[d].service
        /\ \A e \in Daemons : e # d => proc'[e] = proc[e]
    BY <2>0 DEF TypeOK
  <2>2. Numbered' /\ Distinct'
    BY <1>7, <2>1 DEF Probe, Goes, Numbered, Distinct
  <2>3. Phases' /\ StoppedHoldsNothing'
    BY <1>7, <2>1 DEF Probe, Goes, Phases, StoppedHoldsNothing, Unbound
  <2>4. Fresh' /\ Probed'
    BY <1>7, <2>1 DEF Probe, Goes, Fresh, Probed, Live, Unbound, TypeOK
  <2>5. OtherAlone' /\ UpIsReachable'
    BY <1>7, <2>1 DEF Probe, Goes, OtherAlone, UpIsReachable, Live
  <2> QED
    BY <1>0, <2>2, <2>3, <2>4, <2>5
<1>8. ASSUME NEW d \in Daemons, Check(d) /\ ~Fails(d) PROVE IInv'
  <2>0. proc' = [proc EXCEPT ![d] = [@ EXCEPT !.start = "removing", !.current = path]]
    BY <1>8 DEF Check
  <2>1. /\ proc'[d].start = "removing"
        /\ proc'[d].stop = proc[d].stop
        /\ proc'[d].run = proc[d].run
        /\ proc'[d].existing = proc[d].existing
        /\ proc'[d].current = path
        /\ proc'[d].service = proc[d].service
        /\ \A e \in Daemons : e # d => proc'[e] = proc[e]
    BY <2>0 DEF TypeOK
  <2>2. Numbered' /\ Distinct'
    BY <1>8, <2>1 DEF Check, Numbered, Distinct
  <2>3. Phases' /\ StoppedHoldsNothing'
    BY <1>8, <2>1 DEF Check, Phases, StoppedHoldsNothing, Unbound
  <2>4. Fresh' /\ Probed'
    BY <1>8, <2>1 DEF Check, Fresh, Probed, Live, Unbound, TypeOK
  <2>5. OtherAlone' /\ UpIsReachable'
    BY <1>8, <2>1 DEF Check, OtherAlone, UpIsReachable, Live, Probed
  <2> QED
    BY <1>0, <2>2, <2>3, <2>4, <2>5
<1>9. ASSUME NEW d \in Daemons, Remove(d) /\ ~Fails(d) PROVE IInv'
  <2>0. proc' = [proc EXCEPT ![d].start = "rebinding"]
    BY <1>9 DEF Remove, Goes
  <2>1. /\ proc'[d].start = "rebinding"
        /\ proc'[d].stop = proc[d].stop
        /\ proc'[d].run = proc[d].run
        /\ proc'[d].existing = proc[d].existing
        /\ proc'[d].current = proc[d].current
        /\ proc'[d].service = proc[d].service
        /\ \A e \in Daemons : e # d => proc'[e] = proc[e]
    BY <2>0 DEF TypeOK
  <2>2. Numbered' /\ Distinct'
    BY <1>9, <2>1 DEF Remove, Goes, Numbered, Distinct, TypeOK
  <2>3. Phases' /\ StoppedHoldsNothing'
    BY <1>9, <2>1 DEF Remove, Goes, Phases, StoppedHoldsNothing, Unbound
  <2>4. Fresh' /\ Probed'
    BY <1>9, <2>1 DEF Remove, Goes, Fresh, Probed, Live, Unbound, Numbered, Phases, TypeOK
  <2>5. OtherAlone'
    BY <1>9, <2>1 DEF Remove, OtherAlone, Other
  <2>6. UpIsReachable'
    BY <1>9, <2>1 DEF Remove, Goes, UpIsReachable, Live, Probed
  <2> QED
    BY <1>0, <2>2, <2>3, <2>4, <2>5, <2>6
<1>10. ASSUME NEW d \in Daemons, NetworkOpens(d) PROVE IInv'
  <2>1. /\ proc'[d].start = "up"
        /\ proc'[d].stop = proc[d].stop
        /\ proc'[d].run = proc[d].run
        /\ proc'[d].existing = proc[d].existing
        /\ proc'[d].current = proc[d].current
        /\ proc'[d].service = proc[d].service
        /\ \A e \in Daemons : e # d => proc'[e] = proc[e]
    BY <1>10 DEF TypeOK, NetworkOpens
  <2>2. Numbered' /\ Distinct'
    BY <1>10, <2>1 DEF NetworkOpens, Numbered, Distinct
  <2>3. Phases' /\ StoppedHoldsNothing'
    BY <1>10, <2>1 DEF NetworkOpens, Phases, StoppedHoldsNothing, Unbound
  <2>4. Fresh' /\ Probed'
    BY <1>10, <2>1 DEF NetworkOpens, Fresh, Probed, Live, Unbound
  <2>5. OtherAlone' /\ UpIsReachable'
    BY <1>10, <2>1 DEF NetworkOpens, OtherAlone, UpIsReachable
  <2> QED
    BY <1>0, <2>2, <2>3, <2>4, <2>5
<1>11. ASSUME NEW d \in Daemons, Stop(d) PROVE IInv'
  <2>1. /\ proc'[d].start = proc[d].start
        /\ proc'[d].stop = "closing"
        /\ proc'[d].run = proc[d].run
        /\ proc'[d].existing = proc[d].existing
        /\ proc'[d].current = proc[d].current
        /\ proc'[d].service = proc[d].service
        /\ \A e \in Daemons : e # d => proc'[e] = proc[e]
    BY <1>11 DEF TypeOK, Stop, Closing
  <2>2. Numbered' /\ Distinct'
    BY <1>11, <2>1 DEF Stop, Closing, Numbered, Distinct, TypeOK
  <2>3. Phases' /\ StoppedHoldsNothing'
    BY <1>11, <2>1 DEF Stop, Closing, Phases, StoppedHoldsNothing, Unbound
  <2>4. Fresh' /\ Probed'
    BY <1>11, <2>1 DEF Stop, Closing, Fresh, Probed, Live, Unbound, Numbered, Phases, TypeOK
  <2>5. OtherAlone' /\ UpIsReachable'
    BY <1>11, <2>1 DEF Stop, Closing, OtherAlone, UpIsReachable, Distinct, Phases, TypeOK
  <2> QED
    BY <1>0, <2>2, <2>3, <2>4, <2>5
<1>12. ASSUME NEW d \in Daemons, TransportsClosed(d) PROVE IInv'
  <2>1. /\ proc'[d].start = proc[d].start
        /\ proc'[d].stop = "shutting"
        /\ proc'[d].run = proc[d].run
        /\ proc'[d].existing = proc[d].existing
        /\ proc'[d].current = proc[d].current
        /\ proc'[d].service = proc[d].service
        /\ \A e \in Daemons : e # d => proc'[e] = proc[e]
    BY <1>12 DEF TypeOK, TransportsClosed
  <2>2. Numbered' /\ Distinct'
    BY <1>12, <2>1 DEF TransportsClosed, Numbered, Distinct
  <2>3. Phases' /\ StoppedHoldsNothing'
    BY <1>12, <2>1 DEF TransportsClosed, Phases, StoppedHoldsNothing
  <2>4. Fresh' /\ Probed'
    BY <1>12, <2>1 DEF TransportsClosed, Fresh, Probed, Live
  <2>5. OtherAlone' /\ UpIsReachable'
    BY <1>12, <2>1 DEF TransportsClosed, OtherAlone, UpIsReachable
  <2> QED
    BY <1>0, <2>2, <2>3, <2>4, <2>5
<1>13. ASSUME NEW d \in Daemons, ServiceStops(d) PROVE IInv'
  <2>1. /\ proc'[d].start = proc[d].start
        /\ proc'[d].stop = "done"
        /\ proc'[d].run = proc[d].run
        /\ proc'[d].existing = proc[d].existing
        /\ proc'[d].current = proc[d].current
        /\ proc'[d].service = "stopped"
        /\ \A e \in Daemons : e # d => proc'[e] = proc[e]
    BY <1>13 DEF TypeOK, ServiceStops
  <2>2. Numbered' /\ Distinct'
    BY <1>13, <2>1 DEF ServiceStops, Numbered, Distinct
  <2>3. Phases' /\ StoppedHoldsNothing'
    BY <1>13, <2>1 DEF ServiceStops, Phases, StoppedHoldsNothing
  <2>4. Fresh' /\ Probed'
    BY <1>13, <2>1 DEF ServiceStops, Fresh, Probed, Live
  <2>5. OtherAlone' /\ UpIsReachable'
    BY <1>13, <2>1 DEF ServiceStops, OtherAlone, UpIsReachable
  <2> QED
    BY <1>0, <2>2, <2>3, <2>4, <2>5
<1>14. ASSUME NEW d \in Daemons, Exit(d) PROVE IInv'
  <2>1. /\ proc'[d].start = "off"
        /\ proc'[d].stop = "none"
        /\ proc'[d].run = 0
        /\ proc'[d].existing = 0
        /\ proc'[d].current = 0
        /\ proc'[d].service = "none"
        /\ \A e \in Daemons : e # d => proc'[e] = proc[e]
    BY <1>14 DEF TypeOK, Exit, Off
  <2>2. Numbered' /\ Distinct'
    BY <1>14, <2>1 DEF Exit, Numbered, Distinct, TypeOK
  <2>3. Phases' /\ StoppedHoldsNothing'
    BY <1>14, <2>1 DEF Exit, Phases, StoppedHoldsNothing
  <2>4. Fresh' /\ Probed'
    BY <1>14, <2>1 DEF Exit, Fresh, Probed, Live, Unbound, Numbered, Phases
  <2>5. OtherAlone' /\ UpIsReachable'
    BY <1>14, <2>1 DEF Exit, OtherAlone, UpIsReachable, Phases
  <2> QED
    BY <1>0, <2>2, <2>3, <2>4, <2>5
<1>15. ASSUME NEW d \in Daemons, Crash(d) PROVE IInv'
  <2>1. /\ proc'[d].start = "off"
        /\ proc'[d].stop = "none"
        /\ proc'[d].run = 0
        /\ proc'[d].existing = 0
        /\ proc'[d].current = 0
        /\ proc'[d].service = "none"
        /\ \A e \in Daemons : e # d => proc'[e] = proc[e]
    BY <1>15 DEF TypeOK, Crash, Off
  <2>2. Numbered' /\ Distinct'
    BY <1>15, <2>1 DEF Crash, Numbered, Distinct, TypeOK
  <2>3. Phases' /\ StoppedHoldsNothing'
    BY <1>15, <2>1 DEF Crash, Phases, StoppedHoldsNothing
  <2>4. Fresh' /\ Probed'
    BY <1>15, <2>1 DEF Crash, Fresh, Probed, Live, Unbound, Numbered
  <2>5. OtherAlone' /\ UpIsReachable'
    BY <1>15, <2>1 DEF Crash, OtherAlone, UpIsReachable
  <2> QED
    BY <1>0, <2>2, <2>3, <2>4, <2>5
<1>16. ASSUME NEW d \in Daemons, Opening(d) PROVE IInv'
  BY <1>16, <1>2, <1>3, <1>4, <1>5, <1>6, <1>7, <1>8, <1>9, <1>10
  DEF Opening, ServiceFails, RebindRefused, ProbeTimeout, NetworkFails, Look, Probe,
    Check, Remove
<1>17. CASE UNCHANGED vars
  BY <1>17 DEF vars, TypeOK, Numbered, Distinct, Phases, Fresh, Probed, Live, OtherAlone,
    UpIsReachable, StoppedHoldsNothing
<1> QED
  BY <1>16, <1>17, <1>1, <1>11, <1>12, <1>13, <1>14, <1>15 DEF Next, Stopping

(* What is no socket stays where it is: nothing is bound there, and no     *)
(* start gets past the first look at it.                                   *)
LEMMA OtherStays == ASSUME IInv, [Next]_vars PROVE path = Other => path' = Other
<1> SUFFICES ASSUME path = Other PROVE path' = Other
  OBVIOUS
<1> USE DaemonAssumption DEF IInv
<1>1. /\ listening = {} /\ path # 0
      /\ \A d \in Daemons :
           proc[d].start \notin {"probing", "checking", "removing", "rebinding"}
  BY DEF OtherAlone, Other
<1>2. ASSUME NEW d \in Daemons, Fails(d) \/ Stop(d) PROVE path' = Other
  BY <1>1, <1>2 DEF Fails, Stop, Closing
<1>3. ASSUME NEW d \in Daemons, Opening(d) PROVE path' = Other
  BY <1>1, <1>2, <1>3
  DEF Opening, ServiceStarts, ServiceFails, Bind, BindRefused, RebindRefused, Look, Probe,
    ProbeTimeout, Check, Remove, NetworkOpens, NetworkFails
<1>4. ASSUME NEW d \in Daemons, Start(d) \/ Stopping(d) \/ Exit(d) \/ Crash(d)
      PROVE  path' = Other
  BY <1>4 DEF Start, Stopping, TransportsClosed, ServiceStops, Exit, Crash
<1>5. CASE UNCHANGED vars
  BY <1>5 DEF vars
<1> QED
  BY <1>2, <1>3, <1>4, <1>5 DEF Next

(* It holds of a machine on which no daemon has been started.              *)
LEMMA Invariant == Spec => []IInv
<1>1. ASSUME Init PROVE IInv
  <2> USE DaemonAssumption
  <2>1. TypeOK
    BY <1>1, InitTyped
  <2>2. \A d \in Daemons : /\ proc[d].start = "off" /\ proc[d].stop = "none"
                           /\ proc[d].service = "none"
                           /\ proc[d].existing = 0 /\ proc[d].current = 0
    BY <1>1 DEF Init, Off
  <2>3. listening = {} /\ serving = {} /\ starts = 0 /\ path \in {0, Other}
    BY <1>1 DEF Init
  <2> QED
    BY <2>1, <2>2, <2>3
    DEF IInv, Numbered, Distinct, Phases, Fresh, Probed, OtherAlone, UpIsReachable,
      StoppedHoldsNothing, Unbound, Live
<1>2. ASSUME IInv, [Next]_vars PROVE IInv'
  BY <1>2, Inductive
<1> QED
  BY <1>1, <1>2, PTL DEF Spec

(* The path of startUnixSocketServer leads to the daemon that listens      *)
(* there, for any number of daemons, starts and crashes; the one exception *)
(* is a socket that was bound between the second lstat and the unlink.     *)
THEOREM Reachable == Spec => []UpIsReachable
<1>1. IInv => UpIsReachable
  BY DEF IInv
<1> QED
  BY <1>1, Invariant, PTL

(* startDaemon's stop leaves nothing open that was open when it was        *)
(* called, at whatever step of the start that was.                         *)
THEOREM Stopped == Spec => []StoppedHoldsNothing
<1>1. IInv => StoppedHoldsNothing
  BY DEF IInv
<1> QED
  BY <1>1, Invariant, PTL

(* The recovery of a stale path never removes what is no socket.           *)
THEOREM OtherUntouched == Spec => OtherKept
<1>1. ASSUME IInv, [Next]_vars PROVE [path = Other => path' = Other]_path
  BY <1>1, OtherStays
<1> QED
  BY <1>1, Invariant, PTL DEF Spec, OtherKept
=============================================================================
