------------------------------- MODULE Daemon -------------------------------
(***************************************************************************)
(* Daemon processes that are configured alike and so want the same socket  *)
(* path and the same port: startDaemon (src/src/daemon.ts), the Unix       *)
(* socket with the recovery of a path that a crashed daemon left behind    *)
(* (src/src/transport/unix.ts), the network server (src/src/transport/     *)
(* http.ts) and stdio (src/src/transport/stdio.ts).                        *)
(*                                                                         *)
(* The file system is shared: every look at the path and every change of   *)
(* it is a step of its own.  A socket file is the number of the start that *)
(* bound it; unlike an inode's, it is not used again.                      *)
(***************************************************************************)
EXTENDS Naturals

CONSTANTS
  Daemons,   \* processes
  MaxStarts  \* bound: starts of any of them

ASSUME DaemonAssumption == MaxStarts \in Nat

VARIABLES
  proc,       \* what each process keeps (see Off)
  path,       \* what is at the socket path: 0, a socket file, or Other
  listening,  \* processes whose Unix socket takes connections
  serving,    \* processes whose network server does
  starts,     \* starts so far
  raced,      \* a socket that was bound after the last look has been removed
  overrun     \* processes whose start went on after their stop had begun

vars == <<proc, path, listening, serving, starts, raced, overrun>>

Other == MaxStarts + 1  \* something that is no socket

Off ==
  [start |-> "off",      \* what startDaemon is at
   stop |-> "none",      \* "closing" transports, "shutting" the service down, "done"
   service |-> "none",
   stdio |-> FALSE,      \* started with --stdio
   tcp |-> FALSE,        \* with the network server
   run |-> 0,            \* the number of this start
   existing |-> 0,       \* the file found at the path,
   current |-> 0]        \* and the second time

Live(file) == \E d \in listening : proc[d].run = file

-----------------------------------------------------------------------------
(* stop: every transport that is open by now begins to close.  Its         *)
(* listener takes the name it was bound to with it, whatever file bears    *)
(* that name by then.                                                      *)
Closing(d) ==
  /\ path' = IF d \in listening THEN 0 ELSE path
  /\ listening' = listening \ {d}
  /\ serving' = serving \ {d}

(* Only the first call of stop does anything.                              *)
Begun(stop) == IF stop = "none" THEN "closing" ELSE stop

(* Variant: a start that fails keeps what it has opened.                   *)
FailsOpen(d) ==
  /\ proc' = [proc EXCEPT ![d] = [@ EXCEPT !.start = "failed",
                                          !.stop = Begun(proc[d].stop)]]
  /\ UNCHANGED <<path, listening, serving, starts, raced, overrun>>

(* A step of the start throws: stop, unless it has been called already.    *)
Fails(d) ==
  /\ proc' = [proc EXCEPT ![d] = [@ EXCEPT !.start = "failed",
                                          !.stop = Begun(proc[d].stop)]]
  /\ IF proc[d].stop = "none" THEN Closing(d) ELSE UNCHANGED <<path, listening, serving>>
  /\ UNCHANGED <<starts, raced, overrun>>

NextTransport(d) == IF proc[d].tcp THEN "opening" ELSE "up"

-----------------------------------------------------------------------------
(* startDaemon                                                             *)

Start(d) ==
  /\ proc[d].start = "off" /\ starts < MaxStarts
  /\ starts' = starts + 1
  /\ \E s, t \in BOOLEAN :
       proc' = [proc EXCEPT ![d] = [Off EXCEPT !.start = "starting", !.run = starts + 1,
                                               !.stdio = s, !.tcp = t]]
  /\ UNCHANGED <<path, listening, serving, raced, overrun>>

ServiceStarts(d) ==
  /\ proc[d].start = "starting"
  /\ LET next == IF proc[d].stdio THEN NextTransport(d) ELSE "binding"
     IN proc' = [proc EXCEPT ![d] = [@ EXCEPT !.service = "running", !.start = next]]
  /\ UNCHANGED <<path, listening, serving, starts, raced, overrun>>

ServiceFails(d) == proc[d].start = "starting" /\ Fails(d)

-----------------------------------------------------------------------------
(* startUnixSocketServer                                                   *)

Goes(d, step) ==
  /\ proc' = [proc EXCEPT ![d].start = step]
  /\ UNCHANGED <<listening, serving, starts, overrun>>

Bind(d) ==
  /\ proc[d].start \in {"binding", "rebinding"} /\ path = 0
  /\ path' = proc[d].run
  /\ listening' = listening \union {d}
  /\ proc' = [proc EXCEPT ![d].start = NextTransport(d)]
  /\ UNCHANGED <<serving, starts, raced, overrun>>

(* Variant: nothing is done about what a crash has left.                   *)
BindGivesUp(d) == proc[d].start = "binding" /\ path # 0 /\ Fails(d)

(* The address is in use: anything at the path is in the way.              *)
BindRefused(d) ==
  /\ proc[d].start = "binding" /\ path # 0
  /\ Goes(d, "looking")
  /\ UNCHANGED <<path, raced>>

RebindRefused(d) == proc[d].start = "rebinding" /\ path # 0 /\ Fails(d)

(* The first lstat.                                                        *)
Look(d) ==
  /\ proc[d].start = "looking"
  /\ IF path \in {0, Other} THEN Fails(d)
     ELSE /\ proc' = [proc EXCEPT ![d] = [@ EXCEPT !.start = "probing", !.existing = path]]
          /\ UNCHANGED <<path, listening, serving, starts, raced, overrun>>

(* isStaleSocket connects to whatever is at the path by now; only a        *)
(* connection that is refused tells that nobody listens there.             *)
Probe(d) ==
  /\ proc[d].start = "probing"
  /\ IF path # 0 /\ ~Live(path)
     THEN Goes(d, "checking") /\ UNCHANGED <<path, raced>>
     ELSE Fails(d)

(* The connection takes too long.                                          *)
ProbeTimeout(d) == proc[d].start = "probing" /\ Live(path) /\ Fails(d)

(* Variant: what is at the path now need not be what was there before.     *)
CheckNothing(d) ==
  /\ proc[d].start = "checking"
  /\ IF path = 0 THEN Fails(d)
     ELSE /\ proc' = [proc EXCEPT ![d] = [@ EXCEPT !.start = "removing", !.current = path]]
          /\ UNCHANGED <<path, listening, serving, starts, raced, overrun>>

(* The second lstat.                                                       *)
Check(d) ==
  /\ proc[d].start = "checking"
  /\ IF path # proc[d].existing THEN Fails(d)
     ELSE /\ proc' = [proc EXCEPT ![d] = [@ EXCEPT !.start = "removing", !.current = path]]
          /\ UNCHANGED <<path, listening, serving, starts, raced, overrun>>

(* unlink, of whatever is at the path by now.                              *)
Remove(d) ==
  /\ proc[d].start = "removing"
  /\ IF path = 0 THEN Fails(d)
     ELSE /\ path' = 0
          /\ raced' = (raced \/ (path # proc[d].current /\ Live(path)))
          /\ Goes(d, "rebinding")

-----------------------------------------------------------------------------
(* startNetworkServer                                                      *)

(* Nothing here asks whether the daemon has been told to stop meanwhile.   *)
NetworkOpens(d) ==
  /\ proc[d].start = "opening" /\ serving = {}
  /\ serving' = {d}
  /\ proc' = [proc EXCEPT ![d].start = "up"]
  /\ overrun' = IF proc[d].stop = "none" THEN overrun ELSE overrun \union {d}
  /\ UNCHANGED <<path, listening, starts, raced>>

(* The port is in use, or the configuration is refused.                    *)
NetworkFails(d) == proc[d].start = "opening" /\ Fails(d)

-----------------------------------------------------------------------------
(* stop, by a signal once the start is over, by server/shutdown or the end *)
(* of stdin as soon as a transport is there.                               *)
Stop(d) ==
  /\ proc[d].start \in {"opening", "up"} /\ proc[d].stop = "none"
  /\ proc[d].start = "opening" => d \in listening \/ proc[d].stdio
  /\ proc' = [proc EXCEPT ![d].stop = "closing"]
  /\ Closing(d)
  /\ UNCHANGED <<starts, raced, overrun>>

TransportsClosed(d) ==
  /\ proc[d].stop = "closing"
  /\ proc' = [proc EXCEPT ![d].stop = "shutting"]
  /\ UNCHANGED <<path, listening, serving, starts, raced, overrun>>

ServiceStops(d) ==
  /\ proc[d].stop = "shutting"
  /\ proc' = [proc EXCEPT ![d] = [@ EXCEPT !.stop = "done", !.service = "stopped"]]
  /\ UNCHANGED <<path, listening, serving, starts, raced, overrun>>

(* Nothing keeps the process any more.                                     *)
Exit(d) ==
  /\ proc[d].stop = "done" /\ proc[d].start \in {"up", "failed"} /\ d \notin serving
  /\ proc' = [proc EXCEPT ![d] = Off]
  /\ overrun' = overrun \ {d}
  /\ UNCHANGED <<path, listening, serving, starts, raced>>

(* The file of a process that dies stays.                                  *)
Crash(d) ==
  /\ proc[d].start # "off"
  /\ proc' = [proc EXCEPT ![d] = Off]
  /\ listening' = listening \ {d}
  /\ serving' = serving \ {d}
  /\ overrun' = overrun \ {d}
  /\ UNCHANGED <<path, starts, raced>>

-----------------------------------------------------------------------------

Init ==
  /\ proc = [d \in Daemons |-> Off]
  /\ path \in {0, Other}
  /\ listening = {} /\ serving = {} /\ overrun = {}
  /\ starts = 0
  /\ raced = FALSE

Opening(d) ==
  \/ ServiceStarts(d) \/ ServiceFails(d)
  \/ Bind(d) \/ BindRefused(d) \/ RebindRefused(d)
  \/ Look(d) \/ Probe(d) \/ ProbeTimeout(d) \/ Check(d) \/ Remove(d)
  \/ NetworkOpens(d) \/ NetworkFails(d)

Stopping(d) == TransportsClosed(d) \/ ServiceStops(d)

Next ==
  \E d \in Daemons :
    Start(d) \/ Opening(d) \/ Stop(d) \/ Stopping(d) \/ Exit(d) \/ Crash(d)

Spec == Init /\ [][Next]_vars

(* A process that runs goes on; nothing makes one start, stop or crash.    *)
FairSpec == Spec /\ \A d \in Daemons : WF_vars(Opening(d)) /\ WF_vars(Stopping(d))

-----------------------------------------------------------------------------
Process ==
  [start : {"off", "starting", "binding", "looking", "probing", "checking", "removing",
            "rebinding", "opening", "up", "failed"},
   stop : {"none", "closing", "shutting", "done"},
   service : {"none", "running", "stopped"},
   stdio : BOOLEAN, tcp : BOOLEAN,
   run : 0..MaxStarts, existing : 0..MaxStarts, current : 0..MaxStarts]

(* Every field holds what its declaration says.                            *)
TypeOK ==
  /\ proc \in [Daemons -> Process]
  /\ path \in 0..Other
  /\ listening \subseteq Daemons /\ serving \subseteq Daemons /\ overrun \subseteq Daemons
  /\ starts \in 0..MaxStarts
  /\ raced \in BOOLEAN

(* The path leads to the daemon that listens there, whoever starts, stops  *)
(* or crashes meanwhile: a start takes no path from a live daemon, unless  *)
(* that one bound its socket between the last look and the removal.        *)
UpIsReachable == ~raced => \A d \in listening : path = proc[d].run

(* What is at the path and is no socket stays there.                       *)
OtherKept == [][path = Other => path' = Other]_path

(* A daemon that has stopped, or whose start has failed, takes no more     *)
(* connections and runs no workers, unless its start went on regardless.   *)
StoppedHoldsNothing ==
  \A d \in Daemons :
    /\ proc[d].stop # "none" => d \notin listening /\ (d \notin serving \/ d \in overrun)
    /\ proc[d].stop = "done" => proc[d].service # "running"

(* A daemon that starts while no other one runs gets its socket, whatever  *)
(* socket file those before it have left.                                  *)
AloneStarts ==
  \A d \in Daemons :
    (proc[d].start = "binding" /\ path # Other) ~>
      \/ d \in listening \/ proc[d].start = "off"
      \/ \E e \in Daemons \ {d} : proc[e].start # "off"
=============================================================================
