-------------------------------- MODULE WebTrap --------------------------------
(***************************************************************************)
(* One process of WebTrap: the threads that serve requests, with the       *)
(* middleware, the recorder of events, its sessions and its forwarder, and *)
(* the shutdown by a signal (middleware.py, events.py, routes/,            *)
(* standalone.py, over SessionTracker and HoneyBeeForwarder).              *)
(*                                                                         *)
(* A route is what it does to the log: a "page" records nothing, a "trap"  *)
(* one event, the "canary" login two, an "upload" one for each file.  Any  *)
(* of them may raise.                                                      *)
(*                                                                         *)
(* An event is "filed" when the file was given it, whether the disk took it *)
(* or not, and "unfiled" when not.                                         *)
(*                                                                         *)
(* External: Flask, which answers an exception of a route with a page of   *)
(* its own and then calls after_request as ever; the disk.                 *)
(***************************************************************************)
EXTENDS SessionTracker, HoneyBeeForwarder

CONSTANTS
  MaxRequests,  \* bound of the model: requests
  MaxFiles,     \* bound of the model: files of an upload
  MaxTime,      \* bound of the model: ticks
  MaxSignals    \* bound of the model: signals

ASSUME WebTrapAssumption ==
  Event = {"filed", "unfiled"} /\ {MaxRequests, MaxFiles, MaxSignals} \subseteq Nat

VARIABLES
  requests,   \* the threads that serve them
  fh,         \* _fh: "open", "closed", or "none" without a file log
  main,       \* the main thread: "serve", or where the signal handler is
  signals     \* history: signals

webVars == <<requests, fh, main, signals>>
vars == <<now, trackerVars, forwarderVars, webVars>>

\* Requests are numbered in the order in which they come.
Request == 1 .. MaxRequests

Route == {"page", "trap", "canary", "upload"}

\* How many events a route records.
Records(route) ==
  CASE route = "page" -> {0}
    [] route = "trap" -> {1}
    [] route = "canary" -> {2}
    [] route = "upload" -> 0 .. MaxFiles

\* todo: events the route has yet to record; recorded: it has recorded one;
\* event: the one in the hands of record; last: that one is _after's.
NoRequest == [pc |-> "idle", route |-> "page", todo |-> 0, recorded |-> FALSE,
              handled |-> FALSE, event |-> None, last |-> FALSE]
Served == [NoRequest EXCEPT !.pc = "done"]

\* after_request comes next.  Of what the route did it knows g.handled.
Response(request) ==
  IF request.handled THEN [request EXCEPT !.pc = "after", !.todo = 0]
  ELSE [NoRequest EXCEPT !.pc = "after"]

Init ==
  /\ TrackerInit /\ ForwarderInit
  /\ requests = [r \in Request |-> NoRequest]
  /\ fh \in {"open", "none"}
  /\ main = "serve" /\ signals = 0

Serving(r, pc) == main # "exit" /\ requests[r].pc = pc

-----------------------------------------------------------------------------
(* The middleware and the routes.                                          *)

\* _before.
Before(r) ==
  /\ Serving(r, "idle") /\ (r > 1 => requests[r - 1].pc # "idle")
  /\ \E ip \in SourceIp, cookie \in Cookie \cup {NoCookie} : touch(ip, cookie)
  /\ \E route \in Route : \E n \in Records(route) :
       requests' = [requests EXCEPT ![r] =
         [@ EXCEPT !.pc = "run", !.route = route, !.todo = n]]
  /\ UNCHANGED <<now, forwarderVars, fh, main, signals>>

RequestStep == UNCHANGED <<now, trackerVars, forwarderVars, fh, main, signals>>

\* Mutant: a request that raises counts as handled.
RouteRaisesHandled(r) ==
  /\ Serving(r, "run")
  /\ requests' = [requests EXCEPT ![r] = Response([@ EXCEPT !.handled = TRUE])]
  /\ RequestStep

\* A route raises, before its first event or after some.
RouteRaises(r) ==
  /\ Serving(r, "run")
  /\ requests' = [requests EXCEPT ![r] = Response(@)]
  /\ RequestStep

\* It returns.  upload sets g.handled whether it got a file or not.
RouteReturns(r) ==
  /\ Serving(r, "run") /\ requests[r].todo = 0
  /\ LET request == requests[r]
     IN  requests' = [requests EXCEPT ![r] =
           Response([request EXCEPT !.handled = @ \/ request.route = "upload"])]
  /\ RequestStep

\* _after: what no route has recorded is recorded here.
After(r) ==
  /\ Serving(r, "after")
  /\ requests' = [requests EXCEPT ![r] =
       IF @.handled THEN Served ELSE [@ EXCEPT !.pc = "write", !.last = TRUE]]
  /\ RequestStep

-----------------------------------------------------------------------------
(* EventRecorder.record: the file first, then the forwarder.               *)

\* The route comes to its next event, or _after to the one it records.
Recording(r) ==
  \/ Serving(r, "run") /\ requests[r].todo > 0
  \/ Serving(r, "write")

\* The disk takes the line, or refuses it, which is noted and no more.
Writes(r) ==
  /\ Recording(r) /\ fh # "closed"
  /\ requests' = [requests EXCEPT ![r].pc = "send",
                    ![r].event = IF fh = "open" THEN "filed" ELSE "unfiled"]
  /\ RequestStep

\* Mutant: ValueError is caught as OSError is.
WriteRaisesCaught(r) ==
  /\ Recording(r) /\ fh = "closed"
  /\ requests' = [requests EXCEPT ![r].pc = "send", ![r].event = "unfiled"]
  /\ RequestStep

\* A file that was closed raises ValueError, which is not caught.  Of
\* after_request that is an exception as well, and the second time the last.
WriteRaises(r) ==
  /\ Recording(r) /\ fh = "closed"
  /\ requests' = [requests EXCEPT ![r] = IF @.last THEN Served ELSE Response(@)]
  /\ RequestStep

\* After the event the route goes on; all but upload set g.handled here.
Sends(r) ==
  /\ Serving(r, "send")
  /\ send(requests[r].event)
  /\ LET request == requests[r]
     IN  requests' = [requests EXCEPT ![r] =
           IF request.last THEN Served
           ELSE [request EXCEPT !.pc = "run", !.todo = @ - 1, !.recorded = TRUE, !.event = None,
                                !.handled = @ \/ request.route # "upload"]]
  /\ UNCHANGED <<now, trackerVars, fh, main, signals>>

-----------------------------------------------------------------------------
(* The main thread: _shutdown of standalone.py.                            *)

MainStep == UNCHANGED <<now, trackerVars, requests>>

\* A signal; another one may come while the first is handled.
Signal ==
  /\ main # "exit" /\ signals < MaxSignals
  /\ signals' = signals + 1
  /\ main' = "close"
  /\ UNCHANGED <<forwarderVars, fh>> /\ MainStep

\* EventRecorder.close: the file, without its lock.
ClosesFile ==
  /\ main = "close"
  /\ fh' = IF fh = "open" THEN "closed" ELSE fh
  /\ main' = "stop"
  /\ UNCHANGED <<forwarderVars, signals>> /\ MainStep

StopsForwarder ==
  /\ main = "stop"
  /\ stop
  /\ main' = "join"
  /\ UNCHANGED <<fh, signals>> /\ MainStep

\* join ends with the worker, or after two seconds, and the process with it.
Exits ==
  /\ main = "join"
  /\ main' = "exit"
  /\ requests' = [r \in Request |-> NoRequest]
  /\ sessions' = <<>> /\ by_cookie' = [c \in Cookie |-> 0] /\ by_ip' = [ip \in SourceIp |-> 0]
  /\ q' = <<>> /\ worker' = At("off")
  /\ UNCHANGED <<now, enabled, stop_set, fh, signals>>

Tick ==
  /\ now < MaxTime /\ main # "exit"
  /\ now' = now + 1
  /\ UNCHANGED <<trackerVars, forwarderVars, webVars>>

WorkerRuns ==
  /\ main # "exit" /\ Worker
  /\ UNCHANGED <<now, trackerVars, webVars>>

Next ==
  \/ \E r \in Request :
       \/ Before(r) \/ RouteRaises(r) \/ RouteReturns(r) \/ After(r)
       \/ Writes(r) \/ WriteRaises(r) \/ Sends(r)
  \/ Signal \/ ClosesFile \/ StopsForwarder \/ Exits
  \/ WorkerRuns
  \/ Tick

Spec == Init /\ [][Next]_vars

\* The worker goes on, as get and _deliver have their timeouts; nothing is
\* assumed of requests, of signals or of the node.
FairSpec == Spec /\ WF_vars(WorkerRuns)

-----------------------------------------------------------------------------
(* Properties.                                                             *)

\* The type of every variable; the queue never holds more than max_queue.
TypeOK ==
  /\ TrackerTypeOK /\ ForwarderTypeOK
  /\ \A r \in Request :
       /\ requests[r].pc \in {"idle", "run", "write", "send", "after", "done"}
       /\ requests[r].todo \in 0 .. MaxFiles + 2 /\ requests[r].recorded \in BOOLEAN
       /\ requests[r].pc = "send" <=> requests[r].event # None
  /\ fh \in {"open", "closed", "none"}
  /\ main \in {"serve", "close", "stop", "join", "exit"} /\ signals \in 0 .. MaxSignals

\* "Local file log first (durable) then forward": with threads, signals and
\* failures in any order, nothing is queued for the node, or sent to it, that
\* the file was not given before.
LoggedBeforeForwarded ==
  fh # "none" => "unfiled" \notin {worker.event} \cup ToSet(q)

\* "The middleware logs every request": however routes raise, a request that
\* is done has given the file an event, its own or that of after_request;
\* except that one whose write comes after the shutdown has closed the file
\* is lost, and an upload without a file is not recorded.
ServedRequestsAreRecorded ==
  [][\A r \in Request :
       requests[r].pc # "done" /\ requests'[r].pc = "done" =>
         \/ requests[r].recorded \/ requests[r].pc = "send"
         \/ requests[r].last /\ fh = "closed"
         \/ requests[r].route = "upload"]_vars

\* stop ends the worker, although a full queue drops what is to wake it.
WorkerStops ==
  main = "join" ~> (worker.pc \in {"done", "off"} \/ main = "exit")
=============================================================================
