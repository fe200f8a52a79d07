----------------------------- MODULE WebTrapProofs -----------------------------
(***************************************************************************)
(* Theorems about WebTrap, for any number of requests, files and signals,  *)
(* any queue length, addresses, cookies and time to live.                  *)
(***************************************************************************)
EXTENDS WebTrap, TLAPS

Pc == {"idle", "run", "write", "send", "after", "done"}
WorkerPc == {"off", "check", "get", "deliver", "done"}
RequestRecord == [pc : Pc, route : Route, todo : Int, recorded : BOOLEAN,
                  handled : BOOLEAN, event : Event \cup {None}, last : BOOLEAN]
SessionRecord == [session_id : [cookie : Cookie \cup {NoCookie}, uuid : Nat],
                  last_seen : Nat, request_count : Nat \ {0}]
-----------------------------------------------------------------------------
(* One session for each id.                                                *)

(* The tables refer to sessions; an id is a cookie or the number of its    *)
(* session; a cookie's entry is a session of that cookie, and a session of  *)
(* a cookie that any table holds is that entry: _gc drops it from both or  *)
(* from neither, as staleness is the session's.                            *)
SessionsTyped ==
  /\ now \in Nat
  /\ sessions \in Seq(SessionRecord)
  /\ by_cookie \in [Cookie -> 0 .. Len(sessions)]
  /\ by_ip \in [SourceIp -> 0 .. Len(sessions)]
IdOf(n) == sessions[n].session_id
IdsAreCookiesOrNumbers ==
  \A n \in 1 .. Len(sessions) : IdOf(n).uuid = IF IdOf(n).cookie = NoCookie THEN n ELSE 0
EntriesHaveTheirCookie ==
  \A c \in Cookie : by_cookie[c] # 0 => IdOf(by_cookie[c]).cookie = c
AddressesAgree ==
  \A ip \in SourceIp :
    by_ip[ip] # 0 /\ IdOf(by_ip[ip]).cookie # NoCookie
      => by_cookie[IdOf(by_ip[ip]).cookie] = by_ip[ip]
SessionInv ==
  SessionsTyped /\ IdsAreCookiesOrNumbers /\ EntriesHaveTheirCookie /\ AddressesAgree

LEMMA SessionInvImplies == SessionInv => OneSessionPerId
<1> SUFFICES ASSUME SessionInv, NEW m \in Held \ {0}, NEW n \in Held \ {0},
                    IdOf(m) = IdOf(n)
             PROVE  m = n
  BY DEF OneSessionPerId, IdOf
<1>1. ASSUME NEW k \in Held \ {0}
      PROVE  /\ k \in 1 .. Len(sessions)
             /\ IdOf(k).cookie # NoCookie => by_cookie[IdOf(k).cookie] = k
  BY <1>1 DEF SessionInv, SessionsTyped, Held, EntriesHaveTheirCookie, AddressesAgree
<1>2. CASE IdOf(m).cookie = NoCookie
  BY <1>1, <1>2 DEF SessionInv, IdsAreCookiesOrNumbers
<1>3. CASE IdOf(m).cookie # NoCookie
  BY <1>1, <1>3
<1> QED BY <1>2, <1>3

LEMMA SessionInvInit == Init => SessionInv
BY DEF Init, TrackerInit, SessionInv, SessionsTyped, IdsAreCookiesOrNumbers,
       EntriesHaveTheirCookie, AddressesAgree

(* _gc empties entries only, and those of stale sessions in both tables.   *)
LEMMA GcKeepsTables ==
  ASSUME SessionInv
  PROVE  /\ _gc(by_cookie) \in [Cookie -> 0 .. Len(sessions)]
         /\ _gc(by_ip) \in [SourceIp -> 0 .. Len(sessions)]
         /\ \A c \in Cookie : _gc(by_cookie)[c] # 0 => IdOf(_gc(by_cookie)[c]).cookie = c
         /\ \A ip \in SourceIp :
              _gc(by_ip)[ip] # 0 /\ IdOf(_gc(by_ip)[ip]).cookie # NoCookie
                => _gc(by_cookie)[IdOf(_gc(by_ip)[ip]).cookie] = _gc(by_ip)[ip]
<1>1. /\ by_cookie \in [Cookie -> 0 .. Len(sessions)] /\ by_ip \in [SourceIp -> 0 .. Len(sessions)]
      /\ Len(sessions) \in Nat
  BY DEF SessionInv, SessionsTyped
<1>2. \A c \in Cookie : _gc(by_cookie)[c] \in {0, by_cookie[c]}
  BY <1>1 DEF _gc
<1>3. \A ip \in SourceIp : _gc(by_ip)[ip] \in {0, by_ip[ip]}
  BY <1>1 DEF _gc
<1>4. /\ _gc(by_cookie) = [c \in Cookie |-> _gc(by_cookie)[c]]
      /\ _gc(by_ip) = [ip \in SourceIp |-> _gc(by_ip)[ip]]
  BY <1>1 DEF _gc
<1>5. \A c \in Cookie : _gc(by_cookie)[c] # 0 => IdOf(_gc(by_cookie)[c]).cookie = c
  BY <1>2 DEF SessionInv, EntriesHaveTheirCookie
<1>6. ASSUME NEW ip \in SourceIp, _gc(by_ip)[ip] # 0, IdOf(_gc(by_ip)[ip]).cookie # NoCookie
      PROVE  _gc(by_cookie)[IdOf(_gc(by_ip)[ip]).cookie] = _gc(by_ip)[ip]
  <2>1. by_ip[ip] # 0 /\ _gc(by_ip)[ip] = by_ip[ip] /\ ~Stale(by_ip[ip])
    BY <1>1, <1>6 DEF _gc
  <2> DEFINE c == IdOf(by_ip[ip]).cookie
  <2>2. c \in Cookie
    <3>1. by_ip[ip] \in 1 .. Len(sessions)
      BY <1>1, <2>1
    <3>2. sessions[by_ip[ip]] \in SessionRecord
      BY <3>1 DEF SessionInv, SessionsTyped
    <3> QED BY <2>1, <1>6, <3>2 DEF SessionRecord, IdOf
  <2>3. by_cookie[c] = by_ip[ip]
    BY <2>1, <1>6 DEF SessionInv, AddressesAgree
  <2>4. _gc(by_cookie)[c] = by_cookie[c]
    BY <1>1, <2>1, <2>2, <2>3 DEF _gc
  <2> QED BY <2>1, <2>3, <2>4
<1> QED BY <1>1, <1>2, <1>3, <1>4, <1>5, <1>6

(* A session that is found keeps its id, and is entered nowhere.           *)
LEMMA FoundKeeps ==
  ASSUME SessionInv, now' = now, by_cookie' = _gc(by_cookie), by_ip' = _gc(by_ip),
         NEW found \in 1 .. Len(sessions),
         sessions' = [sessions EXCEPT ![found].last_seen = now, ![found].request_count = @ + 1]
  PROVE  SessionInv'
<1>1. /\ sessions \in Seq(SessionRecord) /\ now \in Nat /\ sessions[found] \in SessionRecord
      /\ Len(sessions) \in Nat
  BY DEF SessionInv, SessionsTyped
<1> DEFINE s == [sessions[found] EXCEPT !.last_seen = now, !.request_count = @ + 1]
<1>2. s \in SessionRecord /\ s.session_id = sessions[found].session_id
  <2> DEFINE old == sessions[found]
             seenNow == [old EXCEPT !.last_seen = now]
  <2>1. old.request_count \in Nat \ {0}
    BY <1>1 DEF SessionRecord
  <2>2. old.request_count + 1 \in Nat \ {0}
    BY <2>1
  <2>3. seenNow \in SessionRecord /\ seenNow.session_id = old.session_id
    BY <1>1 DEF SessionRecord
  <2>4. s = [seenNow EXCEPT !.request_count = old.request_count + 1]
    BY <1>1 DEF SessionRecord
  <2> HIDE DEF s, seenNow
  <2> QED BY <2>2, <2>3, <2>4 DEF SessionRecord
<1>3. sessions' = [sessions EXCEPT ![found] = s]
  BY <1>1 DEF SessionRecord
<1>4. /\ sessions' \in Seq(SessionRecord) /\ Len(sessions') = Len(sessions)
      /\ \A n \in 1 .. Len(sessions) : IdOf(n)' = IdOf(n)
  BY <1>1, <1>2, <1>3 DEF IdOf
<1>5. SessionsTyped'
  BY <1>1, <1>4, GcKeepsTables DEF SessionsTyped
<1>6. IdsAreCookiesOrNumbers'
  BY <1>4 DEF SessionInv, IdsAreCookiesOrNumbers
<1> HIDE DEF s
<1>7. EntriesHaveTheirCookie'
  <2>1. ASSUME NEW c \in Cookie, by_cookie'[c] # 0
        PROVE  IdOf(by_cookie[c])'.cookie = c
    <3>1. by_cookie'[c] = _gc(by_cookie)[c] /\ by_cookie'[c] \in 1 .. Len(sessions)
      BY <1>1, <2>1, GcKeepsTables
    <3>2. IdOf(by_cookie[c])' = IdOf(_gc(by_cookie)[c])
      BY <3>1, <1>4 DEF IdOf
    <3> QED BY <3>1, <3>2, <2>1, GcKeepsTables
  <2> QED BY <2>1 DEF EntriesHaveTheirCookie
<1>8. AddressesAgree'
  <2>1. ASSUME NEW a \in SourceIp, by_ip'[a] # 0, IdOf(by_ip[a])'.cookie # NoCookie
        PROVE  by_cookie'[IdOf(by_ip[a])'.cookie] = by_ip'[a]
    <3>1. by_ip'[a] = _gc(by_ip)[a] /\ by_ip'[a] \in 1 .. Len(sessions)
      BY <1>1, <2>1, GcKeepsTables
    <3>2. IdOf(by_ip[a])' = IdOf(_gc(by_ip)[a])
      BY <3>1, <1>4 DEF IdOf
    <3> QED BY <3>1, <3>2, <2>1, GcKeepsTables
  <2> QED BY <2>1 DEF AddressesAgree
<1> QED BY <1>5, <1>6, <1>7, <1>8 DEF SessionInv

(* A new session is entered under its address and its cookie, which had    *)
(* no session left.                                                        *)
LEMMA MadeKeeps ==
  ASSUME SessionInv, now' = now, NEW ip \in SourceIp, NEW cookie \in Cookie \cup {NoCookie},
         cookie \in Cookie => _gc(by_cookie)[cookie] = 0,
         NEW made, made = Len(sessions) + 1,
         sessions' = Append(sessions,
           [session_id |-> SessionId(made, cookie), last_seen |-> now, request_count |-> 1]),
         by_cookie' = [c \in Cookie |-> IF c = cookie THEN made ELSE _gc(by_cookie)[c]],
         by_ip' = [_gc(by_ip) EXCEPT ![ip] = made]
  PROVE  SessionInv'
<1>1. sessions \in Seq(SessionRecord) /\ now \in Nat /\ Len(sessions) \in Nat
  BY DEF SessionInv, SessionsTyped
<1> DEFINE s == [session_id |-> SessionId(made, cookie), last_seen |-> now, request_count |-> 1]
<1>2. /\ SessionId(made, cookie) \in [cookie : Cookie \cup {NoCookie}, uuid : Nat]
      /\ SessionId(made, cookie).cookie = cookie
      /\ SessionId(made, cookie).uuid = IF cookie = NoCookie THEN made ELSE 0
  BY <1>1 DEF SessionId
<1>3. s \in SessionRecord /\ s.session_id = SessionId(made, cookie)
  BY <1>1, <1>2 DEF SessionRecord
<1>4. /\ sessions' \in Seq(SessionRecord) /\ Len(sessions') = made
      /\ \A n \in 1 .. Len(sessions) : IdOf(n)' = IdOf(n)
      /\ IdOf(made)' = SessionId(made, cookie)
  BY <1>1, <1>3 DEF IdOf
<1> HIDE DEF s
<1>5. SessionsTyped'
  BY <1>1, <1>4, GcKeepsTables DEF SessionsTyped
<1>6. IdsAreCookiesOrNumbers'
  BY <1>1, <1>2, <1>4 DEF SessionInv, IdsAreCookiesOrNumbers
<1>7. EntriesHaveTheirCookie'
  BY <1>1, <1>2, <1>4, GcKeepsTables DEF EntriesHaveTheirCookie
<1>8. ASSUME NEW a \in SourceIp, by_ip'[a] # 0, IdOf(by_ip[a])'.cookie # NoCookie
      PROVE  by_cookie'[IdOf(by_ip[a])'.cookie] = by_ip'[a]
  <2>1. CASE a = ip
    <3>1. by_ip'[a] = made
      BY <2>1, GcKeepsTables
    <3>2. IdOf(by_ip[a])'.cookie = cookie
      BY <3>1, <1>2, <1>4 DEF IdOf
    <3> QED BY <3>1, <3>2, <1>8
  <2>2. CASE a # ip
    <3>1. by_ip'[a] = _gc(by_ip)[a] /\ by_ip'[a] \in 1 .. Len(sessions)
      BY <2>2, <1>8, GcKeepsTables
    <3>2. IdOf(by_ip[a])' = IdOf(_gc(by_ip)[a])
      BY <3>1, <1>4 DEF IdOf
    <3> DEFINE c == IdOf(_gc(by_ip)[a]).cookie
    <3>3. sessions[_gc(by_ip)[a]] \in SessionRecord
      BY <1>1, <3>1
    <3>4. c \in Cookie
      BY <3>2, <3>3, <1>8 DEF SessionRecord, IdOf
    <3>5. _gc(by_cookie)[c] = _gc(by_ip)[a]
      BY <3>1, <3>2, <1>8, GcKeepsTables
    <3>6. c # cookie
      BY <3>1, <3>4, <3>5
    <3> QED BY <3>1, <3>2, <3>4, <3>5, <3>6
  <2> QED BY <2>1, <2>2
<1>9. AddressesAgree'
  BY <1>8 DEF AddressesAgree
<1> QED BY <1>5, <1>6, <1>7, <1>9 DEF SessionInv

LEMMA TouchKeeps ==
  ASSUME SessionInv, now' = now, NEW ip \in SourceIp, NEW cookie \in Cookie \cup {NoCookie},
         touch(ip, cookie)
  PROVE  SessionInv'
<1> DEFINE found == FoundSession(_gc(by_cookie), _gc(by_ip), ip, cookie)
           made == Len(sessions) + 1
<1>1. found \in 0 .. Len(sessions)
  BY GcKeepsTables DEF FoundSession
<1>2. CASE found # 0
  <2>1. /\ by_cookie' = _gc(by_cookie) /\ by_ip' = _gc(by_ip)
        /\ sessions' = [sessions EXCEPT ![found].last_seen = now, ![found].request_count = @ + 1]
    BY <1>2 DEF touch
  <2>2. found \in 1 .. Len(sessions)
    BY <1>1, <1>2
  <2> HIDE DEF found
  <2> QED BY <2>1, <2>2, FoundKeeps
<1>3. CASE found = 0
  <2>1. /\ sessions' = Append(sessions,
             [session_id |-> SessionId(made, cookie), last_seen |-> now, request_count |-> 1])
        /\ by_cookie' = [c \in Cookie |-> IF c = cookie THEN made ELSE _gc(by_cookie)[c]]
        /\ by_ip' = [_gc(by_ip) EXCEPT ![ip] = made]
    BY <1>3 DEF touch
  <2>2. cookie \in Cookie => _gc(by_cookie)[cookie] = 0
    BY <1>3 DEF FoundSession
  <2> QED BY <2>1, <2>2, MadeKeeps
<1> QED BY <1>2, <1>3

LEMMA SessionInvUntouched ==
  ASSUME SessionInv, UNCHANGED <<now, trackerVars>>
  PROVE  SessionInv'
BY DEF SessionInv, SessionsTyped, IdsAreCookiesOrNumbers, EntriesHaveTheirCookie,
       AddressesAgree, IdOf, trackerVars

LEMMA SessionInvNext == SessionInv /\ [Next]_vars => SessionInv'
<1> SUFFICES ASSUME SessionInv, [Next]_vars PROVE SessionInv'
  OBVIOUS
<1>1. ASSUME NEW r \in Request, Before(r) PROVE SessionInv'
  <2>1. now' = now
    BY <1>1 DEF Before
  <2>2. PICK ip \in SourceIp, cookie \in Cookie \cup {NoCookie} : touch(ip, cookie)
    BY <1>1 DEF Before
  <2> QED BY <2>1, <2>2, TouchKeeps
<1>2. ASSUME NEW r \in Request,
             RouteRaises(r) \/ RouteReturns(r) \/ After(r) \/ Writes(r) \/ WriteRaises(r) \/ Sends(r)
      PROVE  SessionInv'
  <2>1. UNCHANGED <<now, trackerVars>>
    BY <1>2 DEF RouteRaises, RouteReturns, After, Writes, WriteRaises, Sends, RequestStep
  <2> QED BY <2>1, SessionInvUntouched
<1>3. CASE Signal \/ ClosesFile \/ StopsForwarder \/ WorkerRuns \/ UNCHANGED vars
  <2>1. UNCHANGED <<now, trackerVars>>
    BY <1>3 DEF Signal, ClosesFile, StopsForwarder, WorkerRuns, MainStep, vars
  <2> QED BY <2>1, SessionInvUntouched
<1>4. CASE Exits
  BY <1>4 DEF Exits, SessionInv, SessionsTyped, IdsAreCookiesOrNumbers, EntriesHaveTheirCookie,
              AddressesAgree
<1>5. CASE Tick
  BY <1>5 DEF Tick, SessionInv, SessionsTyped, IdsAreCookiesOrNumbers, EntriesHaveTheirCookie,
              AddressesAgree, IdOf, trackerVars
<1> QED BY <1>1, <1>2, <1>3, <1>4, <1>5 DEF Next

(* What one cookie did is one session (session.py, touch and _gc), however *)
(* many addresses use it, whatever expires and whenever the process exits. *)
THEOREM WebTrapOneSessionPerId == Spec => []OneSessionPerId
<1>1. SessionInv /\ [Next]_vars => SessionInv'
  BY SessionInvNext
<1> QED BY <1>1, SessionInvInit, SessionInvImplies, PTL DEF Spec
-----------------------------------------------------------------------------
(* The file before the node.                                               *)

(* With a file log, what threads, queue and worker hold was filed.         *)
RequestsTyped == requests \in [Request -> RequestRecord]
FileTyped == fh \in {"open", "closed", "none"}
QueueTyped == q \in Seq(Event \cup {None}) /\ worker \in [pc : WorkerPc, event : Event \cup {None}]
Filed(event) == event # "unfiled"
LogInv ==
  /\ RequestsTyped /\ QueueTyped /\ FileTyped
  /\ fh # "none" => /\ \A r \in Request : Filed(requests[r].event)
                    /\ \A i \in DOMAIN q : Filed(q[i])
                    /\ Filed(worker.event)

LEMMA LogInvImplies == LogInv => LoggedBeforeForwarded
BY DEF LogInv, QueueTyped, Filed, LoggedBeforeForwarded, ToSet

LEMMA NoRequestTyped == NoRequest \in RequestRecord /\ NoRequest.event = None
BY DEF NoRequest, RequestRecord, Pc, Route

LEMMA LogInvInit == Init => LogInv
<1> SUFFICES ASSUME Init PROVE LogInv
  OBVIOUS
<1> QED
  BY NoRequestTyped DEF Init, ForwarderInit, At, None, WorkerPc, LogInv, RequestsTyped, QueueTyped, FileTyped, Filed

(* The thread of one request goes on, and nothing else does.               *)
LEMMA RequestKeepsLog ==
  ASSUME LogInv, NEW r \in Request, NEW request \in RequestRecord,
         fh # "none" => Filed(request.event),
         requests' = [requests EXCEPT ![r] = request], UNCHANGED <<forwarderVars, fh>>
  PROVE  LogInv'
<1>1. RequestsTyped'
  BY DEF LogInv, RequestsTyped
<1>2. QueueTyped'
  BY DEF LogInv, QueueTyped, forwarderVars
<1>3. \A t \in Request : requests'[t] = IF t = r THEN request ELSE requests[t]
  BY DEF LogInv, RequestsTyped
<1>4. ASSUME fh # "none", NEW t \in Request PROVE Filed(requests'[t].event)
  BY <1>3, <1>4 DEF LogInv
<1> QED BY <1>1, <1>2, <1>4 DEF LogInv, FileTyped, forwarderVars

LEMMA ResponseTyped ==
  ASSUME NEW request \in RequestRecord
  PROVE  Response(request) \in RequestRecord /\ Response(request).event \in {request.event, None}
<1> DEFINE kept == [request EXCEPT !.pc = "after", !.todo = 0]
           dropped == [NoRequest EXCEPT !.pc = "after"]
<1>1. kept \in RequestRecord
  <2> DEFINE after == [request EXCEPT !.pc = "after"]
  <2>1. after \in RequestRecord
    BY DEF RequestRecord, Pc
  <2>2. kept = [after EXCEPT !.todo = 0]
    BY DEF RequestRecord
  <2> HIDE DEF after, kept
  <2>3. [after EXCEPT !.todo = 0] \in RequestRecord
    BY <2>1 DEF RequestRecord
  <2> QED BY <2>2, <2>3
<1>2. kept.event = request.event
  BY DEF RequestRecord
<1>3. dropped \in RequestRecord
  BY NoRequestTyped DEF RequestRecord, Pc
<1>4. dropped.event = None
  BY NoRequestTyped DEF RequestRecord
<1> QED BY <1>1, <1>2, <1>3, <1>4 DEF Response

LEMMA ServedTyped == Served \in RequestRecord /\ Served.event = None
<1>1. Served \in RequestRecord
  BY NoRequestTyped DEF Served, RequestRecord, Pc
<1>2. Served.event = None
  BY NoRequestTyped DEF Served, RequestRecord
<1> QED BY <1>1, <1>2

LEMMA NoneIsFiled == Filed(None)
BY DEF Filed, None

LEMMA RouteKeepsLog ==
  ASSUME LogInv, NEW r \in Request,
         Before(r) \/ RouteRaises(r) \/ RouteReturns(r) \/ After(r) \/ WriteRaises(r)
  PROVE  LogInv'
<1> DEFINE old == requests[r]
<1>1. old \in RequestRecord /\ (fh # "none" => Filed(old.event))
  BY DEF LogInv, RequestsTyped
<1>2. UNCHANGED <<forwarderVars, fh>>
  BY DEF Before, RouteRaises, RouteReturns, After, WriteRaises, RequestStep
<1>3. CASE Before(r)
  <2>1. PICK route \in Route : \E n \in Records(route) :
          requests' = [requests EXCEPT ![r] = [@ EXCEPT !.pc = "run", !.route = route, !.todo = n]]
    BY <1>3 DEF Before
  <2>2. PICK n \in Records(route) :
          requests' = [requests EXCEPT ![r] = [@ EXCEPT !.pc = "run", !.route = route, !.todo = n]]
    BY <2>1
  <2> DEFINE new == [old EXCEPT !.pc = "run", !.route = route, !.todo = n]
  <2>3. n \in Int
    BY <2>2, WebTrapAssumption DEF Records, Route
  <2>4. new \in RequestRecord /\ new.event = old.event
    BY <1>1, <2>3 DEF RequestRecord, Pc
  <2>5. requests' = [requests EXCEPT ![r] = new]
    BY <2>2
  <2> HIDE DEF new, old
  <2> QED BY <1>1, <1>2, <2>4, <2>5, RequestKeepsLog
<1>4. CASE RouteRaises(r)
  <2>1. requests' = [requests EXCEPT ![r] = Response(old)]
    BY <1>4 DEF RouteRaises
  <2> HIDE DEF old
  <2> QED BY <1>1, <1>2, <2>1, ResponseTyped, NoneIsFiled, RequestKeepsLog
<1>5. CASE RouteReturns(r)
  <2> DEFINE new == [old EXCEPT !.handled = @ \/ old.route = "upload"]
  <2>1. new \in RequestRecord /\ new.event = old.event
    BY <1>1 DEF RequestRecord
  <2>2. requests' = [requests EXCEPT ![r] = Response(new)]
    BY <1>5 DEF RouteReturns
  <2> HIDE DEF new, old
  <2> QED BY <1>1, <1>2, <2>1, <2>2, ResponseTyped, NoneIsFiled, RequestKeepsLog
<1>6. CASE After(r)
  <2> DEFINE new == IF old.handled THEN Served ELSE [old EXCEPT !.pc = "write", !.last = TRUE]
  <2>1. /\ [old EXCEPT !.pc = "write", !.last = TRUE] \in RequestRecord
        /\ [old EXCEPT !.pc = "write", !.last = TRUE].event = old.event
    BY <1>1 DEF RequestRecord, Pc
  <2>2. new \in RequestRecord /\ new.event \in {old.event, None}
    BY <2>1, ServedTyped
  <2>3. requests' = [requests EXCEPT ![r] = new]
    BY <1>6 DEF After
  <2> HIDE DEF new, old
  <2> QED BY <1>1, <1>2, <2>2, <2>3, NoneIsFiled, RequestKeepsLog
<1>7. CASE WriteRaises(r)
  <2> DEFINE new == IF old.last THEN Served ELSE Response(old)
  <2>1. new \in RequestRecord /\ new.event \in {old.event, None}
    BY <1>1, ServedTyped, ResponseTyped
  <2>2. requests' = [requests EXCEPT ![r] = new]
    BY <1>7 DEF WriteRaises
  <2> HIDE DEF new, old
  <2> QED BY <1>1, <1>2, <2>1, <2>2, NoneIsFiled, RequestKeepsLog
<1> QED BY <1>3, <1>4, <1>5, <1>6, <1>7

(* record writes first: only without a file log is the event unfiled.      *)
LEMMA WritesKeepsLog ==
  ASSUME LogInv, NEW r \in Request, Writes(r)
  PROVE  LogInv'
<1> DEFINE old == requests[r]
           event == IF fh = "open" THEN "filed" ELSE "unfiled"
           new == [old EXCEPT !.pc = "send", !.event = event]
<1>1. old \in RequestRecord
  BY DEF LogInv, RequestsTyped
<1>2. event \in Event /\ (fh # "none" => Filed(event))
  BY WebTrapAssumption DEF Writes, LogInv, FileTyped, Filed
<1>3. new \in RequestRecord /\ new.event = event
  BY <1>1, <1>2 DEF RequestRecord, Pc
<1>4. requests' = [requests EXCEPT ![r] = new]
  <2>1. requests' = [requests EXCEPT ![r].pc = "send", ![r].event = event]
    BY DEF Writes
  <2> QED BY <2>1, <1>1 DEF LogInv, RequestsTyped
<1>5. UNCHANGED <<forwarderVars, fh>>
  BY DEF Writes, RequestStep
<1> HIDE DEF new, event
<1> QED BY <1>2, <1>3, <1>4, <1>5, RequestKeepsLog

(* What the queue is given is an event that was filed, or None.            *)
LEMMA PutKeepsQueue ==
  ASSUME q \in Seq(Event \cup {None}), NEW item \in Event \cup {None}, Put(item)
  PROVE  /\ q' \in Seq(Event \cup {None})
         /\ \A i \in DOMAIN q' : q'[i] = item \/ (i \in DOMAIN q /\ q'[i] = q[i])
BY DEF Put

LEMMA SendsKeepsLog ==
  ASSUME LogInv, NEW r \in Request, Sends(r)
  PROVE  LogInv'
<1> DEFINE old == requests[r]
           next == [old EXCEPT !.pc = "run", !.todo = @ - 1, !.recorded = TRUE, !.event = None,
                               !.handled = @ \/ old.route # "upload"]
           new == IF old.last THEN Served ELSE next
<1>1. old \in RequestRecord /\ old.event \in Event \cup {None} /\ (fh # "none" => Filed(old.event))
  BY DEF LogInv, RequestsTyped, RequestRecord
<1>2. next \in RequestRecord
  <2> DEFINE a == [old EXCEPT !.pc = "run", !.todo = @ - 1]
             b == [a EXCEPT !.recorded = TRUE, !.event = None]
  <2>1. a \in RequestRecord
    <3> DEFINE less == [old EXCEPT !.todo = @ - 1]
    <3>1. less \in RequestRecord
      BY <1>1 DEF RequestRecord
    <3>2. a = [less EXCEPT !.pc = "run"]
      BY <1>1 DEF RequestRecord
    <3> HIDE DEF less, a
    <3> QED BY <3>1, <3>2 DEF RequestRecord, Pc
  <2>2. next = [b EXCEPT !.handled = old.handled \/ old.route # "upload"]
    BY <1>1 DEF RequestRecord
  <2> HIDE DEF a, next
  <2>3. b \in RequestRecord
    BY <2>1 DEF RequestRecord
  <2>4. (old.handled \/ old.route # "upload") \in BOOLEAN
    OBVIOUS
  <2> HIDE DEF b
  <2> QED BY <2>2, <2>3, <2>4 DEF RequestRecord
<1>3. next.event = None
  BY <1>1 DEF RequestRecord
<1>4. requests' = [requests EXCEPT ![r] = new]
  BY DEF Sends
<1> HIDE DEF next
<1>5. new \in RequestRecord /\ new.event = None
  BY <1>2, <1>3, ServedTyped
<1>6. UNCHANGED <<fh, worker>>
  BY DEF Sends, send
<1>7. /\ q' \in Seq(Event \cup {None})
      /\ \A i \in DOMAIN q' : q'[i] = old.event \/ (i \in DOMAIN q /\ q'[i] = q[i])
  <2>1. q \in Seq(Event \cup {None})
    BY DEF LogInv, QueueTyped
  <2>2. Put(old.event) \/ q' = q
    BY DEF Sends, send
  <2> HIDE DEF old
  <2> QED BY <2>1, <2>2, <1>1, PutKeepsQueue
<1> HIDE DEF new, old
<1>8. RequestsTyped' /\ QueueTyped' /\ FileTyped'
  BY <1>4, <1>5, <1>6, <1>7 DEF LogInv, RequestsTyped, QueueTyped, FileTyped
<1>9. ASSUME fh # "none", NEW t \in Request PROVE Filed(requests'[t].event)
  BY <1>4, <1>5, <1>9, NoneIsFiled DEF LogInv, RequestsTyped
<1>10. ASSUME fh # "none", NEW i \in DOMAIN q' PROVE Filed(q'[i])
  BY <1>1, <1>7, <1>10 DEF LogInv
<1> QED BY <1>6, <1>8, <1>9, <1>10 DEF LogInv

LEMMA WorkerKeepsLog ==
  ASSUME LogInv, WorkerRuns
  PROVE  LogInv'
<1>1. UNCHANGED <<requests, fh>>
  BY DEF WorkerRuns, webVars
<1>2. /\ q \in Seq(Event \cup {None}) /\ worker.event \in Event \cup {None}
  BY DEF LogInv, QueueTyped
<1>3. CASE q' = q /\ worker' \in {At("get"), At("check"), At("done")}
  BY <1>1, <1>3, NoneIsFiled DEF LogInv, RequestsTyped, QueueTyped, FileTyped, At, WorkerPc
<1>4. CASE q # <<>> /\ q' = Tail(q)
           /\ worker' \in {At("done"), [pc |-> "deliver", event |-> Head(q)]}
  <2>1. Head(q) = q[1] /\ 1 \in DOMAIN q /\ Head(q) \in Event \cup {None}
    BY <1>2, <1>4
  <2>2. \A i \in DOMAIN Tail(q) : i + 1 \in DOMAIN q /\ Tail(q)[i] = q[i + 1]
    BY <1>2, <1>4
  <2>3. /\ worker' \in [pc : WorkerPc, event : Event \cup {None}]
        /\ worker'.event \in {None, q[1]}
    BY <1>4, <2>1 DEF At, WorkerPc
  <2>4. QueueTyped'
    BY <1>2, <1>4, <2>3 DEF QueueTyped
  <2>5. ASSUME fh # "none" PROVE Filed(worker'.event) /\ \A i \in DOMAIN q' : Filed(q'[i])
    BY <1>4, <2>1, <2>2, <2>3, <2>5, NoneIsFiled DEF LogInv
  <2> QED BY <1>1, <2>4, <2>5 DEF LogInv, RequestsTyped, FileTyped
<1> QED
  BY <1>3, <1>4 DEF WorkerRuns, Worker, WorkerChecks, WorkerTakes, WorkerFindsNothing, Delivers

LEMMA ShutdownKeepsLog ==
  ASSUME LogInv, Signal \/ ClosesFile \/ StopsForwarder \/ Exits
  PROVE  LogInv'
<1>1. CASE Signal \/ ClosesFile
  <2>1. UNCHANGED <<requests, q, worker>> /\ fh' \in {"open", "closed", "none"} /\ (fh' = "none" <=> fh = "none")
    BY <1>1 DEF Signal, ClosesFile, MainStep, forwarderVars, LogInv, FileTyped
  <2> QED BY <2>1 DEF LogInv, RequestsTyped, QueueTyped, FileTyped
<1>2. CASE StopsForwarder
  <2>1. UNCHANGED <<requests, worker, fh>> /\ Put(None)
    BY <1>2 DEF StopsForwarder, stop, MainStep
  <2>2. /\ q' \in Seq(Event \cup {None})
        /\ \A i \in DOMAIN q' : q'[i] = None \/ (i \in DOMAIN q /\ q'[i] = q[i])
    BY <2>1, PutKeepsQueue DEF LogInv, QueueTyped
  <2> QED
    BY <2>1, <2>2, NoneIsFiled DEF LogInv, RequestsTyped, QueueTyped, FileTyped
<1>3. CASE Exits
  <2>1. /\ requests' = [r \in Request |-> NoRequest] /\ q' = <<>> /\ worker' = At("off") /\ fh' = fh
    BY <1>3 DEF Exits
  <2> QED
    BY <2>1, NoRequestTyped, NoneIsFiled
    DEF LogInv, RequestsTyped, QueueTyped, FileTyped, At, WorkerPc
<1> QED BY <1>1, <1>2, <1>3

LEMMA LogInvNext == LogInv /\ [Next]_vars => LogInv'
<1> SUFFICES ASSUME LogInv, [Next]_vars PROVE LogInv'
  OBVIOUS
<1>1. ASSUME NEW r \in Request,
             \/ Before(r) \/ RouteRaises(r) \/ RouteReturns(r) \/ After(r)
             \/ Writes(r) \/ WriteRaises(r) \/ Sends(r)
      PROVE  LogInv'
  BY <1>1, RouteKeepsLog, WritesKeepsLog, SendsKeepsLog
<1>2. CASE Signal \/ ClosesFile \/ StopsForwarder \/ Exits
  BY <1>2, ShutdownKeepsLog
<1>3. CASE WorkerRuns
  BY <1>3, WorkerKeepsLog
<1>4. CASE Tick \/ UNCHANGED vars
  <2>1. UNCHANGED <<requests, q, worker, fh>>
    BY <1>4 DEF Tick, vars, forwarderVars, webVars
  <2> QED BY <2>1 DEF LogInv, RequestsTyped, QueueTyped, FileTyped
<1> QED BY <1>1, <1>2, <1>3, <1>4 DEF Next

(* "Local file log first (durable) then forward" (events.py, record), for  *)
(* any number of request threads, signals and lost events.                 *)
THEOREM WebTrapLoggedBeforeForwarded == Spec => []LoggedBeforeForwarded
<1>1. LogInv /\ [Next]_vars => LogInv'
  BY LogInvNext
<1> QED BY <1>1, LogInvInit, LogInvImplies, PTL DEF Spec
-----------------------------------------------------------------------------
(* Every request that is served leaves an event.                           *)

(* g.handled is set by a route that recorded something, or by upload.      *)
Accounted(request) ==
  /\ request.handled => request.recorded \/ request.route = "upload"
  /\ request.pc = "idle" => ~request.handled
AccountInv == LogInv /\ \A r \in Request : Accounted(requests[r])

LEMMA NoRequestAccounted ==
  /\ Accounted(NoRequest) /\ Accounted(Served)
  /\ Accounted([NoRequest EXCEPT !.pc = "after"])
BY DEF Accounted, Served, NoRequest

LEMMA ResponseAccounted ==
  ASSUME NEW request \in RequestRecord, request.handled => request.recorded \/ request.route = "upload"
  PROVE  Accounted(Response(request))
<1>1. ASSUME request.handled PROVE Accounted([request EXCEPT !.pc = "after", !.todo = 0])
  BY <1>1 DEF Accounted, RequestRecord
<1> QED BY <1>1, NoRequestAccounted DEF Response

LEMMA AccountInvNext == AccountInv /\ [Next]_vars => AccountInv'
<1> SUFFICES ASSUME AccountInv, [Next]_vars PROVE AccountInv'
  OBVIOUS
<1>1. LogInv' /\ requests \in [Request -> RequestRecord]
  BY LogInvNext DEF AccountInv, LogInv, RequestsTyped
<1>2. ASSUME NEW r \in Request, NEW request, Accounted(request),
             requests' = [requests EXCEPT ![r] = request]
      PROVE  AccountInv'
  BY <1>1, <1>2 DEF AccountInv
<1>3. ASSUME requests' = requests PROVE AccountInv'
  BY <1>1, <1>3 DEF AccountInv
<1>4. ASSUME NEW r \in Request, Before(r) PROVE AccountInv'
  <2> DEFINE old == requests[r]
  <2>1. old \in RequestRecord /\ Accounted(old) /\ old.pc = "idle"
    BY <1>1, <1>4 DEF AccountInv, Before, Serving
  <2>2. PICK route \in Route : \E n \in Records(route) :
          requests' = [requests EXCEPT ![r] = [@ EXCEPT !.pc = "run", !.route = route, !.todo = n]]
    BY <1>4 DEF Before
  <2>3. PICK n : requests' = [requests EXCEPT ![r] = [@ EXCEPT !.pc = "run", !.route = route, !.todo = n]]
    BY <2>2
  <2> DEFINE new == [old EXCEPT !.pc = "run", !.route = route, !.todo = n]
  <2>4. new.handled = old.handled
    BY <2>1 DEF RequestRecord
  <2>5. Accounted(new)
    BY <2>1, <2>4 DEF Accounted
  <2>6. requests' = [requests EXCEPT ![r] = new]
    BY <2>3
  <2> HIDE DEF new, old
  <2> QED BY <2>5, <2>6, <1>2
<1>5. ASSUME NEW r \in Request, RouteRaises(r) PROVE AccountInv'
  <2>1. requests[r] \in RequestRecord /\ Accounted(requests[r])
    BY <1>1 DEF AccountInv
  <2>2. Accounted(Response(requests[r]))
    BY <2>1, ResponseAccounted DEF Accounted
  <2> QED BY <2>2, <1>2, <1>5 DEF RouteRaises
<1>6. ASSUME NEW r \in Request, RouteReturns(r) PROVE AccountInv'
  <2> DEFINE old == requests[r]
             new == [old EXCEPT !.handled = @ \/ old.route = "upload"]
  <2>1. old \in RequestRecord /\ Accounted(old)
    BY <1>1 DEF AccountInv
  <2>2. new \in RequestRecord /\ new.recorded = old.recorded /\ new.route = old.route
    BY <2>1 DEF RequestRecord
  <2>3. new.handled => old.handled \/ old.route = "upload"
    BY <2>1 DEF RequestRecord
  <2>4. requests' = [requests EXCEPT ![r] = Response(new)]
    BY <1>6 DEF RouteReturns
  <2> HIDE DEF new, old
  <2>5. Accounted(Response(new))
    BY <2>1, <2>2, <2>3, ResponseAccounted DEF Accounted
  <2> QED BY <2>4, <2>5, <1>2
<1>7. ASSUME NEW r \in Request, After(r) PROVE AccountInv'
  <2> DEFINE old == requests[r]
             write == [old EXCEPT !.pc = "write", !.last = TRUE]
             new == IF old.handled THEN Served ELSE write
  <2>1. old \in RequestRecord /\ Accounted(old)
    BY <1>1 DEF AccountInv
  <2>2. write.handled = old.handled
    BY <2>1 DEF RequestRecord
  <2>3. ~old.handled => Accounted(write)
    BY <2>2 DEF Accounted
  <2>4. requests' = [requests EXCEPT ![r] = new]
    BY <1>7 DEF After
  <2> HIDE DEF write, old
  <2>5. Accounted(new)
    BY <2>3, NoRequestAccounted
  <2> HIDE DEF new
  <2> QED BY <2>4, <2>5, <1>2
<1>8. ASSUME NEW r \in Request, Writes(r) PROVE AccountInv'
  <2> DEFINE old == requests[r]
             event == IF fh = "open" THEN "filed" ELSE "unfiled"
             new == [old EXCEPT !.pc = "send", !.event = event]
  <2>1. old \in RequestRecord /\ Accounted(old)
    BY <1>1 DEF AccountInv
  <2>2. /\ new.pc = "send" /\ new.handled = old.handled
        /\ new.recorded = old.recorded /\ new.route = old.route
    BY <2>1 DEF RequestRecord
  <2>3. requests' = [requests EXCEPT ![r] = new]
    BY <1>1, <1>8 DEF Writes
  <2> HIDE DEF new, old
  <2>4. Accounted(new)
    BY <2>1, <2>2 DEF Accounted
  <2> QED BY <2>3, <2>4, <1>2
<1>9. ASSUME NEW r \in Request, WriteRaises(r) PROVE AccountInv'
  <2> DEFINE old == requests[r]
             new == IF old.last THEN Served ELSE Response(old)
  <2>1. old \in RequestRecord /\ Accounted(old)
    BY <1>1 DEF AccountInv
  <2>2. requests' = [requests EXCEPT ![r] = new]
    BY <1>9 DEF WriteRaises
  <2> HIDE DEF old
  <2>3. Accounted(new)
    BY <2>1, NoRequestAccounted, ResponseAccounted DEF Accounted
  <2> HIDE DEF new
  <2> QED BY <2>2, <2>3, <1>2
<1>10. ASSUME NEW r \in Request, Sends(r) PROVE AccountInv'
  <2> DEFINE old == requests[r]
             next == [old EXCEPT !.pc = "run", !.todo = @ - 1, !.recorded = TRUE, !.event = None,
                                 !.handled = @ \/ old.route # "upload"]
             new == IF old.last THEN Served ELSE next
  <2>1. old \in RequestRecord
    BY <1>1
  <2>2. next.recorded /\ next.pc = "run"
    BY <2>1 DEF RequestRecord
  <2>3. requests' = [requests EXCEPT ![r] = new]
    BY <1>10 DEF Sends
  <2> HIDE DEF next, old
  <2>4. Accounted(new)
    BY <2>2, NoRequestAccounted DEF Accounted
  <2> HIDE DEF new
  <2> QED BY <2>3, <2>4, <1>2
<1>11. CASE Exits
  BY <1>1, <1>11, NoRequestAccounted DEF Exits, AccountInv
<1>12. CASE Signal \/ ClosesFile \/ StopsForwarder \/ WorkerRuns \/ Tick \/ UNCHANGED vars
  <2>1. requests' = requests
    BY <1>12 DEF Signal, ClosesFile, StopsForwarder, WorkerRuns, Tick, MainStep, vars, webVars
  <2> QED BY <2>1, <1>3
<1> QED
  BY <1>4, <1>5, <1>6, <1>7, <1>8, <1>9, <1>10, <1>11, <1>12 DEF Next

(* What a request that is done has left behind, seen from the state before. *)
Recorded(r) ==
  \/ requests[r].recorded \/ requests[r].pc = "send"
  \/ requests[r].last /\ fh = "closed"
  \/ requests[r].route = "upload"

(* A thread is done by After, of a request that is handled, or with the     *)
(* last event, which is sent or has come to a file that is closed.         *)
LEMMA DoneIsAccounted ==
  ASSUME AccountInv, [Next]_vars, NEW r \in Request,
         requests[r].pc # "done", requests'[r].pc = "done"
  PROVE  Recorded(r)
<1>1. requests \in [Request -> RequestRecord]
  BY DEF AccountInv, LogInv, RequestsTyped
<1>2. requests'[r] # requests[r]
  OBVIOUS
<1>3. ~Exits
  BY DEF Exits, NoRequest
<1>4. ~(Signal \/ ClosesFile \/ StopsForwarder \/ WorkerRuns \/ Tick \/ UNCHANGED vars)
  BY <1>2 DEF Signal, ClosesFile, StopsForwarder, WorkerRuns, Tick, MainStep, vars, webVars
<1>5. PICK t \in Request :
        \/ Before(t) \/ RouteRaises(t) \/ RouteReturns(t) \/ After(t)
        \/ Writes(t) \/ WriteRaises(t) \/ Sends(t)
  BY <1>3, <1>4 DEF Next
<1>6. t = r
  <2>1. PICK request : requests' = [requests EXCEPT ![t] = request] \/ After(t) \/ Writes(t)
    BY <1>5 DEF Before, RouteRaises, RouteReturns, WriteRaises, Sends
  <2> QED BY <1>1, <1>2, <2>1 DEF After, Writes
<1>7. ASSUME NEW request \in RequestRecord PROVE Response(request).pc = "after"
  BY <1>7 DEF Response, RequestRecord, NoRequest
<1>8. ~Before(r)
  <2>1. ASSUME NEW route, NEW n,
               requests' = [requests EXCEPT ![r] = [@ EXCEPT !.pc = "run", !.route = route, !.todo = n]]
        PROVE  requests'[r].pc = "run"
    BY <1>1, <2>1 DEF RequestRecord
  <2> QED BY <2>1 DEF Before
<1>9. ~RouteRaises(r) /\ ~RouteReturns(r)
  <2>1. [requests[r] EXCEPT !.handled = @ \/ requests[r].route = "upload"] \in RequestRecord
    BY <1>1 DEF RequestRecord
  <2> QED BY <1>1, <1>7, <2>1 DEF RouteRaises, RouteReturns
<1>10. ~Writes(r)
  BY <1>1 DEF Writes, RequestRecord
<1>11. CASE After(r)
  <2>1. requests[r].handled
    <3> DEFINE write == [requests[r] EXCEPT !.pc = "write", !.last = TRUE]
    <3>1. write.pc = "write"
      BY <1>1 DEF RequestRecord
    <3>2. ~requests[r].handled => requests'[r] = write
      BY <1>1, <1>11 DEF After
    <3> HIDE DEF write
    <3> QED BY <3>1, <3>2
  <2> QED BY <2>1 DEF AccountInv, Accounted, Recorded
<1>12. CASE WriteRaises(r)
  <2>1. ~requests[r].last => requests'[r] = Response(requests[r])
    BY <1>1, <1>12 DEF WriteRaises
  <2> QED BY <1>1, <1>7, <1>12, <2>1 DEF WriteRaises, Recorded
<1>13. CASE Sends(r)
  BY <1>13 DEF Sends, Serving, Recorded
<1> QED BY <1>5, <1>6, <1>8, <1>9, <1>10, <1>11, <1>12, <1>13

(* after_request records what no route has recorded (middleware.py,        *)
(* _after), however many requests are served at once, whatever raises, and *)
(* whenever the file is closed.                                            *)
THEOREM WebTrapServedRequestsAreRecorded == Spec => ServedRequestsAreRecorded
<1>1. Init => AccountInv
  BY LogInvInit, NoRequestAccounted DEF Init, AccountInv
<1>2. AccountInv /\ [Next]_vars =>
        [\A r \in Request :
           requests[r].pc # "done" /\ requests'[r].pc = "done" =>
             \/ requests[r].recorded \/ requests[r].pc = "send"
             \/ requests[r].last /\ fh = "closed"
             \/ requests[r].route = "upload"]_vars
  BY DoneIsAccounted DEF Recorded
<1> QED BY <1>1, <1>2, AccountInvNext, PTL DEF Spec, ServedRequestsAreRecorded
-----------------------------------------------------------------------------
(* The type of every variable.                                             *)

(* Where the thread of a request is says what it holds: an event only when *)
(* it is to send it, and then the route has one left to record, unless it  *)
(* is the one that _after records.                                         *)
Shape(request) ==
  /\ request.todo \in 0 .. MaxFiles + 2
  /\ request.pc = "send" <=> request.event # None
  /\ request.pc = "send" /\ ~request.last => request.todo > 0
  /\ request.pc = "write" => request.last
MainTyped ==
  main \in {"serve", "close", "stop", "join", "exit"} /\ signals \in 0 .. MaxSignals
WebTypeInv ==
  /\ SessionInv /\ LogInv /\ ForwarderTypeOK /\ MainTyped
  /\ \A r \in Request : Shape(requests[r])

LEMMA WebTypeInvImplies == WebTypeInv => TypeOK
<1> SUFFICES ASSUME WebTypeInv PROVE TypeOK
  OBVIOUS
<1>1. TrackerTypeOK
  <2>1. \A s \in ToSet(sessions) : s \in SessionRecord
    BY DEF WebTypeInv, SessionInv, SessionsTyped, ToSet
  <2> QED BY <2>1 DEF WebTypeInv, SessionInv, SessionsTyped, TrackerTypeOK, SessionRecord
<1>2. ASSUME NEW r \in Request
      PROVE  /\ requests[r].pc \in {"idle", "run", "write", "send", "after", "done"}
             /\ requests[r].todo \in 0 .. MaxFiles + 2 /\ requests[r].recorded \in BOOLEAN
             /\ requests[r].pc = "send" <=> requests[r].event # None
  BY DEF WebTypeInv, LogInv, RequestsTyped, RequestRecord, Pc, Shape
<1> QED BY <1>1, <1>2 DEF WebTypeInv, LogInv, FileTyped, MainTyped, TypeOK

LEMMA FilesNat == MaxFiles \in Nat /\ MaxSignals \in Nat /\ max_queue \in Nat \ {0}
BY WebTrapAssumption, ForwarderAssumption

LEMMA NoRequestShape ==
  Shape(NoRequest) /\ Shape(Served) /\ Shape([NoRequest EXCEPT !.pc = "after"])
BY FilesNat DEF Shape, Served, NoRequest

LEMMA WebTypeInit == Init => WebTypeInv
<1> SUFFICES ASSUME Init PROVE WebTypeInv
  OBVIOUS
<1>1. ForwarderTypeOK
  <2>1. <<>> \in Seq(Event \cup {None}) /\ Len(<<>>) <= max_queue
    BY FilesNat
  <2> QED BY <2>1 DEF Init, ForwarderInit, ForwarderTypeOK, At
<1>2. MainTyped
  BY FilesNat DEF Init, MainTyped
<1>3. \A r \in Request : Shape(requests[r])
  BY NoRequestShape DEF Init
<1> QED BY <1>1, <1>2, <1>3, SessionInvInit, LogInvInit DEF WebTypeInv

(* What the thread of a request does leaves it in shape.                   *)
LEMMA ResponseShape ==
  ASSUME NEW request \in RequestRecord, request.event = None
  PROVE  Shape(Response(request))
<1> DEFINE kept == [request EXCEPT !.pc = "after", !.todo = 0]
<1>1. kept.pc = "after" /\ kept.todo = 0 /\ kept.event = None
  BY DEF RequestRecord
<1> HIDE DEF kept
<1>2. Shape(kept)
  BY <1>1, FilesNat DEF Shape
<1> QED BY <1>2, NoRequestShape DEF Response, kept

LEMMA RequestShape ==
  ASSUME LogInv, \A t \in Request : Shape(requests[t]), NEW r \in Request,
         \/ Before(r) \/ RouteRaises(r) \/ RouteReturns(r) \/ After(r)
         \/ Writes(r) \/ WriteRaises(r) \/ Sends(r)
  PROVE  \A t \in Request : Shape(requests'[t])
<1> DEFINE old == requests[r]
<1>1. requests \in [Request -> RequestRecord] /\ old \in RequestRecord /\ Shape(old)
  BY DEF LogInv, RequestsTyped
<1>2. ASSUME NEW new, Shape(new), requests' = [requests EXCEPT ![r] = new]
      PROVE  \A t \in Request : Shape(requests'[t])
  BY <1>1, <1>2
<1>3. CASE Before(r)
  <2>1. PICK route \in Route : \E n \in Records(route) :
          requests' = [requests EXCEPT ![r] = [@ EXCEPT !.pc = "run", !.route = route, !.todo = n]]
    BY <1>3 DEF Before
  <2>2. PICK n \in Records(route) :
          requests' = [requests EXCEPT ![r] = [@ EXCEPT !.pc = "run", !.route = route, !.todo = n]]
    BY <2>1
  <2>3. n \in 0 .. MaxFiles + 2
    BY <2>2, FilesNat DEF Records, Route
  <2> DEFINE new == [old EXCEPT !.pc = "run", !.route = route, !.todo = n]
  <2>4. old.event = None
    BY <1>1, <1>3 DEF Before, Serving, Shape
  <2>5. new.pc = "run" /\ new.todo = n /\ new.event = None
    BY <1>1, <2>4 DEF RequestRecord
  <2>6. requests' = [requests EXCEPT ![r] = new]
    BY <2>2
  <2> HIDE DEF new, old
  <2>7. Shape(new)
    BY <2>3, <2>5 DEF Shape
  <2> QED BY <1>2, <2>6, <2>7
<1>4. CASE RouteRaises(r)
  <2>1. requests' = [requests EXCEPT ![r] = Response(old)] /\ old.event = None
    BY <1>1, <1>4 DEF RouteRaises, Serving, Shape
  <2> HIDE DEF old
  <2> QED BY <1>1, <1>2, <2>1, ResponseShape
<1>5. CASE RouteReturns(r)
  <2> DEFINE new == [old EXCEPT !.handled = @ \/ old.route = "upload"]
  <2>1. new \in RequestRecord /\ new.event = old.event /\ old.event = None
    BY <1>1, <1>5 DEF RequestRecord, RouteReturns, Serving, Shape
  <2>2. requests' = [requests EXCEPT ![r] = Response(new)]
    BY <1>5 DEF RouteReturns
  <2> HIDE DEF new, old
  <2> QED BY <1>2, <2>1, <2>2, ResponseShape
<1>6. CASE After(r)
  <2> DEFINE write == [old EXCEPT !.pc = "write", !.last = TRUE]
  <2>1. write.pc = "write" /\ write.last /\ write.todo = old.todo /\ write.event = old.event
    BY <1>1 DEF RequestRecord
  <2>2. old.event = None /\ old.todo \in 0 .. MaxFiles + 2
    BY <1>1, <1>6 DEF After, Serving, Shape
  <2>3. requests' = [requests EXCEPT ![r] = IF old.handled THEN Served ELSE write]
    BY <1>6 DEF After
  <2> HIDE DEF write, old
  <2>4. Shape(write)
    BY <2>1, <2>2 DEF Shape
  <2> QED BY <1>2, <2>3, <2>4, NoRequestShape
<1>7. CASE Writes(r)
  <2> DEFINE event == IF fh = "open" THEN "filed" ELSE "unfiled"
             new == [old EXCEPT !.pc = "send", !.event = event]
  <2>1. /\ new.pc = "send" /\ new.event = event /\ new.todo = old.todo /\ new.last = old.last
        /\ event # None
    BY <1>1 DEF RequestRecord, None
  <2>2. old.todo \in 0 .. MaxFiles + 2 /\ (~old.last => old.todo > 0)
    BY <1>1, <1>7 DEF Writes, Recording, Serving, Shape
  <2>3. requests' = [requests EXCEPT ![r] = new]
    BY <1>1, <1>7 DEF Writes
  <2> HIDE DEF new, old, event
  <2>4. Shape(new)
    BY <2>1, <2>2 DEF Shape
  <2> QED BY <1>2, <2>3, <2>4
<1>8. CASE WriteRaises(r)
  <2>1. old.event = None
    BY <1>1, <1>8 DEF WriteRaises, Recording, Serving, Shape
  <2>2. requests' = [requests EXCEPT ![r] = IF old.last THEN Served ELSE Response(old)]
    BY <1>8 DEF WriteRaises
  <2> HIDE DEF old
  <2> QED BY <1>1, <1>2, <2>1, <2>2, NoRequestShape, ResponseShape
<1>9. CASE Sends(r)
  <2> DEFINE next == [old EXCEPT !.pc = "run", !.todo = @ - 1, !.recorded = TRUE, !.event = None,
                                 !.handled = @ \/ old.route # "upload"]
  <2>1. next.pc = "run" /\ next.todo = old.todo - 1 /\ next.event = None
    BY <1>1 DEF RequestRecord
  <2>2. old.todo \in 0 .. MaxFiles + 2 /\ (~old.last => old.todo > 0)
    BY <1>1, <1>9 DEF Sends, Serving, Shape
  <2>3. requests' = [requests EXCEPT ![r] = IF old.last THEN Served ELSE next]
    BY <1>9 DEF Sends
  <2> HIDE DEF next, old
  <2>4. ~old.last => Shape(next)
    BY <2>1, <2>2, FilesNat DEF Shape
  <2> QED BY <1>2, <2>3, <2>4, NoRequestShape
<1> QED BY <1>3, <1>4, <1>5, <1>6, <1>7, <1>8, <1>9

(* The queue takes no more than max_queue.                                 *)
LEMMA PutFits ==
  ASSUME ForwarderTypeOK, NEW item \in Event \cup {None}, Put(item)
  PROVE  q' \in Seq(Event \cup {None}) /\ Len(q') <= max_queue
BY FilesNat DEF ForwarderTypeOK, Put

LEMMA ForwarderTyped ==
  ASSUME WebTypeInv, [Next]_vars
  PROVE  ForwarderTypeOK'
<1> USE DEF WebTypeInv
<1>1. CASE UNCHANGED forwarderVars
  BY <1>1 DEF ForwarderTypeOK, forwarderVars
<1>2. ASSUME NEW r \in Request, Sends(r) PROVE ForwarderTypeOK'
  <2>1. requests[r].event \in Event \cup {None}
    BY DEF LogInv, RequestsTyped, RequestRecord
  <2>2. UNCHANGED <<enabled, stop_set, worker>> /\ (Put(requests[r].event) \/ q' = q)
    BY <1>2 DEF Sends, send
  <2>3. q' \in Seq(Event \cup {None}) /\ Len(q') <= max_queue
    BY <2>1, <2>2, PutFits DEF ForwarderTypeOK
  <2> QED BY <2>2, <2>3 DEF ForwarderTypeOK
<1>3. CASE StopsForwarder
  <2>1. UNCHANGED <<enabled, worker>> /\ stop_set' = TRUE /\ Put(None)
    BY <1>3 DEF StopsForwarder, stop
  <2>2. q' \in Seq(Event \cup {None}) /\ Len(q') <= max_queue
    BY <2>1, PutFits
  <2> QED BY <2>1, <2>2 DEF ForwarderTypeOK
<1>4. CASE WorkerRuns
  <2>1. UNCHANGED <<enabled, stop_set>>
    BY <1>4 DEF WorkerRuns, Worker, WorkerChecks, WorkerTakes, WorkerFindsNothing, Delivers
  <2>2. CASE WorkerTakes
    <3>1. q \in Seq(Event \cup {None}) /\ Len(q) <= max_queue /\ q # <<>> /\ q' = Tail(q)
      BY <2>2 DEF WorkerTakes, ForwarderTypeOK
    <3>2. /\ Head(q) \in Event \cup {None} /\ q' \in Seq(Event \cup {None})
          /\ Len(q') <= max_queue
      BY <3>1, FilesNat
    <3>3. worker' = At("done") \/ (Head(q) # None /\ worker' = [pc |-> "deliver", event |-> Head(q)])
      BY <2>2 DEF WorkerTakes
    <3> QED BY <2>1, <3>2, <3>3 DEF ForwarderTypeOK, At
  <2>3. CASE ~WorkerTakes
    <3>1. q' = q /\ worker' \in {At("get"), At("check"), At("done")}
      BY <1>4, <2>3 DEF WorkerRuns, Worker, WorkerChecks, WorkerFindsNothing, Delivers
    <3> QED BY <2>1, <3>1 DEF ForwarderTypeOK, At
  <2> QED BY <2>2, <2>3
<1>5. CASE Exits
  <2>1. <<>> \in Seq(Event \cup {None}) /\ Len(<<>>) <= max_queue
    BY FilesNat
  <2> QED BY <1>5, <2>1 DEF Exits, ForwarderTypeOK, At
<1>6. ASSUME NEW r \in Request,
             \/ Before(r) \/ RouteRaises(r) \/ RouteReturns(r) \/ After(r)
             \/ Writes(r) \/ WriteRaises(r)
      PROVE  UNCHANGED forwarderVars
  BY <1>6 DEF Before, RouteRaises, RouteReturns, After, Writes, WriteRaises, RequestStep
<1>7. Signal \/ ClosesFile \/ Tick \/ UNCHANGED vars => UNCHANGED forwarderVars
  BY DEF Signal, ClosesFile, Tick, vars
<1> QED BY <1>1, <1>2, <1>3, <1>4, <1>5, <1>6, <1>7 DEF Next

LEMMA WebTypeNext == WebTypeInv /\ [Next]_vars => WebTypeInv'
<1> SUFFICES ASSUME WebTypeInv, [Next]_vars PROVE WebTypeInv'
  OBVIOUS
<1>1. SessionInv' /\ LogInv' /\ ForwarderTypeOK'
  BY SessionInvNext, LogInvNext, ForwarderTyped DEF WebTypeInv
<1>2. \A r \in Request : Shape(requests'[r])
  <2>1. ASSUME NEW r \in Request,
               \/ Before(r) \/ RouteRaises(r) \/ RouteReturns(r) \/ After(r)
               \/ Writes(r) \/ WriteRaises(r) \/ Sends(r)
        PROVE  \A t \in Request : Shape(requests'[t])
    BY <2>1, RequestShape DEF WebTypeInv
  <2>2. CASE Exits
    BY <2>2, NoRequestShape DEF Exits
  <2>3. CASE Signal \/ ClosesFile \/ StopsForwarder \/ WorkerRuns \/ Tick \/ UNCHANGED vars
    <3>1. requests' = requests
      BY <2>3 DEF Signal, ClosesFile, StopsForwarder, WorkerRuns, Tick, MainStep, vars, webVars
    <3> QED BY <3>1 DEF WebTypeInv
  <2> QED BY <2>1, <2>2, <2>3 DEF Next
<1>3. MainTyped'
  <2>1. ASSUME NEW r \in Request,
               \/ Before(r) \/ RouteRaises(r) \/ RouteReturns(r) \/ After(r)
               \/ Writes(r) \/ WriteRaises(r) \/ Sends(r)
        PROVE  UNCHANGED <<main, signals>>
    BY <2>1 DEF Before, RouteRaises, RouteReturns, After, Writes, WriteRaises, Sends, RequestStep
  <2>2. WorkerRuns \/ Tick \/ UNCHANGED vars => UNCHANGED <<main, signals>>
    BY DEF WorkerRuns, Tick, vars, webVars
  <2>3. Signal \/ ClosesFile \/ StopsForwarder \/ Exits =>
          /\ main' \in {"close", "stop", "join", "exit"}
          /\ signals' = signals \/ (signals < MaxSignals /\ signals' = signals + 1)
    BY DEF Signal, ClosesFile, StopsForwarder, Exits
  <2>4. CASE UNCHANGED <<main, signals>>
    BY <2>4 DEF WebTypeInv, MainTyped
  <2>5. CASE Signal \/ ClosesFile \/ StopsForwarder \/ Exits
    BY <2>3, <2>5, FilesNat DEF WebTypeInv, MainTyped
  <2> QED BY <2>1, <2>2, <2>4, <2>5 DEF Next
<1> QED BY <1>1, <1>2, <1>3 DEF WebTypeInv

(* events.py, forwarder.py, session.py and middleware.py: every variable   *)
(* keeps its type, whatever threads, signals and failures do; the queue    *)
(* never holds more than max_queue, and a thread has an event in its hands *)
(* only between the file and the forwarder.                                *)
THEOREM WebTrapTypeOK == Spec => []TypeOK
<1>1. WebTypeInv /\ [Next]_vars => WebTypeInv'
  BY WebTypeNext
<1> QED BY <1>1, WebTypeInit, WebTypeInvImplies, PTL DEF Spec
=============================================================================
