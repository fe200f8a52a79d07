---------------------------- MODULE SessionTracker ----------------------------
(***************************************************************************)
(* WebTrap's sessions (WebTrap/webtrap/session.py): SessionTracker, with   *)
(* one table of sessions by cookie and one by address.                     *)
(*                                                                         *)
(* touch holds the lock from its first line to its last: it is one step.   *)
(* A session is a number; what a table does not hold is 0.  Of a session   *)
(* record keeps how often and when it was seen.  The snapshot that goes    *)
(* into an event is read without the lock and changes nothing.             *)
(***************************************************************************)
EXTENDS Naturals, Sequences, SequencesExt

CONSTANTS
  SourceIp,     \* addresses that requests come from
  Cookie,       \* values of PHPSESSID or session
  SESSION_TTL   \* how long a session outlives its last request, in ticks

\* What a request without a cookie has for one.
NoCookie == "none"

ASSUME SessionAssumption == SESSION_TTL \in Nat /\ NoCookie \notin Cookie

VARIABLES
  now,        \* the time
  sessions,   \* the _Session objects, in the order they were made
  by_cookie,  \* _by_cookie
  by_ip       \* _by_ip

trackerVars == <<sessions, by_cookie, by_ip>>

\* A session without a cookie gets a uuid, which is like no other: its number.
SessionId(n, cookie) == [cookie |-> cookie, uuid |-> IF cookie = NoCookie THEN n ELSE 0]

TrackerInit ==
  /\ now = 0
  /\ sessions = <<>>
  /\ by_cookie = [c \in Cookie |-> 0]
  /\ by_ip = [ip \in SourceIp |-> 0]

Stale(n) == n # 0 /\ sessions[n].last_seen + SESSION_TTL < now

\* Mutant: stale sessions leave the table of the cookies only.
_gcCookies(table) ==
  IF DOMAIN table = Cookie THEN [k \in DOMAIN table |-> IF Stale(table[k]) THEN 0 ELSE table[k]]
  ELSE table

\* _gc, of one table.
_gc(table) == [k \in DOMAIN table |-> IF Stale(table[k]) THEN 0 ELSE table[k]]

\* The session that the tables have for a request.
FoundSession(cookies, ips, ip, cookie) ==
  IF cookie \in Cookie /\ cookies[cookie] # 0 THEN cookies[cookie] ELSE ips[ip]

\* touch.  A session that is found is entered nowhere: not under the cookie
\* when it was found by address, nor under the address.
touch(ip, cookie) ==
  LET cookies == _gc(by_cookie)
      ips == _gc(by_ip)
      found == FoundSession(cookies, ips, ip, cookie)
      made == Len(sessions) + 1
  IN  \/ /\ found # 0
         /\ sessions' = [sessions EXCEPT ![found].last_seen = now, ![found].request_count = @ + 1]
         /\ by_cookie' = cookies /\ by_ip' = ips
      \/ /\ found = 0
         /\ sessions' = Append(sessions,
              [session_id |-> SessionId(made, cookie), last_seen |-> now, request_count |-> 1])
         /\ by_cookie' = [c \in Cookie |-> IF c = cookie THEN made ELSE cookies[c]]
         /\ by_ip' = [ips EXCEPT ![ip] = made]

-----------------------------------------------------------------------------
(* Properties.                                                             *)

TrackerTypeOK ==
  /\ now \in Nat
  /\ \A s \in ToSet(sessions) : s.last_seen \in Nat /\ s.request_count \in Nat \ {0}
  /\ by_cookie \in [Cookie -> 0 .. Len(sessions)]
  /\ by_ip \in [SourceIp -> 0 .. Len(sessions)]

Held == {by_cookie[c] : c \in Cookie} \cup {by_ip[ip] : ip \in SourceIp}

\* What one cookie did is one session: whatever expires, and whoever else uses
\* the cookie, the tables never hold two sessions with one id.
OneSessionPerId ==
  \A m, n \in Held \ {0} : sessions[m].session_id = sessions[n].session_id => m = n
=============================================================================
