------------------------------- MODULE AbuseIpdb -------------------------------
(***************************************************************************)
(* The AbuseIPDB output plugin of cowrie (output/abuseipdb.py): Output,    *)
(* the LogBook of attempts and reports with its timers, its dump file and  *)
(* the threads that write it, and the Reporter with the answers of the     *)
(* service, over stops, crashes and restarts of cowrie.                    *)
(*                                                                         *)
(* Reactor calls are atomic up to a yield; the threads of callInThread     *)
(* interleave with them.  Time passes in ticks, and a timer fires when it  *)
(* is due or later.  A dump holds the deques themselves: what is logged    *)
(* before the thread has pickled them may be in the file.                  *)
(*                                                                         *)
(* External: the service, the file system, and who logs in.                *)
(***************************************************************************)
EXTENDS Naturals, Sequences, FiniteSets, FiniteSetsExt, SequencesExt

CONSTANTS
  Ip,           \* attacker addresses
  Tolerances,   \* what tolerance_attempts may be set to between restarts
  Window,       \* tolerance_window, in ticks
  Rereport,     \* rereport_after
  Sched,        \* CLEAN_DUMP_SCHED
  RetryAfter,   \* what a Retry-After header may say, up to 86340 seconds
  MaxTime,      \* bound of the model: ticks
  MaxLogins,    \* bound of the model: logins of one address
  MaxRequests,  \* bound of the model: requests under way
  MaxWriters    \* bound of the model: threads that write the dump

ASSUME AbuseIpdbAssumption ==
  /\ Tolerances \subseteq Nat
  /\ {Window, Rereport, Sched} \subseteq Nat \ {0} /\ RetryAfter \subseteq Nat \ {0}
  /\ MaxTime \in Nat \ {0} /\ {MaxLogins, MaxRequests, MaxWriters} \subseteq Nat

VARIABLES
  now,         \* the time
  proc,        \* cowrie, and the plugin in it
  attempts,    \* tolerance_attempts
  logbook,     \* the LogBook: what is known of each address
  sleeping,    \* logbook.sleeping
  sleep_until, \* logbook.sleep_until
  wakeups,     \* when the calls of wakeup that are scheduled are due
  recall,      \* the call of cleanup_and_dump_state in logbook.recall
  orphans,     \* when the scheduled ones that it no longer holds are due
  requests,    \* http_requests that wait for their answer
  retrying,    \* those that wait for the sleeper thread
  writers,     \* threads in write_dump_file
  writing,     \* logbook._writing
  file,        \* the dump file
  seen         \* what the plugin was told of: when each address logged in

timerVars == <<wakeups, recall, orphans>>
httpVars == <<requests, retrying>>
dumpVars == <<writers, writing, file>>
vars == <<now, proc, attempts, logbook, sleeping, sleep_until, timerVars, httpVars,
          dumpVars, seen>>

-----------------------------------------------------------------------------
\* What the LogBook holds for an address: a deque of at most max times, the
\* tuple (None, time_reported), or nothing.
Entry == [reported : BOOLEAN, times : Seq(Nat), max : Nat]
Absent == [reported |-> FALSE, times |-> <<>>, max |-> 0]
Reported(t) == [Absent EXCEPT !.reported = TRUE, !.times = <<t>>]
Recent(times, max) == SubSeq(times, 1 + (IF Len(times) > max THEN Len(times) - max ELSE 0), Len(times))
Deque(times, max) == [reported |-> FALSE, times |-> Recent(times, max), max |-> max]

Known(e) == e.times # <<>>

Dump == [sleeping : BOOLEAN, until : Nat, tolerated : Nat, book : [Ip -> Entry]]

\* The file is not there, was opened and not written, was written by two
\* threads at once, or holds a dump.
File == [is : {"none", "empty", "torn"}] \cup [is : {"whole"}, dump : Dump]

NoCall == [at |-> "none", due |-> 0]
Call(t) == [at |-> "pending", due |-> t]

Init ==
  /\ now = 1 /\ proc = "down" /\ attempts \in Tolerances
  /\ logbook = [ip \in Ip |-> Absent]
  /\ sleeping = FALSE /\ sleep_until = 0
  /\ wakeups = <<>> /\ recall = NoCall /\ orphans = <<>>
  /\ requests = 0 /\ retrying = 0
  /\ writers = <<>> /\ writing = FALSE
  /\ file = [is |-> "none"]
  /\ seen = [ip \in Ip |-> <<>>]

-----------------------------------------------------------------------------
(* The LogBook.                                                            *)

\* popleft until the leftmost time is in the window, or none is left.
PopExpired(times, t) ==
  SubSeq(times, Min({i \in DOMAIN times : times[i] + Window >= t} \cup {Len(times) + 1}),
         Len(times))

\* Mutant: expired attempts stay.
clean_expired_timestampsNot(e, t) == e

clean_expired_timestamps(e, t) ==
  IF e.reported THEN e
  ELSE [e EXCEPT !.times = PopExpired(@, t)]

\* A deque of one time has no second one: IndexError, and True.
can_rereport(e, t, tolerance) ==
  IF e.reported THEN t > e.times[1] + Rereport
  ELSE \/ Len(e.times) < 2
       \/ t > e.times[2] + Rereport
       \/ tolerance <= 1

Cleaned(book, t, tolerance) ==
  [ip \in Ip |-> IF can_rereport(book[ip], t, tolerance) THEN Absent
                 ELSE clean_expired_timestamps(book[ip], t)]

\* dump_state, of a thread that has not begun.
Dumped(book, asleep, until, tolerance) ==
  /\ Len(writers) < MaxWriters
  /\ writers' = Append(writers,
       [pc |-> "wait",
        dump |-> [sleeping |-> asleep, until |-> until, tolerated |-> tolerance, book |-> book]])

\* cleanup_and_dump_state, but for its timers.
Cleanup(asleep, until) ==
  LET book == Cleaned(logbook, IF asleep THEN until ELSE now, attempts)
  IN  logbook' = book /\ Dumped(book, asleep, until, attempts)

\* Its mode 1: recall.cancel() raises when that call was made or cancelled
\* before, and nothing is cleaned or dumped.
CancelAndCleanup(asleep, until) ==
  IF recall.at = "spent"
  THEN UNCHANGED <<logbook, writers, recall>>
  ELSE /\ Cleanup(asleep, until)
       /\ recall' = IF recall.at = "pending" THEN [recall EXCEPT !.at = "spent"] ELSE recall

-----------------------------------------------------------------------------
(* Logins.                                                                 *)

\* intolerant_observer
Intolerant(ip) ==
  IF ~Known(logbook[ip]) \/ can_rereport(logbook[ip], now, attempts)
  THEN logbook' = [logbook EXCEPT ![ip] = Reported(now)] /\ requests' = requests + 1
  ELSE UNCHANGED <<logbook, requests>>

\* tolerant_observer, with report_ip_multiple.
Tolerant(ip) ==
  LET e == logbook[ip]
      later == clean_expired_timestamps(Deque(Append(e.times, now), e.max), now)
  IN  \/ /\ Known(e) /\ ~e.reported
         /\ IF Len(later.times) >= attempts
            THEN logbook' = [logbook EXCEPT ![ip] = Reported(now)] /\ requests' = requests + 1
            ELSE logbook' = [logbook EXCEPT ![ip] = later] /\ UNCHANGED requests
      \/ /\ Known(e) => e.reported /\ can_rereport(e, now, attempts)
         /\ logbook' = [logbook EXCEPT ![ip] = Deque(<<now>>, attempts)]
         /\ UNCHANGED requests
      \/ /\ e.reported /\ ~can_rereport(e, now, attempts)
         /\ UNCHANGED <<logbook, requests>>

\* write, of a login event, while the plugin is awake.
Login(ip) ==
  /\ proc = "up" /\ ~sleeping
  /\ Len(seen[ip]) < MaxLogins /\ requests + retrying < MaxRequests
  /\ seen' = [seen EXCEPT ![ip] = Append(@, now)]
  /\ IF attempts <= 1 THEN Intolerant(ip) ELSE Tolerant(ip)
  /\ UNCHANGED <<now, proc, attempts, sleeping, sleep_until, timerVars, retrying, dumpVars>>

-----------------------------------------------------------------------------
(* The answers of the service.                                             *)

\* An answer that changes nothing, or none.
Answered ==
  /\ proc = "up" /\ requests > 0
  /\ requests' = requests - 1
  /\ UNCHANGED <<now, proc, attempts, logbook, sleeping, sleep_until, timerVars, retrying,
                 dumpVars, seen>>

\* rate_limit_handler: sleep as long as the service says.
RateLimited ==
  /\ proc = "up" /\ requests > 0
  /\ requests' = requests - 1
  /\ \E retry \in {r \in RetryAfter : now + r <= MaxTime} :
       /\ sleeping' = TRUE /\ sleep_until' = now + retry
       /\ wakeups' = Append(wakeups, now + retry)
       /\ CancelAndCleanup(TRUE, now + retry)
  /\ UNCHANGED <<now, proc, attempts, orphans, retrying, writing, file, seen>>

\* A Retry-After of more than a day: sleeper_thread, and the request again.
RetriesLater ==
  /\ proc = "up" /\ requests > 0
  /\ requests' = requests - 1 /\ retrying' = retrying + 1
  /\ UNCHANGED <<now, proc, attempts, logbook, sleeping, sleep_until, timerVars, dumpVars, seen>>

\* Mutant: the first request still waits.
RetriesTwice ==
  /\ proc = "up" /\ retrying > 0
  /\ requests' = requests + 1
  /\ UNCHANGED <<now, proc, attempts, logbook, sleeping, sleep_until, timerVars, retrying, dumpVars, seen>>

\* The request again, after the ten seconds of sleeper_thread.
Retries ==
  /\ proc = "up" /\ retrying > 0
  /\ requests' = requests + 1 /\ retrying' = retrying - 1
  /\ UNCHANGED <<now, proc, attempts, logbook, sleeping, sleep_until, timerVars, dumpVars, seen>>

-----------------------------------------------------------------------------
(* Timers.                                                                 *)

\* self.recall = callLater(...): a call it holds already is still made.
Schedule(held) ==
  /\ recall' = Call(now + Sched)
  /\ orphans' = IF recall.at = "pending" THEN Append(held, recall.due) ELSE held

\* Mutant: the clean-up is not scheduled again.
wakeupOnly(i) ==
  /\ proc = "up" /\ wakeups[i] <= now
  /\ wakeups' = RemoveAt(wakeups, i)
  /\ sleeping' = FALSE /\ sleep_until' = 0
  /\ UNCHANGED <<now, proc, attempts, logbook, recall, orphans, httpVars, dumpVars, seen>>

wakeup(i) ==
  /\ proc = "up" /\ wakeups[i] <= now
  /\ wakeups' = RemoveAt(wakeups, i)
  /\ sleeping' = FALSE /\ sleep_until' = 0
  /\ Schedule(orphans)
  /\ UNCHANGED <<now, proc, attempts, logbook, httpVars, dumpVars, seen>>

\* cleanup_and_dump_state in its mode 0, called by the reactor.
CleanupCall ==
  /\ proc = "up" /\ recall.at = "pending" /\ recall.due <= now
  /\ Cleanup(sleeping, sleep_until)
  /\ recall' = IF sleeping THEN [recall EXCEPT !.at = "spent"] ELSE Call(now + Sched)
  /\ UNCHANGED <<now, proc, attempts, sleeping, sleep_until, wakeups, orphans, httpVars,
                 writing, file, seen>>

OrphanCall(i) ==
  /\ proc = "up" /\ orphans[i] <= now
  /\ Cleanup(sleeping, sleep_until)
  /\ IF sleeping THEN orphans' = RemoveAt(orphans, i) /\ UNCHANGED recall
     ELSE Schedule(RemoveAt(orphans, i))
  /\ UNCHANGED <<now, proc, attempts, sleeping, sleep_until, wakeups, httpVars, writing,
                 file, seen>>

-----------------------------------------------------------------------------
(* The threads that write the dump.                                        *)

ThreadStep == UNCHANGED <<now, proc, attempts, logbook, sleeping, sleep_until, timerVars,
                          httpVars, seen>>

\* write_dump_file: the thread sees that no other one writes.
SeesFree(i) ==
  /\ writers[i].pc = "wait" /\ ~writing
  /\ writers' = [writers EXCEPT ![i].pc = "free"]
  /\ UNCHANGED <<writing, file>> /\ ThreadStep

\* It has waited for ten seconds.
GivesUp(i) ==
  /\ writers[i].pc = "wait" /\ writing
  /\ writers' = RemoveAt(writers, i)
  /\ UNCHANGED <<writing, file>> /\ ThreadStep

\* It opens the file, which is then empty.
Opens(i) ==
  /\ writers[i].pc = "free"
  /\ writers' = [writers EXCEPT ![i].pc = "open"]
  /\ writing' = TRUE
  /\ file' = [is |-> "empty"]
  /\ ThreadStep

\* Deques of the dump that got another time since, and are deques still.
Changed(dump) ==
  {ip \in Ip : /\ Known(dump.book[ip]) /\ Known(logbook[ip])
              /\ ~dump.book[ip].reported /\ ~logbook[ip].reported
              /\ dump.book[ip].max = logbook[ip].max
              /\ dump.book[ip].times # logbook[ip].times}

\* It pickles its dump, while another thread may be at it as well.
Writes(i) ==
  /\ writers[i].pc = "open"
  /\ LET dump == writers[i].dump
     IN  \/ \E late \in SUBSET Changed(dump) :
              file' = [is |-> "whole", dump |-> [dump EXCEPT !.book =
                         [ip \in Ip |-> IF ip \in late THEN logbook[ip] ELSE @[ip]]]]
         \/ /\ \E j \in DOMAIN writers : j # i /\ writers[j].pc = "open"
            /\ file' = [is |-> "torn"]
  /\ writing' = FALSE
  /\ writers' = RemoveAt(writers, i)
  /\ ThreadStep

\* "deque mutated during iteration" ends it, and _writing stays set.
PickleRaises(i) ==
  /\ writers[i].pc = "open" /\ Changed(writers[i].dump) # {}
  /\ file' \in {[is |-> "empty"], [is |-> "torn"]}
  /\ writers' = RemoveAt(writers, i)
  /\ UNCHANGED writing /\ ThreadStep

-----------------------------------------------------------------------------
(* Cowrie.                                                                 *)

\* stop, before the shutdown: the threads end, the timers do not.
Stop ==
  /\ proc \in {"up", "failed"}
  /\ proc' = "stopping"
  /\ CancelAndCleanup(sleeping, sleep_until)
  /\ UNCHANGED <<now, attempts, sleeping, sleep_until, wakeups, orphans, httpVars, writing,
                 file, seen>>

\* What is left of the process when it is gone.
Gone ==
  /\ proc' = "down"
  /\ logbook' = [ip \in Ip |-> Absent]
  /\ sleeping' = FALSE /\ sleep_until' = 0
  /\ wakeups' = <<>> /\ recall' = NoCall /\ orphans' = <<>>
  /\ requests' = 0 /\ retrying' = 0
  /\ writers' = <<>> /\ writing' = FALSE
  /\ UNCHANGED <<now, attempts, file, seen>>

Exits == proc = "stopping" /\ writers = <<>> /\ Gone

Crash == proc # "down" /\ Gone

Loads == file.is = "whole"

\* A deque that was cut to what it may hold now.
Resized(e, max) == IF e.reported \/ ~Known(e) THEN e ELSE Deque(e.times, max)

\* Mutant: the alarm is not set.
StartUnalarmed(tolerance) ==
  LET dump == IF Loads THEN file.dump
              ELSE [sleeping |-> FALSE, until |-> 0, tolerated |-> tolerance, book |-> logbook]
      asleep == dump.sleeping /\ dump.until > now
      until == IF asleep THEN dump.until ELSE 0
      book == Cleaned(dump.book, IF asleep THEN until ELSE now, tolerance)
  IN  /\ proc = "down" /\ file.is # "empty"
      /\ proc' = "up" /\ attempts' = tolerance
      /\ sleeping' = asleep /\ sleep_until' = until
      /\ Dumped(book, asleep, until, tolerance)
      /\ recall' = IF asleep THEN NoCall ELSE Call(now + Sched)
      /\ logbook' = book
      /\ UNCHANGED <<now, wakeups, orphans, httpVars, writing, file, seen>>

\* start.  The clean-up, which dumps, comes before the deques get their new
\* length.  UnpicklingError is caught.
Start(tolerance) ==
  LET dump == IF Loads THEN file.dump
              ELSE [sleeping |-> FALSE, until |-> 0, tolerated |-> tolerance, book |-> logbook]
      asleep == dump.sleeping /\ dump.until > now
      until == IF asleep THEN dump.until ELSE 0
      book == Cleaned(dump.book, IF asleep THEN until ELSE now, tolerance)
  IN  /\ proc = "down" /\ file.is # "empty"
      /\ proc' = "up" /\ attempts' = tolerance
      /\ sleeping' = asleep /\ sleep_until' = until
      /\ wakeups' = IF asleep THEN <<until>> ELSE <<>>
      /\ Dumped(book, asleep, until, tolerance)
      /\ recall' = IF asleep THEN NoCall ELSE Call(now + Sched)
      /\ logbook' = IF dump.tolerated = tolerance THEN book
                    ELSE [ip \in Ip |-> Resized(book[ip], tolerance)]
      /\ UNCHANGED <<now, orphans, httpVars, writing, file, seen>>

\* EOFError of an empty file is not caught: the plugin is not loaded, but it
\* is stopped when cowrie is.
StartFails ==
  /\ proc = "down" /\ file.is = "empty"
  /\ proc' = "failed"
  /\ UNCHANGED <<now, attempts, logbook, sleeping, sleep_until, timerVars, httpVars, dumpVars, seen>>

Tick ==
  /\ now < MaxTime
  /\ now' = now + 1
  /\ UNCHANGED <<proc, attempts, logbook, sleeping, sleep_until, timerVars, httpVars, dumpVars, seen>>

-----------------------------------------------------------------------------
Thread(i) == SeesFree(i) \/ GivesUp(i) \/ Opens(i) \/ Writes(i) \/ PickleRaises(i)

Next ==
  \/ \E ip \in Ip : Login(ip)
  \/ Answered \/ RateLimited \/ RetriesLater \/ Retries
  \/ \E i \in DOMAIN wakeups : wakeup(i)
  \/ CleanupCall \/ \E i \in DOMAIN orphans : OrphanCall(i)
  \/ \E i \in DOMAIN writers : Thread(i)
  \/ Stop \/ Exits \/ Crash \/ StartFails
  \/ \E tolerance \in Tolerances : Start(tolerance)
  \/ Tick

Spec == Init /\ [][Next]_vars

\* Time passes, timers fire, threads go on, and a shutdown comes to its end.
\* Nothing is assumed of the service, or of when cowrie is stopped or crashes.
Fairness ==
  /\ WF_vars(Tick)
  /\ WF_vars(\E i \in DOMAIN wakeups : wakeup(i))
  /\ WF_vars(Exits)
  /\ \A i \in 1 .. MaxWriters : WF_vars(i \in DOMAIN writers /\ Thread(i))

FairSpec == Spec /\ Fairness

-----------------------------------------------------------------------------
(* Properties.                                                             *)

\* The type of every variable; a deque holds no more than its maxlen.
TypeOK ==
  /\ now \in 1 .. MaxTime
  /\ proc \in {"down", "up", "failed", "stopping"}
  /\ attempts \in Tolerances
  /\ logbook \in [Ip -> Entry]
  /\ \A ip \in Ip : ~logbook[ip].reported => Len(logbook[ip].times) <= logbook[ip].max
  /\ sleeping \in BOOLEAN /\ sleep_until \in 0 .. MaxTime
  /\ wakeups \in Seq(Nat) /\ orphans \in Seq(Nat)
  /\ recall \in [at : {"none", "pending", "spent"}, due : Nat]
  /\ requests \in Nat /\ retrying \in Nat /\ requests + retrying <= MaxRequests
  /\ writers \in Seq([pc : {"wait", "free", "open"}, dump : Dump])
  /\ writing \in BOOLEAN
  /\ file \in File
  /\ seen \in [Ip -> Seq(1 .. MaxTime)]

\* An address is reported only when it logged in tolerance_attempts times
\* within the tolerance_window, through clean-ups, sleeps, restarts and
\* changes of the tolerance.
ReportsAreDeserved ==
  [][\A ip \in Ip :
       proc = "up" /\ logbook'[ip].reported /\ logbook'[ip] # logbook[ip] =>
         Cardinality({i \in DOMAIN seen'[ip] : seen'[ip][i] + Window >= now}) >= attempts]_vars

\* As long as the plugin is awake, there is a clean-up to come.
CleaningGoesOn ==
  proc = "up" /\ ~sleeping => recall.at = "pending" \/ orphans # <<>>

\* The plugin wakes up again, although cowrie may be restarted meanwhile.
SleepEnds == sleeping ~> ~sleeping
=============================================================================
