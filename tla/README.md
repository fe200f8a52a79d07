# TLA+ models of the HoneyBee pot store

The repository holds three honeypots and a catalogue of them: **cowrie**, an SSH
and telnet honeypot on Twisted (by far the largest part), **WebTrap**, a Flask
application of decoy pages, and **HonnyPotter**, a WordPress plugin.  This
directory holds TLA+ models of the parts whose correctness depends on the order
of things: threads and reactor calls, connections that come and go, failures in
the middle of a method.  TLC checks the models on small instances and TLAPS
proves theorems about them for every value of their constants.

Paths below are relative to `src/cowrie/src/` unless they say otherwise.

## 1. Inventory

| Component | State it keeps | What is hard | What makes it correct | Module |
|---|---|---|---|---|
| VM pool (`backend_pool/pool_service.py`) and its libvirt backend | guests with state, counters, client addresses; `guest_id`; the scheduled iteration; domains | first iteration in a thread, a lock that is not held for all of an operation, libvirt failures, restart while guests are lent | numbers, counters and states agree with who holds what; addresses differ; a recycled pool starts again; guests move on | `PoolService` |
| Pool server, pool interface (`backend_pool/pool_server.py`, `cowrie/pool_interface`) | connections; `vm_id` | the answer may come after the attacker left | a guest is borrowed once and given back once, and called used when it was | `GuestLease`, and inside both proxies |
| SSH proxy (`cowrie/ssh_proxy`) | two transports, their packet buffers, flags, a timer | three connections whose callbacks come in any order; exceptions in a flush | order of packets, nothing before a login, sessions end, guests are given back | `SshProxy` |
| Telnet proxy (`cowrie/telnet_proxy`) | two transports, the dialogue flags of `TelnetHandler` | prompts found by regex in packets split anywhere, typed-ahead input, credentials replaced | answers only to prompts, streams in order, only accepted logins get in | `TelnetProxy` |
| HoneyBee output (`cowrie/output/honeybee.py`), session table of `core/output.py` | socket, buffer, sessions | mutual recursion, failures on the way | the recursion ends, nothing is sent twice | `HoneybeeOutput` |
| AbuseIPDB output (`cowrie/output/abuseipdb.py`) | attempts per address, sleep, timers, the dump file | delayed calls that cancel each other, threads writing one file, crashes | reports are deserved; the clean-up goes on; sleep ends | `AbuseIpdb` |
| Emulated shell (`cowrie/shell`, `insults/insults.py`) | the stack of shells and commands, pending commands, the pipe protocol | calls that call back, asynchronous exits, exceptions, disconnects | the stack unwinds to a prompt or the end | `HoneyPotShell` |
| Emulated commands (`cowrie/commands`) | timers, Deferreds, phases of a dialogue | when they exit, wait, hide typing, raise | as above, and hidden passwords | `HoneyPotCommand`, `Commands` |
| tftp download (`cowrie/commands/tftp.py`) | block number, retries, timeout, Deferred, artifact | datagrams lost, doubled, reordered; wrapped block numbers | the artifact is the file, but for blocks another host sent; silence ends the download | `TftpClient` |
| WebTrap sessions, forwarder, recorder, shutdown (`src/WebTrap`) | two tables; a bounded queue and its worker; the log file; `g.handled` | threads, a full queue, routes that raise, a signal in between | one session per id; file before node; served requests recorded; `stop` ends the worker | `SessionTracker`, `HoneyBeeForwarder`, `WebTrap` |

A proxy session asks the pool for a guest over TCP (the pool interface is the
client, the pool server the other end), connects to the guest, and hands the
packets of one side to the other through a handler its two transports share.
The producer loop of the pool works on the same list of guests that the pool
server's requests read.  Every component logs events, which Twisted hands to
the `emit` of each output plugin within the call that logs.  The emulated shell
is what a session talks to when there is no proxy.  WebTrap is a process of its
own.

`PROJECT.json` lists all components with their status, the source lines of each
definition (`map`), and under `hazards` the places in the code that a test would
hardly reach.

## 2. Modules

**PoolService.**  `heap` holds the `Guest` objects, `guests` is `self.guests`,
`prod` the producer chains: `start_pool` begins one, whose first iteration runs
in a worker thread and whose later ones are `callLater` calls.  An iteration
moves through the phases of `producer_loop`, one action each: `EnterLoop`,
`MarkTimedOut`, `CollectUnavailable` and `DestroyGuest` (the list is taken once,
then walked without the lock), `CheckHealth`, `RemoveDestroyed`, `CountMissing`,
`BeginCreate` / `FinishCreate` / `FailCreate`, `CollectCreated`, `MarkAvailable`,
`ScheduleNext`.  In the thread these interleave with every reactor call; on the
reactor they keep other calls out.  `request_vm` is two actions, `SelectGuest`
and `GrantGuest`, because the choice is made under `guest_lock` and the update
is not; `RefuseRequest` finds nothing and stops the pool.  `restart_pool` is
`RestartStop` and `StartPool`.  A guest and its domain are one identity, time is
nondeterminism, and `lease` says which client holds what.  `made` counts the
guests created since `start_pool`, and the number the code gives a guest is
`GuestId(made)`; a lease whose pool was started again is `stale`.

**GuestLease** is what the pool may rely on: a borrower asks once, gives back at
most once, and calls the guest used just when it was.  Both proxies implement it,
each with its own notion of a use: in the SSH proxy, authentication was sent to
the guest and all that was held back after it; in the telnet proxy, a login was
accepted.  The lease counts as given back once the message is on its way.

**SshProxy**: one session from the attacker's connection on.  `front`, `pool` and
`back` are the three connections; every callback is one action.  Packets are
numbered as they arrive and have a kind: forwarded, opening a channel, local to
the proxy, or raising.  `delayed` and `bdelayed` are the two `delayedPackets`.
Exceptions are modelled where they end up.

**TelnetProxy**: the same three connections, and `TelnetHandler`.  The guest is a
login dialogue that writes a stream of tokens (banner, prompts, echos, text); a
packet is any piece of that stream, so prompts arrive alone, together or split
from what precedes them.  The attacker's packets are pieces of a line, whole
lines, lines that raise (a carriage return at the end of a packet), and two
kinds of negotiation.  What `prePasswordData` sends ahead of the rest (three
bytes) may be a whole line itself (`short`).  What the checker says of a login is nondeterministic.

**HoneybeeOutput**: `_send_event` calls `_connect`, which calls `_flush_buffer`,
which calls `_send_event`.  The stack of these calls is a sequence of frames, and
each outcome of the socket is an action.

**AbuseIpdb**: time is ticks; `recall`, `orphans` and `wakeups` are the delayed
calls, those the plugin still holds and those it no longer does.  The dump is
written by threads, in two steps (`open` with "wb", then the pickle); a crash or
a restart may fall between them.  A dump holds the deques, which the reactor
goes on changing: what the file has is one of the states they went through.

**HoneyPotCommand, Commands, HoneyPotShell**: a command class is a table of rules:
on an event (start, line, CTRL-C, CTRL-D, a timer or Deferred, an errback), in a
phase, it runs a script of operations (write, exit, arm, raise, ...) and is in
another phase.  `Commands` gives one definition for each class of
`cowrie/commands`.  `HoneyPotShell` interprets the scripts over the stack: `todo`
is the Python call stack of the current reactor call, so that a command that
exits while the shell below is still in its own `lineReceived` is what it is in
the code.  An exception unwinds `todo` to the frame that catches it.

**TftpClient**: one download, the callbacks its Deferred has, and a server modelled
from the mock server of `cowrie/test/test_tftp.py` behind a lossy network: what
was sent may arrive at any time, any number of times, or not at all.  Other hosts
send whatever they like: the client compares no addresses, takes blocks from
anyone, and answers the sender of the first datagram.

**SessionTracker, HoneyBeeForwarder, WebTrap**: the two tables of sessions with
their expiry; the bounded queue, its worker and `stop`; and the composition with
request threads, the middleware, routes as what they record, the log file, and
the signal handler, which runs between steps of the threads.

`MC...` modules hold the small instances; `...Proofs` modules the theorems.

## 3. Runs

| Run | Instance | Shows |
|---|---|---|
| `pool_leases` | 3 domains, 2 clients, 2 addresses, `max_vm` 2, 3 guests created | `HoldersAreCounted`, `ChosenGuestStaysUsable`, `PoolBounded` |
| `pool_recycle` | recycling, 2 chains, 2 domains, 1 client, 3 guests a pool, numbers that come round after 2; creation and destruction may fail; fair | `GuestIpsDiffer`, `LeaseResolves`, `RecyclingRestarts`, `GuestsMoveOn` |
| `pool_sharing` | 2 clients from 2 addresses, no sharing | **violated** `NoSharingAcrossIps` |
| `ssh_proxy` | 3 packets of the attacker, 2 of the guest, 2 logins, pool unreachable or dropping; fair | packet order, what opens the guest, `BorrowsAsPromised`, sessions end, guests known are given back |
| `ssh_given_back` | 1 packet each way, no pool fault; fair | **violated** `GuestsAreGivenBack` |
| `telnet` | 3 packets of the attacker of five kinds, spoofing on and off; fair | stream order, answers only to prompts, only accepted logins open the guest (or lines that no answer replaced, which it names), `BorrowsAsPromised`, sessions end |
| `telnet_ahead` | 3 lines, spoofing on | **violated** `AcceptedLoginsSendThePassword` |
| `honeybee` | 2 sessions, buffer of 2, 4 events; fair | `TypeOK` (the bound of the buffer), `SentOnce`, `CallsReturn` |
| `abuse` | 1 address, tolerances 1 and 2, 2 logins, 5 ticks, 2 requests, 2 threads; fair | `ReportsAreDeserved`, `CleaningGoesOn`, `SleepEnds` |
| `shell` | 4 inputs; one command of every kind and 22 compound lines first, 7 lines later; 11 exec requests; fair | `BottomIsShell`, `PromptOrBusy`, `InterruptFrees`, `PasswordsAreHidden`, `SessionsGoOn` |
| `tftp` | files of up to 5 blocks, numbers that wrap at 4, 3 retries, other hosts that send; fair | `StoresTheFile`, `SilenceEndsTheDownload` |
| `webtrap` | 2 requests, 2 addresses, 1 cookie, queue of 1, upload of 1 file, 1 tick, 1 signal; fair | `OneSessionPerId`, `LoggedBeforeForwarded`, `ServedRequestsAreRecorded`, `WorkerStops` |

Why the bounds are enough.

- Pool: two clients are the fewest that share a guest, return it in either order
  and time out one another; `max_vm` 2 is the smallest at which the producer
  destroys anything (`existing_pool_size() > 1`); three creations (`MakeBound`) let
  a destroyed guest be replaced while another stays; `ConnBound` bounds a guest's
  counter, which grows without end when the number of a lease leads to another
  guest.  Two chains are what one recycling can produce.  In `pool_recycle` numbers come round after two
  (`IdWrap`), so that the third guest has the number of the first: in the code that
  takes 252 guests, or one recycling.
- SSH: three packets of the attacker let one be held back, one raise and one
  follow; two of the guest are what the flush of its buffer needs; two logins
  allow a failure after a success and the reverse.
- Telnet: three packets are a name, a password and a line after the login, in
  every order and any of them too early; the guest's stream is as long as its
  dialogue, with a second round after a wrong password.
- Output: four events fill and overflow a buffer of two and trigger the flush.
- AbuseIPDB: two logins are what the larger tolerance asks for, which a restart
  may change in either direction; five ticks exceed the window, the schedule and
  a wake-up, and two requests that both meet the rate limit leave two wake-ups,
  so that the plugin loses hold of a clean-up that is scheduled; two threads are
  what the flag `_writing` is for.
- Shell: the first line is one of everything; the later ones are what makes a
  session differ after that: a line that returns, waits, reads a password, ends
  the session, starts a shell, or is chained.  `MaxObjects` is never reached:
  the run would deadlock.
- tftp: `Wide` is smaller than the longest file, so numbers wrap.
- WebTrap: two requests are the fewest that race for a session and for the queue,
  one tick with a lifetime of 0 makes sessions stale, one signal is a shutdown.

Deadlock is checked for the pool and the shell.  `CHECK_DEADLOCK FALSE` is used
where the system really stops: a proxy session or a download that is over, a
bounded log of events, time at its bound, a process that has exited.

### Fairness

- Pool: the worker thread and the reactor run (strong fairness of each chain's
  steps, since the reactor runs a delayed call that is due before it reads its
  sockets again), a call that was begun ends.  A domain that is scanned for ever
  answers at last: the one assumption about QEMU.  Nothing is assumed of clients.
- Both proxies: connection attempts end (endpoints have timeouts), messages
  between proxy and pool arrive, timers fire, a connection that is closed is lost
  at last.  Nothing is assumed of the attacker or the guest.
- HoneyBee output: a call goes on, as every socket operation has a timeout.
- AbuseIPDB: time passes, timers fire, threads go on, a shutdown ends.
- Shell: a method runs to its end; timers fire, each of them (weak fairness), and
  those of commands on the stack however many timers of dead commands keep the
  reactor busy (strong fairness: the reactor calls what is due in each of its
  iterations).  Nothing is assumed of what the attacker types.
- tftp: timeouts are called and the port is closed.  The server, the network and
  the attacker are free.
- WebTrap: the worker goes on; `get` and `_deliver` have timeouts.

### What the violated properties show

- `NoSharingAcrossIps`: `reuse_vm` makes a guest AVAILABLE again and leaves the
  attacker's address in `client_ips`.  The guest goes to a second attacker, and
  the first, who returns, gets it too, as its own.
- `GuestsAreGivenBack`: an attacker who disconnects while the connection to the
  pool is pending leaves `pool_interface` None, so `connectionLost` sends nothing;
  the connection comes up and asks for a guest, which nobody gives back.
  `KnownGuestsAreGivenBack` is what does hold.
- `AcceptedLoginsSendThePassword`: a line typed before the guest asks leaves both
  `inputingLogin` and `inputingPassword` set; `addPacket` then runs
  `processPasswordInput` and `processUsernameInput` on the same data, and the
  second sends the name over the password.

### Seen in the code, and not stated as a property of a run

The models contain these behaviours; no text of the repository promises the
contrary clearly enough to be refuted, or the properties above except them.

- Pool: a pool that was stopped because a request found nothing never restarts
  (`pool_service.py:449`); a failed creation ends the iterations (352); a guest
  may stay USING with no client (478).  A restart that falls into the first
  iteration, which `loop_next_call` does not know of, leaves two chains of
  iterations (150-168): addresses then collide and the pool outgrows its limit.  The
  constant `Overlap` switches this on; of what is checked and proved only
  `PoolTypeOK` holds with it, the rest is about pools without.  A guest's number leads to another guest after 252
  creations (374) or a restart (145): `LeaseResolves` says that nothing else
  makes it.
- SSH and telnet: a guest's connection that comes up after the attacker left ends
  by its timer only.  With `telnet_spoof_authentication` off `authDone` is never
  set, and every guest is given back as unused.  `prePasswordData` sends the first
  three bytes of whatever comes next (`telnet_proxy/handler.py:260`); when they hold
  a carriage return, the guest reads a line that nobody replaced.
- SSH: a packet that raises while the held-back ones are flushed leaves `authDone`
  unset although packets reached the guest (`client_transport.py:91-110`), and the
  guest is given back as unused, against the comment at `server_transport.py:368`.
- HoneyBee output: events that a flush cannot send are lost (145).
- AbuseIPDB: a pickle of a deque that changes meanwhile leaves `_writing` set for
  ever (332); a crash between `open` and the dump leaves an empty file, and the
  plugin then does not start (EOFError is not caught); a second `stop` raises.
- Shell: an exec request that ends in an assignment (`ls; A=1`), is of `(..)`
  alone, is empty or cannot be parsed ends by its 60 s timeout only, since nothing
  calls `processEnded` (`shell/honeypot.py:340-344`, `401-403`): `ExecEnds` is for those
  that end in a command.  `echo a | cat; ls` drops `cat`, because `resume` runs in
  a different pipe; `sh -c` without a command raises IndexError and stays on the
  stack (`commands/bash.py:24`);
  `sh -c exit` removes a command that is no longer there and raises; `$(exit)`
  pops the wrong shell (`stray` records this, and properties about the prompt
  except it); `yes`, `ping` without a count and `adduser` go on after the session;
  `nc` never exits; `apt-get install` hangs until CTRL-C; CTRL-C in `passwd`, `ssh`
  and `adduser` leaves typing hidden.  `password_input` is one flag for the
  session: in `passwd | passwd`, or when `passwd` is typed after CTRL-C stopped an
  `ssh` whose timer still runs, the first to finish turns the echo on while the
  other asks for a password (`shared` records that two such commands were alive at
  once, and `PasswordsAreHidden` excepts it).
- tftp: a datagram of any host with the number that is next is written, and a short
  one ends the download (`commands/tftp.py:102-143`); the first sender of all is the
  one that is answered.  A datagram that is out of order, or of an unknown kind,
  cancels the timeout and sets none: the download then waits until CTRL-C.  A file of more
  than 65535 blocks stalls, as `current_block + 1` matches no number.
- WebTrap: `POST /upload` without a file leaves no event, although
  `routes/catchall.py` says that every request is logged; a request whose last
  write comes after a shutdown closed the file is served and lost; a session found
  by address is not entered under its cookie.

## 4. Proofs

TLAPS checks every leaf; there are no unproved steps.  Every theorem is for all
values of the constants that satisfy the assumptions named in the modules, which
the runs evaluate.

**Pool** (`PoolServiceProofs`).  Two hypotheses appear, which the runs that check
the same property make, too: `~Overlap`, the first iteration of the producer is over
before the pool is recycled, and, for the counters alone, `~Recycle` with
`MakeBound <= IdWrap`: no two guests have had the same number.  Without them the
statements are false.

- `PoolTypeOK`.  `TypeOK` is not inductive: `reuse_vm` copies `prev_state` into
  `state`, and it may be None.  The invariant adds `PrevKnown`: a guest with
  clients has a previous state.
- `PoolRecyclingRestarts` (`~Overlap`): a pool at work whose period ends is started
  again, since what `restart_pool` cancels is there to be cancelled.  `ChainInv` says
  that the chain that is scheduled is the one `loop_next_call` refers to, that an
  iteration in the thread excludes any other chain, and that there is none between
  stop and start.
- `PoolGuestIpsDiffer` (`~Overlap`), from that invariant: the address an iteration has chosen
  stays free until the guest is listed.
- `PoolChosenGuestStaysUsable` (`~Overlap`).  The lock is released between the
  choice of a guest and the writes to it.  `ChoiceInv` says why that is harmless:
  the one iteration that runs beside the reactor meets an empty list, and later
  ones share the reactor's thread with the request.
- `PoolNeverGrowsPastMax` (`~Overlap`).  `CountInv` keeps what an iteration has
  still to create within the configuration it was computed from, although
  `set_configs` may have installed another.
- `PoolLeaseResolves` (`~Overlap`, with recycling and numbers that come round).
  `NumbersInv`: guests of one pool are counted, each listed one has a place of its
  own in that count, and a lease that is not stale is of a guest that has its place
  still or is gone; `ModWindow`: two places less than `IdWrap` apart have different
  numbers.
- `PoolHoldersAreCounted` (`~Recycle`, `MakeBound <= IdWrap`).  There the number finds
  the guest itself; `HoldersInv`: `connected` is the number of clients that hold the
  guest, and a guest about to be made available was never lent.  `FirstPool` is what
  `~Recycle` gives: no lease is stale.

**SSH proxy** (`SshProxyProofs`) and **telnet proxy** (`TelnetProxyProofs`).

- `SshTypeOK`, `TelnetTypeOK`.
- `SshBorrowsAsPromised`, `TelnetBorrowsAsPromised`: both implement `GuestLease`,
  every step mapping to one of its steps or to none.  `LeaseInv` of each says that
  at most one message to the pool is under way, that a guest is lent only between
  grant and return, and that a session whose pool connection is closed sends no
  more.  For SSH, `UseInv` adds what the flag the message is made from has to do
  with the packets: `authDone` is set just when authentication was sent and nothing
  that raises is left in the buffer, which `OrderInv` gives.
- `SshLoginOpensTheGuest`, from `LeaseInv`.
- `SshPacketsInOrder`.  The order of what was forwarded is not inductive alone:
  `OrderInv` says of what was forwarded and what is held back together that they
  are the numbers so far, that nothing is held back once the proxy has
  authenticated to the guest, that only a packet that raises leaves a flush
  unfinished, and that a session learns of a guest before it connects to one, so
  that a connection starts with empty buffers.
- `TelnetStreamsKeepTheirOrder`, `TelnetAnswersWerePromptedFor`, from one invariant,
  `DialogueInv`: an answer that was sent, or a flag that says one is awaited, belongs to a prompt the
  handler has seen (`PromptInv`); the guest's own password is sent only after an
  accepted login (`ShellInv`); nothing is still to come from before what was written
  (`WrittenInv`, `ShownInv`); the guest echoed no more often than it read a name,
  and only echos are taken out (`EchoInv`).
- `TelnetOnlyAcceptedLoginsOpenTheGuest`.  `OpenInv`: while the guest asks for its
  password and has read no answer, either the handler, which has seen the question,
  is waiting for the attacker's line, or what the guest is to read next is what the
  handler put in a line's place, a short line, or a line typed before the question
  was seen.

**HoneyBee output** (`HoneybeeProofs`).  `HoneybeeTypeOK` contains the bound of the
buffer.  `HoneybeeSentOnce`: `PlacesInv` says that an event is in one place: sent,
in the buffer, with one call of `_send_event`, or in the copy one flush works
through, and that the next event is new in all of them.  The proof uses that
`_flush_buffer` copies and clears the buffer in one step.

**AbuseIPDB** (`AbuseIpdbProofs`).  `AbuseCleaningGoesOn` is inductive as it stands:
what uses up the delayed call schedules the next, and what drops it puts the plugin
to sleep.  `AbuseTypeOK` and `AbuseReportsAreDeserved` share `AbuseInv`: every book
there is, the plugin's, those the threads are to write, the file's, holds for an
address logins that were seen, each at a place of its own and in order
(`SoundBook`).  Since time does not go back, `popleft` up to the first login within
the window leaves logins within it only, whichever of these books was loaded.

**WebTrap** (`WebTrapProofs`).

- `WebTrapOneSessionPerId`: `SessionInv` says that a cookie's entry is a session of
  that cookie, and that a session of a cookie which either table holds is that
  entry.  It needs that `_gc` drops a session from both tables or from neither.
- `WebTrapLoggedBeforeForwarded`: `LogInv` says that an event in a thread's hands is
  filed, unless there is no file.  `WebTrapServedRequestsAreRecorded` is about every
  step that ends a request: `AccountInv` says that a request that is marked handled
  has recorded or is an upload, and `DoneIsAccounted` that one that ends has
  recorded, leaves only the sending, found the file closed when it was to write its
  last record, or is an upload.
- `WebTrapTypeOK`, which needs that a request that is about to send has an event
  and records left to make (`Shape`).

**tftp** (`TftpProofs`).  `TftpStoresTheFile`: the server is never more than one
block ahead of the client (`data` is in `1 .. current_block + 1`), and a number in
16 bits is at most the block it stands for; so the block that is accepted is the
next one, unless another host sent it.  `Placed` says so of what is in the artifact,
`Ended` of a download that is over: its last block is another host's, or it has all
of the file's.  True for every length of file and every width.

**Shell** (`ShellProofs`).  Proved for every `Invocations` whose lines obey
`ShellAssumption`, for any number of inputs and of objects.  All of it rests on
`EveryClassIsSound`, which goes through the tables of `Commands` class by class:
which events a rule answers, that only `exit` pops, that only the start of a class
puts anything on the stack or in the pipe, that this, and queueing a line for the
shell, is the first thing a script does, and that every rule for CTRL-C exits but
nc's and gcc's.

- `ShellTypeOK`.  `TypeInv` adds that the stack holds each object once and only
  objects that exist, that the pipe's link is to an object, and that a frame is of
  an object of the kind it runs; `list.remove` and `cmdstack[-1]` therefore find
  what they look for wherever the code relies on it.
- `ShellBottomIsShell`.  `PopInv`: a method that pops is `Command_exit`'s, it is
  the innermost call, and it stands on the top of a stack that has another object
  below.  `BottomInv`: the bottom is a shell, or the very command whose `exit` is
  being executed.  `OverInv`: once the session is closed the stack is empty and
  what is left of the calls puts nothing on it.
- `ShellInterruptFrees`.  `FreeInv`: while the handler of CTRL-C runs, its command
  is off the stack, or is about to exit.  It needs `GccInv`, since gcc's
  handler only cancels its timer and does not exit: gcc is on the stack only while
  its start has still to exit.
- `ShellPasswordsAreHidden`.  The flag `password_input` is one for all commands, so
  the proof is about who may still set it.  `HideInv`: of the three classes that do,
  a method that is not the innermost, or that has exited, sets neither the flag nor
  a timer.  `AloneInv`: until `shared`, one command of these classes at most is on
  the stack, has a timer, or is about to set the flag.  `PhaseInv`: ssh has a timer
  only in its last phase, and both show typing again only in theirs.  `AskInv`: what
  asks for a password has hidden typing, or is about to in the method that runs.
- `ShellPromptOrBusy`.  Nothing in the code says which call will bring the prompt
  back; the invariant does.  In a session that is open, interactive, and in which
  nothing was raised or wrongly popped (`Ordinary`), `PromptInv`: when the shell on
  top of the stack is interactive, it shows the prompt and has nothing pending, or
  one of the calls under way will see to it (`Owed`): it reads or runs for that very
  shell, calls a command, or goes on with a pipe.  That this survives a step needs
  the rest of the invariant.  `LossInv`: a pipe that is not done has a call that goes
  on with it, so `runCommand` may leave the prompt to it.  `GroundInv`: the stack
  never runs empty.  `LexInv`: a line is read for the top of the stack, and a shell
  that waits for a subshell goes on reading right after that is popped.  `NestInv`: a shell that
  is not interactive stands right above the shell or command it reads for, and has a
  call that will pop it, so none is left on the stack between two events; the pop
  uncovers a shell that goes on reading, or a command.  `OnceInv`: no object is in two
  calls that pop it or run its script.  `OpeningInv`: what pushes a shell, inserts
  into the pipe or queues a line is the start of a command, or a line for it, which is
  then the top.

Where a definition computes something by going through a sequence, the models say
what comes out instead of how, because what a recursion computes cannot be proved
here: `InOrder` in `TelnetProxy` by the number of smaller elements, `PopExpired` in
`AbuseIpdb` by the least index that is within the window, and that a least index
exists is proved from the order of a finite range.

Only model-checked: the liveness properties `GuestsMoveOn`, `GuestSessionsEnd`,
`KnownGuestsAreGivenBack`, `TelnetSessionsEnd`, `CallsReturn`, `SleepEnds`,
`SilenceEndsTheDownload`, `WorkerStops` and `SessionsGoOn`: fairness and ENABLED are
outside the prover's reach.  Every invariant and every action property of the runs
has a theorem.

## 5. What the models leave out

- Pool server and NAT with several clients, clients that crash: a proxy's model has
  one live client, and the NAT's tables are not read by the pool.
- Shell: redirection into files, line editing and completion, expansion of
  variables; a sub-command of `sh`, `sudo` and `busybox` is one level deep; a
  Deferred counts as a timer of its command; the text of everything.  That
  `processEnded` may close the connection at once is left out: it is a later event.
  So are two exceptions: resuming an interactive `sh` in an exec session
  (`shell/honeypot.py:484-485`, AttributeError) and data that is redirected or piped
  and cannot be decoded (`shell/honeypot.py:331`).
- Telnet: the TTY log (`sendBackend` logs the newest packet only, and two sessions
  of one second share a file) and the text of names and passwords.
- AbuseIPDB: a wake-up is due within the time bound, so that sleep can end.  That
  a report takes the first and the last login out of a deque which a dump that waits
  may share (`output/abuseipdb.py:367-368`): the dump would then hold less than was
  seen, and never more.
- WebTrap: the content of events and of the sessions' snapshots, the length of the
  back-off; a line the disk refused counts as given to the file, as the code notes
  the error and goes on; several worker processes.
- Not modelled at all, and why: authentication and the rate limiter (sequential;
  `core/auth.py:261` compares bytes with a string, so an accepted combination is
  refused when its attacker returns); the emulated file system (one sequential
  caller); the servers of the medium-interaction honeypot (thin subclasses of
  conch); the other output plugins (no state between events worth checking); the
  LLM back end; scripts; the decoy pages; HonnyPotter (independent requests); the
  XML of libvirt, key exchange and file formats.
