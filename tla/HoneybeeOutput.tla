---------------------------- MODULE HoneybeeOutput ----------------------------
(***************************************************************************)
(* The output plugin that sends cowrie's events to a HoneyBee node:        *)
(* class Output of cowrie/src/cowrie/output/honeybee.py, below the emit    *)
(* hook of cowrie/src/cowrie/core/output.py.                               *)
(*                                                                         *)
(* Everything happens in one blocking call of emit (or of stop), but that  *)
(* call is a knot of mutual recursion: _send_event connects, _connect      *)
(* flushes the buffer, _flush_buffer sends events.  The calls under way    *)
(* are the frames of `stack', the innermost one last, and each outcome of  *)
(* the socket is a choice.  An exception nobody catches empties the stack. *)
(*                                                                         *)
(* Left out: what an event says, its enrichment, the retries of _connect   *)
(* (it succeeds at some attempt or at none) and its delays.                *)
(***************************************************************************)
EXTENDS Naturals, Sequences, FiniteSets, SequencesExt

CONSTANTS
  Session,    \* transports, each with a session number of its own
  BufferSize, \* buffer_size
  MaxEvent    \* bound of the model: events that are logged

ASSUME HoneybeeAssumption ==
  /\ BufferSize \in Nat \ {0}
  /\ MaxEvent \in Nat

VARIABLES
  sessions,  \* the keys of self.sessions and self.ips
  closed,    \* transports that are closed
  connected, \* self.connected; self.sock is None exactly when a write finds
             \* it FALSE
  buffer,    \* self.event_buffer
  stack,     \* the calls under way
  ret,       \* what the call that just returned gave: "true", "false", "none"
  stopped,   \* stop() was called
  nEvent,    \* events logged so far
  sent       \* events handed to a socket, in order

vars == <<sessions, closed, connected, buffer, stack, ret, stopped, nEvent, sent>>
hookVars == <<sessions, closed, stopped, nEvent>>
sinkVars == <<connected, buffer, sent>>

-----------------------------------------------------------------------------
Event == [n : Nat, kind : {"connect", "other", "closed"}, s : Session]

\* Calls: emit(ev), stop(), _connect(), _flush_buffer() with the copy of the
\* buffer it still has to send, and _send_event(ev, buffer_on_fail).
Emitting(ev) == [fn |-> "emit", ev |-> ev]
Stopping == [fn |-> "stop"]
Connecting(pc) == [fn |-> "connect", pc |-> pc]
Flushing(pc, todo) == [fn |-> "flush", pc |-> pc, todo |-> todo]
Sending(pc, ev, keep) == [fn |-> "send", pc |-> pc, ev |-> ev, keep |-> keep]

Busy == stack # <<>>
Top == Last(stack)
Below == Front(stack)
In(fn, pc) == Busy /\ Top.fn = fn /\ Top.pc = pc

Return(value) == stack' = Below /\ ret' = value
Goto(frame) == stack' = Append(Below, frame) /\ ret' = "none"
CallThen(frame, callee) == stack' = Below \o <<frame, callee>> /\ ret' = "none"

Init ==
  /\ sessions = {} /\ closed = {}
  /\ connected = FALSE /\ buffer = <<>>
  /\ stack = <<Connecting("try")>>  \* __init__ calls start
  /\ ret = "none"
  /\ stopped = FALSE
  /\ nEvent = 0 /\ sent = <<>>

-----------------------------------------------------------------------------
(* emit, write and stop.                                                   *)

\* An event of a session that emit does not know raises a KeyError in emit.
Log(kind, s) ==
  /\ ~Busy /\ nEvent < MaxEvent
  /\ s \notin closed
  /\ nEvent' = nEvent + 1
  /\ sessions' = IF kind = "connect" THEN sessions \cup {s} ELSE sessions
  /\ closed' = IF kind = "closed" THEN closed \cup {s} ELSE closed
  /\ LET ev == [n |-> nEvent + 1, kind |-> kind, s |-> s]
     IN  stack' = IF s \in sessions'
                  THEN <<Emitting(ev), Sending("begin", ev, TRUE)>> ELSE <<>>
  /\ ret' = "none"
  /\ UNCHANGED <<sinkVars, stopped>>

\* The rest of emit.
Logged ==
  /\ Busy /\ Top.fn = "emit"
  /\ Return("none")
  /\ sessions' = IF Top.ev.kind = "closed" THEN sessions \ {Top.ev.s} ELSE sessions
  /\ UNCHANGED <<sinkVars, closed, stopped, nEvent>>

\* Before the reactor stops; events are still logged after it.
Stop ==
  /\ ~Busy /\ ~stopped
  /\ stopped' = TRUE
  /\ stack' = <<Stopping, Flushing("begin", <<>>)>> /\ ret' = "none"
  /\ UNCHANGED <<sinkVars, sessions, closed, nEvent>>

Stopped ==
  /\ Busy /\ Top.fn = "stop"
  /\ connected' = FALSE
  /\ Return("none")
  /\ UNCHANGED <<hookVars, buffer, sent>>

-----------------------------------------------------------------------------
(* _connect                                                                *)

\* Its first test, for a connection that is there, never succeeds: no caller
\* gets here with one.
Connect ==
  /\ In("connect", "try") /\ ~connected
  /\ connected' = TRUE
  /\ CallThen(Connecting("flushed"), Flushing("begin", <<>>))
  /\ UNCHANGED <<hookVars, buffer, sent>>

\* Every attempt failed.
CannotConnect ==
  /\ In("connect", "try") /\ ~connected
  /\ Return("false")
  /\ UNCHANGED <<hookVars, sinkVars>>

\* True, whether or not the flush has lost the connection again.
Connected ==
  /\ In("connect", "flushed")
  /\ Return("true")
  /\ UNCHANGED <<hookVars, sinkVars>>

-----------------------------------------------------------------------------
(* _flush_buffer                                                           *)

\* Mutant: the buffer is cleared when everything is sent.
TakeBufferLate ==
  /\ In("flush", "begin")
  /\ Goto(Flushing("loop", IF connected THEN buffer ELSE <<>>))
  /\ UNCHANGED <<hookVars, sinkVars>>

\* The buffer is copied and cleared before the first event is sent.
TakeBuffer ==
  /\ In("flush", "begin")
  /\ IF connected THEN Goto(Flushing("loop", buffer)) /\ buffer' = <<>>
     ELSE Goto(Flushing("loop", <<>>)) /\ UNCHANGED buffer
  /\ UNCHANGED <<hookVars, connected, sent>>

\* Mutant: an event is tried until it is sent.
FlushNextAgain ==
  /\ In("flush", "loop") /\ Top.todo # <<>>
  /\ CallThen(Top, Sending("begin", Head(Top.todo), FALSE))
  /\ UNCHANGED <<hookVars, sinkVars>>

FlushNext ==
  /\ In("flush", "loop") /\ Top.todo # <<>>
  /\ CallThen(Flushing("loop", Tail(Top.todo)),
              Sending("begin", Head(Top.todo), FALSE))
  /\ UNCHANGED <<hookVars, sinkVars>>

Flushed ==
  /\ In("flush", "loop") /\ Top.todo = <<>>
  /\ Return("none")
  /\ UNCHANGED <<hookVars, sinkVars>>

-----------------------------------------------------------------------------
(* _send_event                                                             *)

\* Mutant: off by one in the test of the length.
BufferedOver(ev) ==
  buffer' = Append(IF Len(buffer) > BufferSize THEN Tail(buffer) ELSE buffer, ev)

\* _buffer_event
Buffered(ev) ==
  buffer' = Append(IF Len(buffer) >= BufferSize THEN Tail(buffer) ELSE buffer, ev)

GiveUp ==
  /\ IF Top.keep THEN Buffered(Top.ev) ELSE UNCHANGED buffer
  /\ Return("false")
  /\ UNCHANGED <<hookVars, connected, sent>>

BeginSend ==
  /\ In("send", "begin")
  /\ IF connected THEN Goto([Top EXCEPT !.pc = "write"])
     ELSE CallThen([Top EXCEPT !.pc = "joined"], Connecting("try"))
  /\ UNCHANGED <<hookVars, sinkVars>>

Joined ==
  /\ In("send", "joined") /\ ret = "true"
  /\ Goto([Top EXCEPT !.pc = "write"])
  /\ UNCHANGED <<hookVars, sinkVars>>

NotJoined == In("send", "joined") /\ ret = "false" /\ GiveUp

\* The socket takes the event: at once, or after the reconnection.
Write ==
  /\ In("send", "write") \/ (In("send", "rejoined") /\ ret = "true")
  /\ connected
  /\ sent' = Append(sent, Top.ev)
  /\ Return("true")
  /\ UNCHANGED <<hookVars, connected, buffer>>

WriteFails ==
  /\ In("send", "write") /\ connected
  /\ connected' = FALSE
  /\ CallThen([Top EXCEPT !.pc = "rejoined"], Connecting("try"))
  /\ UNCHANGED <<hookVars, buffer, sent>>

\* self.sock is None: an AttributeError, which nothing up to emit catches.
WriteRaises ==
  /\ In("send", "write") /\ ~connected
  /\ stack' = <<>> /\ ret' = "none"
  /\ UNCHANGED <<hookVars, sinkVars>>

\* No new connection, or the event could not be sent on it either.  Whatever
\* the second attempt raises, self.connected stays as it is.
RewriteFails == In("send", "rejoined") /\ GiveUp

-----------------------------------------------------------------------------
Returning ==
  \/ Logged \/ Stopped
  \/ Connect \/ CannotConnect \/ Connected
  \/ TakeBuffer \/ FlushNext \/ Flushed
  \/ BeginSend \/ Joined \/ NotJoined
  \/ Write \/ WriteFails \/ WriteRaises \/ RewriteFails

Next ==
  \/ \E kind \in {"connect", "other", "closed"}, s \in Session : Log(kind, s)
  \/ Stop
  \/ Returning

Spec == Init /\ [][Next]_vars

\* A call that was made goes on: every socket operation has a timeout.
FairSpec == Spec /\ WF_vars(Returning)

-----------------------------------------------------------------------------
(* Properties.                                                             *)

Frame ==
  [fn : {"emit"}, ev : Event] \cup {Stopping}
  \cup [fn : {"connect"}, pc : {"try", "flushed"}]
  \cup [fn : {"flush"}, pc : {"begin", "loop"}, todo : Seq(Event)]
  \cup [fn : {"send"}, pc : {"begin", "joined", "write", "rejoined"}, ev : Event,
        keep : BOOLEAN]

\* The type of every variable; event_buffer holds at most buffer_size events.
TypeOK ==
  /\ sessions \subseteq Session /\ closed \subseteq Session
  /\ connected \in BOOLEAN /\ stopped \in BOOLEAN
  /\ buffer \in Seq(Event) /\ Len(buffer) <= BufferSize
  /\ \A i \in DOMAIN stack : stack[i] \in Frame
  /\ ret \in {"true", "false", "none"}
  /\ nEvent \in 0 .. MaxEvent
  /\ sent \in Seq(Event)

\* The events that were buffered and have been neither sent nor lost: in the
\* buffer, or in the copy a flush works through.
Waiting ==
  ToSet(buffer)
  \cup (UNION {ToSet(stack[i].todo) : i \in {j \in DOMAIN stack : stack[j].fn = "flush"}})
  \cup {stack[i].ev : i \in {j \in DOMAIN stack : stack[j].fn = "send" /\ ~stack[j].keep}}

\* However sends, reconnections and flushes interleave, no event is taken by
\* the socket twice (sendall returned), and none that was waits to be sent
\* again.
SentOnce ==
  /\ IsInjective(sent)
  /\ ToSet(sent) \cap Waiting = {}

\* A call of emit, stop or start returns or raises: write blocks the reactor,
\* but not for ever.
CallsReturn == Busy ~> ~Busy
=============================================================================
