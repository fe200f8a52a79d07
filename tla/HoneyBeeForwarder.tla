--------------------------- MODULE HoneyBeeForwarder ---------------------------
(***************************************************************************)
(* WebTrap's forwarder (WebTrap/webtrap/forwarder.py): a bounded queue     *)
(* that send and stop put into without waiting, and the worker thread that *)
(* delivers what it takes from there.                                      *)
(*                                                                         *)
(* External: the HoneyBee node.  How long the worker sleeps after a        *)
(* failure, from one second to ten, is left out.                           *)
(***************************************************************************)
EXTENDS Naturals, Sequences

CONSTANTS
  Event,      \* events: all that is told apart of them
  max_queue   \* the length of the queue

ASSUME ForwarderAssumption == max_queue \in Nat \ {0}

VARIABLES
  enabled,    \* honeybee_enable
  q,          \* _q
  stop_set,   \* _stop
  worker      \* where the worker thread is, and the event in its hands

forwarderVars == <<enabled, q, stop_set, worker>>

\* What stop puts into the queue.
None == "none"

At(pc) == [pc |-> pc, event |-> None]

\* __init__ with start: the thread runs if the forwarder is enabled.
ForwarderInit ==
  /\ enabled \in BOOLEAN
  /\ q = <<>> /\ stop_set = FALSE
  /\ worker = IF enabled THEN At("check") ELSE At("off")

\* Mutant: the queue has no end.
PutOver(item) == q' = Append(q, item)

\* put_nowait, of what a full queue drops.
Put(item) == q' = IF Len(q) < max_queue THEN Append(q, item) ELSE q

send(event) ==
  /\ IF enabled THEN Put(event) ELSE UNCHANGED q
  /\ UNCHANGED <<enabled, stop_set, worker>>

\* Mutant: it relies on the queue to tell the worker.
stopQuietly ==
  /\ Put(None)
  /\ UNCHANGED <<enabled, stop_set, worker>>

\* stop, up to join.
stop ==
  /\ stop_set' = TRUE
  /\ Put(None)
  /\ UNCHANGED <<enabled, worker>>

\* The worker looks at _stop.
WorkerChecks ==
  /\ worker.pc = "check"
  /\ worker' = IF stop_set THEN At("done") ELSE At("get")
  /\ UNCHANGED <<enabled, q, stop_set>>

\* get, of an event or of what stop put there.
WorkerTakes ==
  /\ worker.pc = "get" /\ q # <<>>
  /\ q' = Tail(q)
  /\ worker' = IF Head(q) = None THEN At("done") ELSE [pc |-> "deliver", event |-> Head(q)]
  /\ UNCHANGED <<enabled, stop_set>>

\* It waited for a second.
WorkerFindsNothing ==
  /\ worker.pc = "get" /\ q = <<>>
  /\ worker' = At("check")
  /\ UNCHANGED <<enabled, q, stop_set>>

\* _deliver.  An event that cannot be written as JSON counts as delivered;
\* when the node refuses it or is too late, the event is dropped, and the
\* worker sleeps before it goes on.
Delivers ==
  /\ worker.pc = "deliver"
  /\ worker' = At("check")
  /\ UNCHANGED <<enabled, q, stop_set>>

Worker == WorkerChecks \/ WorkerTakes \/ WorkerFindsNothing \/ Delivers

-----------------------------------------------------------------------------
(* Properties.                                                             *)

ForwarderTypeOK ==
  /\ enabled \in BOOLEAN /\ stop_set \in BOOLEAN
  /\ q \in Seq(Event \cup {None}) /\ Len(q) <= max_queue
  /\ worker.pc \in {"off", "check", "get", "deliver", "done"}
  /\ worker.event \in IF worker.pc = "deliver" THEN Event ELSE {None}
=============================================================================
