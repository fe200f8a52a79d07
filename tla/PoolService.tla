----------------------------- MODULE PoolService -----------------------------
(***************************************************************************)
(* The VM pool of the cowrie honeypot: class PoolService of                *)
(* cowrie/src/backend_pool/pool_service.py, together with the part of      *)
(* LibvirtBackendService it drives (backend_pool/libvirt).                 *)
(*                                                                         *)
(* Everything runs on one Twisted reactor, with one exception: start_pool  *)
(* sends the FIRST iteration of producer_loop to a worker thread; each     *)
(* later iteration is a reactor.callLater call.  An iteration is a process *)
(* `prod[p]' that moves through the phases of producer_loop.  On the       *)
(* thread it interleaves with every reactor call; on the reactor it        *)
(* occupies it from its timer to its last phase.                           *)
(*                                                                         *)
(* A Guest object and its QEMU domain are one identity d \in Dom; `heap'   *)
(* holds the objects, `guests' the list self.guests of references.         *)
(* External and nondeterministic: which domains answer when their ports    *)
(* are scanned, which USED guests have been free for longer than           *)
(* vm_unused_timeout, libvirt failures, and what clients ask for.          *)
(***************************************************************************)
EXTENDS Integers, Sequences, FiniteSets, SequencesExt

CONSTANTS
  Dom,            \* identities of Guest objects and of their domains
  Client,         \* pool clients, each holding at most one guest at a time
  Ip,             \* attacker addresses
  GuestIp,        \* the addresses of the libvirt network table
  Gen,            \* producer chains: start_pool begins a new one
  Configs,        \* what an "i" message may set: [max, share] records
  DefaultConfig,  \* max_vm and share_guests before any "i" message
  IdWrap,         \* guest_id restarts at 0 when it reaches this (252)
  MakeBound,      \* bound of the model: how many guests one pool creates
  ConnBound,      \* bound of the model: no guest is given to a client beside so many
  Recycle,        \* recycle_period > 0
  Overlap,        \* recycle_period may end inside the first iteration
  SshEnabled,     \* guest_ssh_port > 0
  TelnetEnabled,  \* guest_telnet_port > 0
  QemuFaults      \* what libvirt may fail at: to create, to destroy a domain

Config == [max : Nat, share : BOOLEAN]

ASSUME PoolAssumption ==
  /\ Gen \subseteq Nat \ {0}
  /\ Configs \subseteq Config
  /\ DefaultConfig \in Config
  /\ IdWrap \in Nat \ {0}
  /\ MakeBound \in Nat
  /\ ConnBound \in Nat
  /\ Recycle \in BOOLEAN
  /\ Overlap \in BOOLEAN
  /\ SshEnabled \in BOOLEAN
  /\ TelnetEnabled \in BOOLEAN
  /\ SshEnabled \/ TelnetEnabled  \* __init__ exits the process otherwise
  /\ QemuFaults \subseteq {"create", "destroy"}
  /\ "no ip" \notin GuestIp

VARIABLES
  heap,      \* [Dom -> Guest]: the Guest objects
  guests,    \* self.guests
  made,      \* guests created since start_pool; guest_id is GuestId(made)
  anyUp,     \* self.any_vm_up
  conf,      \* self.max_vm and self.share_guests
  prod,      \* [Gen -> Producer]: one producer chain per start_pool
  pending,   \* chains whose next iteration is scheduled with callLater
  loopCall,  \* chain of the call self.loop_next_call refers to, 0 for None
  recycling, \* a callLater(recycle_period, restart_pool) is pending
  call,      \* the reactor call that is half done, or Idle
  ready,     \* self.qemu.ready
  alive,     \* domains that exist in QEMU
  lease      \* [Client -> Lease]: what request_vm gave and nobody gave back

vars == <<heap, guests, made, anyUp, conf, prod, pending, loopCall,
          recycling, call, ready, alive, lease>>

listVars == <<guests, made, anyUp>>
loopVars == <<pending, loopCall, recycling>>
qemuVars == <<ready, alive>>

-----------------------------------------------------------------------------
State == {"created", "available", "using", "used", "unavailable", "destroyed"}

Guest == [nr : Nat, ips : SUBSET Ip, connected : Int, state : State,
          prev : State \cup {"none"},
          ip : GuestIp \cup {"no ip"}]

\* `nr' counts the guests of one pool from 0: the field id is GuestId(nr).
\* An object of no guest yet, or of a guest nobody refers to any more.
Blank == [nr |-> 0, ips |-> {}, connected |-> 0, state |-> "destroyed",
          prev |-> "none", ip |-> "no ip"]

Phase == {"none", "queued", "mark", "collect", "destroy", "health", "remove",
          "create", "qemu", "avail", "asleep", "dead"}

Producer == [pc : Phase, on : {"thread", "reactor"}, todo : SUBSET Dom, n : Int,
             ip : GuestIp \cup {"no ip"}]

NoProducer == [pc |-> "none", on |-> "reactor", todo |-> {}, n |-> 0,
               ip |-> "no ip"]

\* threads.deferToThread(self.producer_loop)
Deferred == [pc |-> "queued", on |-> "thread", todo |-> {}, n |-> 0,
             ip |-> "no ip"]

Idle == [kind |-> "idle"]
Call == [kind : {"idle", "restart"}]
        \cup [kind : {"request"}, c : Client, ip : Ip, d : Dom]

NoLease == [held |-> FALSE]

\* `stale': the pool was started again since (history, no code reads it).
Lease == {NoLease} \cup [held : {TRUE}, d : Dom, nr : Nat, ip : Ip, stale : BOOLEAN]

-----------------------------------------------------------------------------
Listed == {guests[i] : i \in DOMAIN guests}

\* get_guest_states
InStates(S) == {d \in Listed : heap[d].state \in S}

\* existing_pool_size
PoolSize == Cardinality({i \in DOMAIN guests : heap[guests[i]].state # "destroyed"})

\* Mutant: only guests that were seen up take an address.
FreeIpsUp == {ip \in GuestIp :
                \A d \in InStates({"available", "using", "used"}) : heap[d].ip # ip}

\* is_ip_free
FreeIps == {ip \in GuestIp : \A d \in Listed : heap[d].ip # ip}

\* has_connectivity, when the domains in up accept connections.  nmap_port
\* asks the address, so any domain that has it may answer.
HasConnectivity(ip, up) ==
  LET open      == \E d \in up : heap[d].ip = ip
      hasSsh    == SshEnabled /\ open
      hasTelnet == IF TelnetEnabled /\ ~hasSsh THEN open ELSE TRUE
  IN  hasSsh \/ hasTelnet

\* Mutant: the reset comes one number early.
GuestIdEarly(nr) == nr % (IdWrap - 1)

\* self.guest_id when nr guests have been created since start_pool.
GuestId(nr) == nr % IdWrap

\* The first element of the list that is in S sits at i.
FirstIn(i, S) == guests[i] \in S /\ \A j \in 1 .. i - 1 : guests[j] \notin S

\* Identities no list, domain, client or iteration refers to.
Fresh == {d \in Dom : /\ d \notin Listed \cup alive
                      /\ \A c \in Client : lease[c].held => lease[c].d # d
                      /\ \A p \in Gen : d \notin prod[p].todo
                      /\ call.kind = "request" => call.d # d}

\* Which of them a new guest takes does not matter.
NewDom == CHOOSE d \in Fresh : TRUE

\* The reactor runs one call at a time, and a call runs to its end.
ReactorBusy ==
  \/ call # Idle
  \/ \E p \in Gen : /\ prod[p].on = "reactor"
                    /\ prod[p].pc \notin {"none", "queued", "asleep", "dead"}

-----------------------------------------------------------------------------
Init ==
  /\ heap = [d \in Dom |-> Blank]
  /\ guests = <<>>
  /\ made = 0
  /\ anyUp = FALSE
  /\ conf = DefaultConfig
  /\ \E p \in Gen : prod = [q \in Gen |-> IF q = p THEN Deferred ELSE NoProducer]
  /\ pending = {}
  /\ loopCall = 0
  /\ recycling = Recycle
  /\ call = Idle
  /\ ready = TRUE
  /\ alive = {}
  /\ lease = [c \in Client |-> NoLease]

-----------------------------------------------------------------------------
(* The producer: one action per phase of producer_loop.                    *)

At(p, phase) == prod[p].pc = phase

Running(p) == prod[p].pc \notin {"none", "dead"}

Goto(p, phase) == prod' = [prod EXCEPT ![p].pc = phase]

\* Mutant: the scheduled iterations run in a thread too.
EnterLoopAnyTime(p) ==
  /\ \/ At(p, "queued") /\ UNCHANGED pending
     \/ At(p, "asleep") /\ p \in pending /\ pending' = pending \ {p}
  /\ Goto(p, IF PoolSize > 1 THEN "mark" ELSE "health")
  /\ UNCHANGED <<heap, listVars, conf, loopCall, recycling, call, qemuVars, lease>>

\* Mutant: off by one in the test of the pool size.
EnterLoopOver2(p) ==
  /\ \/ At(p, "queued") /\ UNCHANGED pending
     \/ /\ At(p, "asleep") /\ p \in pending /\ ~ReactorBusy
        /\ pending' = pending \ {p}
  /\ Goto(p, IF PoolSize > 2 THEN "mark" ELSE "health")
  /\ UNCHANGED <<heap, listVars, conf, loopCall, recycling, call, qemuVars, lease>>

\* The top of producer_loop: in its thread, or as the scheduled reactor call.
EnterLoop(p) ==
  /\ \/ At(p, "queued") /\ UNCHANGED pending
     \/ /\ At(p, "asleep") /\ p \in pending /\ ~ReactorBusy
        /\ pending' = pending \ {p}
  /\ Goto(p, IF PoolSize > 1 THEN "mark" ELSE "health")
  /\ UNCHANGED <<heap, listVars, conf, loopCall, recycling, call, qemuVars, lease>>

MarkTimedOut(p) ==
  /\ At(p, "mark")
  /\ \E timedOut \in SUBSET InStates({"used"}) :
       heap' = [d \in Dom |-> IF d \in timedOut
                              THEN [heap[d] EXCEPT !.state = "unavailable"]
                              ELSE heap[d]]
  /\ Goto(p, "collect")
  /\ UNCHANGED <<listVars, conf, loopVars, call, qemuVars, lease>>

\* __producer_destroy_timed_out takes its list of guests without the lock ...
CollectUnavailable(p) ==
  /\ At(p, "collect")
  /\ prod' = [prod EXCEPT ![p].pc = "destroy",
                          ![p].todo = InStates({"unavailable"})]
  /\ UNCHANGED <<heap, listVars, conf, loopVars, call, qemuVars, lease>>

\* ... and walks it.  destroy_guest does nothing when the backend is stopped
\* and swallows a libvirt error: either way the guest becomes "destroyed".
DestroyGuest(p, d) ==
  /\ At(p, "destroy") /\ d \in prod[p].todo
  /\ \/ ready /\ alive' = alive \ {d}
     \/ (~ready \/ "destroy" \in QemuFaults) /\ alive' = alive
  /\ heap' = [heap EXCEPT ![d].state = "destroyed"]
  /\ prod' = [prod EXCEPT ![p].todo = @ \ {d}]
  /\ UNCHANGED <<listVars, conf, loopVars, call, ready, lease>>

DestroyedAll(p) ==
  /\ At(p, "destroy") /\ prod[p].todo = {}
  /\ Goto(p, "health")
  /\ UNCHANGED <<heap, listVars, conf, loopVars, call, qemuVars, lease>>

CheckHealth(p) ==
  /\ At(p, "health")
  /\ \E up \in SUBSET alive :
       heap' = [d \in Dom |->
                  IF /\ d \in InStates({"available", "using", "used"})
                     /\ ~HasConnectivity(heap[d].ip, up)
                  THEN [heap[d] EXCEPT !.state = "unavailable"]
                  ELSE heap[d]]
  /\ Goto(p, "remove")
  /\ UNCHANGED <<listVars, conf, loopVars, call, qemuVars, lease>>

\* self.guests.remove(guest); a removed object is forgotten unless its domain
\* still exists (its address can still answer a port scan).
RemoveDestroyed(p) ==
  /\ At(p, "remove")
  /\ \E i \in DOMAIN guests :
       /\ FirstIn(i, InStates({"destroyed"}))
       /\ guests' = RemoveAt(guests, i)
       /\ heap' = IF guests[i] \in alive THEN heap
                  ELSE [heap EXCEPT ![guests[i]] = Blank]
  /\ UNCHANGED <<made, anyUp, conf, prod, loopVars, call, qemuVars, lease>>

\* Mutant: guests that are not up yet are not counted.
CountMissingUp(p) ==
  /\ At(p, "remove") /\ InStates({"destroyed"}) = {}
  /\ prod' = [prod EXCEPT ![p].pc = "create",
                ![p].n = conf.max - Cardinality(InStates({"available", "using", "used"}))]
  /\ UNCHANGED <<heap, listVars, conf, loopVars, call, qemuVars, lease>>

\* to_create is computed once, before the first create_guest.
CountMissing(p) ==
  /\ At(p, "remove") /\ InStates({"destroyed"}) = {}
  /\ prod' = [prod EXCEPT ![p].pc = "create", ![p].n = conf.max - PoolSize]
  /\ UNCHANGED <<heap, listVars, conf, loopVars, call, qemuVars, lease>>

\* An exception ends the iteration, and with it the chain: nothing reschedules.
Die(p) == prod' = [prod EXCEPT ![p] = [NoProducer EXCEPT !.pc = "dead"]]

\* qemu.create_guest up to the choice of a free address (which one does not
\* matter).  With the backend stopped it returns None, which producer_loop
\* cannot unpack; with no free address it raises.
BeginCreate(p) ==
  /\ At(p, "create") /\ prod[p].n > 0 /\ made < MakeBound
  /\ IF ready /\ FreeIps # {}
     THEN prod' = [prod EXCEPT ![p].pc = "qemu", ![p].ip = CHOOSE ip \in FreeIps : TRUE]
     ELSE Die(p)
  /\ UNCHANGED <<heap, listVars, conf, loopVars, call, qemuVars, lease>>

\* The rest of create_guest and the append to the list.
FinishCreate(p) ==
  /\ At(p, "qemu") /\ Fresh # {}
  /\ heap' = [heap EXCEPT ![NewDom] = [Blank EXCEPT !.nr = made, !.state = "created",
                                                    !.ip = prod[p].ip]]
  /\ guests' = Append(guests, NewDom)
  /\ made' = made + 1
  /\ alive' = alive \cup {NewDom}
  /\ prod' = [prod EXCEPT ![p].pc = "create", ![p].n = @ - 1, ![p].ip = "no ip"]
  /\ UNCHANGED <<anyUp, conf, loopVars, call, ready, lease>>

\* libvirt could not create the domain: create_guest returns None.
FailCreate(p) ==
  /\ At(p, "qemu") /\ "create" \in QemuFaults
  /\ Die(p)
  /\ UNCHANGED <<heap, listVars, conf, loopVars, call, qemuVars, lease>>

CollectCreated(p) ==
  /\ At(p, "create") /\ (prod[p].n <= 0 \/ made >= MakeBound)
  /\ prod' = [prod EXCEPT ![p].pc = "avail", ![p].n = 0,
                          ![p].todo = InStates({"created"})]
  /\ UNCHANGED <<heap, listVars, conf, loopVars, call, qemuVars, lease>>

MarkAvailable(p, d) ==
  /\ At(p, "avail") /\ d \in prod[p].todo
  /\ \E up \in SUBSET alive :
       IF HasConnectivity(heap[d].ip, up)
       THEN heap' = [heap EXCEPT ![d].state = "available"] /\ anyUp' = TRUE
       ELSE UNCHANGED <<heap, anyUp>>
  /\ prod' = [prod EXCEPT ![p].todo = @ \ {d}]
  /\ UNCHANGED <<guests, made, conf, loopVars, call, qemuVars, lease>>

ScheduleNext(p) ==
  /\ At(p, "avail") /\ prod[p].todo = {}
  /\ prod' = [prod EXCEPT ![p].pc = "asleep", ![p].on = "reactor"]
  /\ pending' = pending \cup {p}
  /\ loopCall' = p
  /\ UNCHANGED <<heap, listVars, conf, recycling, call, qemuVars, lease>>

ProducerStep(p) ==
  \/ EnterLoop(p) \/ MarkTimedOut(p) \/ CollectUnavailable(p)
  \/ \E d \in Dom : DestroyGuest(p, d)
  \/ DestroyedAll(p) \/ CheckHealth(p) \/ RemoveDestroyed(p) \/ CountMissing(p)
  \/ BeginCreate(p) \/ FinishCreate(p) \/ FailCreate(p) \/ CollectCreated(p)
  \/ \E d \in Dom : MarkAvailable(p, d)
  \/ ScheduleNext(p)

-----------------------------------------------------------------------------
(* Starting and stopping.                                                  *)

\* loop_next_call is never reset: cancel() raises once the call it refers to
\* has run or was cancelled.
CancelRaises == loopCall # 0 /\ loopCall \notin pending

\* Mutant: the scheduled iteration is not cancelled.
StoppedUncancelled ==
  /\ UNCHANGED <<pending, prod>>
  /\ ready' = FALSE
  /\ alive' = {}

\* What stop_pool changes when it does not raise.  The list is kept.
Stopped ==
  /\ pending' = pending \ {loopCall}
  /\ prod' = [p \in Gen |-> IF p = loopCall THEN NoProducer ELSE prod[p]]
  /\ ready' = FALSE
  /\ alive' = {}

\* restart_pool, first half.  When cancel() raises, the delayed call is over.
RestartStop ==
  /\ ~ReactorBusy /\ recycling
  /\ Overlap \/ \A p \in Gen : prod[p].on = "reactor"
  /\ recycling' = FALSE
  /\ IF CancelRaises
     THEN UNCHANGED <<pending, prod, qemuVars, call>>
     ELSE Stopped /\ call' = [kind |-> "restart"]
  /\ UNCHANGED <<heap, listVars, conf, loopCall, lease>>

\* restart_pool, second half: start_pool.  Objects some iteration still walks
\* stay on the heap; the others are garbage.
StartPool(p) ==
  /\ call.kind = "restart"
  /\ prod[p].pc \in {"none", "dead"}
  /\ ready' = TRUE
  /\ alive' = {}
  /\ guests' = <<>>
  /\ heap' = [d \in Dom |-> IF \E q \in Gen : d \in prod[q].todo THEN heap[d] ELSE Blank]
  /\ made' = 0
  /\ anyUp' = FALSE
  /\ prod' = [prod EXCEPT ![p] = Deferred]
  /\ recycling' = Recycle
  /\ call' = Idle
  /\ lease' = [c \in Client |-> IF lease[c].held THEN [lease[c] EXCEPT !.stale = TRUE]
                               ELSE lease[c]]
  /\ UNCHANGED <<conf, pending, loopCall>>

-----------------------------------------------------------------------------
(* The consumers.                                                          *)

SetConfigs(new) ==
  /\ ~ReactorBusy
  /\ conf' = new
  /\ UNCHANGED <<heap, listVars, prod, loopVars, call, qemuVars, lease>>

Usable == InStates({"using", "used"})

OwnGuests(ip) == {d \in Usable : ip \in heap[d].ips}

LeastBusy == {d \in Usable : \A e \in Usable : heap[d].connected <= heap[e].connected}

\* Where request_vm looks: the first of these lists that is not empty.
Candidates(ip) ==
  IF OwnGuests(ip) # {} THEN OwnGuests(ip)
  ELSE IF InStates({"available"}) # {} THEN InStates({"available"})
  ELSE IF conf.share THEN LeastBusy ELSE {}

\* request_vm up to the choice of a guest, made under the lock.
SelectGuest(c, ip) ==
  /\ ~ReactorBusy /\ ~lease[c].held
  /\ \E i \in DOMAIN guests :
       /\ FirstIn(i, Candidates(ip)) /\ heap[guests[i]].connected < ConnBound
       /\ call' = [kind |-> "request", c |-> c, ip |-> ip, d |-> guests[i]]
  /\ UNCHANGED <<heap, listVars, conf, prod, loopVars, qemuVars, lease>>

\* request_vm after the choice, without the lock.
GrantGuest ==
  /\ call.kind = "request"
  /\ LET g == heap[call.d]
     IN  /\ heap' = [heap EXCEPT ![call.d] =
                       [g EXCEPT !.prev = g.state, !.state = "using",
                                 !.connected = @ + 1, !.ips = @ \cup {call.ip}]]
         /\ lease' = [lease EXCEPT ![call.c] =
                        [held |-> TRUE, d |-> call.d, nr |-> g.nr, ip |-> call.ip, stale |-> FALSE]]
  /\ call' = Idle
  /\ UNCHANGED <<listVars, conf, prod, loopVars, qemuVars>>

\* request_vm finds nothing: a pool that once had a guest up is stopped, and
\* the client is told that no VM is available (or its connection is dropped,
\* when stop_pool raises).
RefuseRequest(c, ip) ==
  /\ ~ReactorBusy /\ ~lease[c].held
  /\ Candidates(ip) = {}
  /\ IF anyUp /\ ~CancelRaises THEN Stopped
     ELSE UNCHANGED <<pending, prod, qemuVars>>
  /\ UNCHANGED <<heap, listVars, conf, loopCall, recycling, call, lease>>

WithId(id) == {d \in Listed : GuestId(heap[d].nr) = id}

\* free_vm and reuse_vm look the guest up by its number; c forgets its lease
\* whether or not one is found.
Release(c, After(_)) ==
  /\ ~ReactorBusy /\ lease[c].held
  /\ IF WithId(GuestId(lease[c].nr)) = {} THEN UNCHANGED heap
     ELSE \E i \in DOMAIN guests :
            /\ FirstIn(i, WithId(GuestId(lease[c].nr)))
            /\ heap' = [heap EXCEPT ![guests[i]] = After(@)]
  /\ lease' = [lease EXCEPT ![c] = NoLease]
  /\ UNCHANGED <<listVars, conf, prod, loopVars, call, qemuVars>>

\* Mutant: the first client to leave frees the guest.
FreedAtOnce(g) == [g EXCEPT !.connected = @ - 1, !.state = "used"]

Freed(g) ==
  [g EXCEPT !.connected = @ - 1,
            !.state = IF g.connected = 1 THEN "used" ELSE @]

Reverted(g) ==
  IF g.connected = 1 THEN [g EXCEPT !.connected = 0, !.state = g.prev, !.prev = "none"]
  ELSE [g EXCEPT !.connected = @ - 1]

FreeVm(c)  == Release(c, Freed)
ReuseVm(c) == Release(c, Reverted)

-----------------------------------------------------------------------------
Next ==
  \/ \E p \in Gen : ProducerStep(p)
  \/ RestartStop
  \/ \E p \in Gen : StartPool(p)
  \/ \E new \in Configs : SetConfigs(new)
  \/ \E c \in Client, ip \in Ip : SelectGuest(c, ip)
  \/ GrantGuest
  \/ \E c \in Client, ip \in Ip : RefuseRequest(c, ip)
  \/ \E c \in Client : FreeVm(c)
  \/ \E c \in Client : ReuseVm(c)

Spec == Init /\ [][Next]_vars

\* The worker thread runs, a reactor call runs to its end, and the reactor
\* runs a delayed call that is due before it looks at its sockets again.
\* A domain that is scanned again and again answers at last.  Nothing is
\* assumed of the clients or of time.
Fairness ==
  /\ \A p \in Gen : SF_vars(ProducerStep(p))
  /\ \A d \in Dom :
       SF_vars(\E p \in Gen : MarkAvailable(p, d) /\ heap'[d].state = "available")
  /\ WF_vars(GrantGuest)
  /\ WF_vars(RestartStop)
  /\ WF_vars(\E p \in Gen : StartPool(p))

FairSpec == Spec /\ Fairness

-----------------------------------------------------------------------------
(* Properties.                                                             *)

\* The type of every variable: a state, a phase or a number outside its range
\* would mean a step that producer_loop, request_vm or free_vm cannot take.
TypeOK ==
  /\ heap \in [Dom -> Guest]
  /\ guests \in Seq(Dom)
  /\ made \in Nat
  /\ anyUp \in BOOLEAN
  /\ conf \in Config
  /\ prod \in [Gen -> Producer]
  /\ pending \subseteq Gen
  /\ loopCall \in Gen \cup {0}
  /\ recycling \in BOOLEAN
  /\ call \in Call
  /\ ready \in BOOLEAN
  /\ alive \subseteq Dom
  /\ lease \in [Client -> Lease]

Holders(d) == {c \in Client : lease[c].held /\ lease[c].d = d}

\* free_vm and reuse_vm find a guest by its number.  The number a client was
\* given leads to another guest only if the pool was started again since, or
\* IdWrap guests were created from the one to the other.
LeaseResolves ==
  \A c \in Client : lease[c].held =>
    \A d \in WithId(GuestId(lease[c].nr)) :
      \/ d = lease[c].d \/ lease[c].stale
      \/ heap[d].nr \notin lease[c].nr - IdWrap + 1 .. lease[c].nr + IdWrap - 1

\* guest.connected counts the clients that hold the guest, and a guest that
\* may be timed out, or given to a new attacker, has none:
\* __producer_mark_timed_out and __consumers_get_available_guest look at the
\* state alone (the comment there gives up on testing guest.connected).
HoldersAreCounted ==
  \A d \in Listed :
    /\ heap[d].connected = Cardinality(Holders(d))
    /\ heap[d].state \in {"created", "available", "used"} => Holders(d) = {}

\* request_vm writes to its guest after it let go of the lock: the guest is
\* then still one that may be served.
ChosenGuestStaysUsable ==
  call.kind = "request" =>
    /\ call.d \in Listed
    /\ heap[call.d].state \in {"available", "using", "used"}

\* Two guests of the pool never have the same address.
GuestIpsDiffer ==
  \A i, j \in DOMAIN guests :
    i # j => heap[guests[i]].ip # heap[guests[j]].ip

\* The pool never lists more guests than the largest configuration allows.
PoolBounded ==
  \E cf \in Configs \cup {DefaultConfig} : Len(guests) <= cf.max

\* A pool at work: not stopped, and no exception has ended the iterations.
Producing == ready /\ \E p \in Gen : Running(p)

\* producer_loop: as long as no exception has ended the iterations, a guest
\* that lost its connectivity leaves the list, if the pool holds another one,
\* and one that can be reached at last is served.
GuestsMoveOn ==
  \A d \in Dom :
    /\ []<>~(/\ Producing /\ PoolSize > 1
             /\ d \in Listed /\ heap[d].state = "unavailable")
    /\ []<>~(Producing /\ d \in Listed /\ heap[d].state = "created")

\* restart_pool cancels loop_next_call, and ends before start_pool if that
\* raises: when recycle_period ends in a pool at work, and not inside an
\* iteration in the thread, the pool is started again.
RecyclingRestarts ==
  [][/\ recycling /\ ~recycling'
     /\ Producing /\ \A p \in Gen : prod[p].on = "reactor"
     => call'.kind = "restart"]_vars

\* docs/BACKEND_POOL.rst says that without share_guests a guest goes to one
\* attacker address only: while a client holds it, no client from another
\* address is given it.
NoSharingAcrossIps ==
  [][~conf.share =>
       \A c1, c2 \in Client :
         /\ lease[c1].held
         /\ ~lease[c2].held /\ lease'[c2].held
         /\ lease'[c2].d = lease[c1].d
         => lease'[c2].ip = lease[c1].ip]_vars
=============================================================================
