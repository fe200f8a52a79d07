------------------------------- MODULE SshProxy -------------------------------
(***************************************************************************)
(* One session of cowrie's SSH proxy, from the attacker's connection to    *)
(* its end: FrontendSSHTransport and BackendSSHTransport (ssh_proxy), the  *)
(* handler SSH (ssh_proxy/protocols/ssh.py) that both hand their packets   *)
(* to, the PoolClient that asks the pool for a guest (pool_interface), and *)
(* the part of PoolServer that answers it (backend_pool/pool_server.py).   *)
(*                                                                         *)
(* All of it runs on one reactor: a callback is one action.  The order of  *)
(* the callbacks of the three connections is open.  loseConnection stops   *)
(* the reading of a connection; connectionLost comes later.  An exception  *)
(* in dataReceived ends the connection the data came from.                 *)
(*                                                                         *)
(* External: conch (key exchange, the userauth service with its own login  *)
(* timer, the order of an answer to a request) and the network.  A client  *)
(* that has not finished its key exchange is one that sends nothing.       *)
(***************************************************************************)
EXTENDS Naturals, Sequences, SequencesExt

CONSTANTS
  FrontKinds,  \* what the packets of the attacker may be to the handler
  BackKinds,   \* what the packets of the guest may be to the handler
  MaxFront,    \* bound of the model: packets the attacker sends
  MaxBack,     \* bound of the model: packets the guest sends
  MaxAuth,     \* bound of the model: authentication requests
  PoolFaults   \* what may go wrong with the pool: {"connect", "drop"}

ASSUME SshProxyAssumption ==
  /\ FrontKinds \subseteq {"data", "open", "bad"}
  /\ BackKinds \subseteq {"data", "local", "bad"}
  /\ MaxFront \in Nat /\ MaxBack \in Nat /\ MaxAuth \in Nat
  /\ PoolFaults \subseteq {"connect", "drop"}

VARIABLES
  front,    \* the attacker's connection
  asked,    \* the attacker asked for the ssh-userauth service
  authed,   \* frontendAuthenticated
  tries,    \* authentication requests so far
  timer,    \* the TimeoutMixin of the frontend is set
  conn,     \* backendConnected
  delayed,  \* delayedPackets of the frontend
  pool,     \* the connection of the PoolClient, "none" without a pool
  hasVm,    \* vm_id is not None
  toPool,   \* messages on their way to the pool
  answer,   \* the answer on its way to the PoolClient
  vm,       \* the guest, as the pool sees it
  back,     \* the connection to the guest
  authDone, \* authDone of the BackendSSHTransport
  bdelayed, \* delayedPackets of the BackendSSHTransport
  nFront,   \* packets that arrived from the attacker
  nBack,    \* packets that arrived from the guest
  toBack,   \* the attacker's packets handled, in order
  toFront   \* the guest's packets handled, in order

frontVars == <<asked, authed, tries>>
poolVars == <<pool, hasVm, toPool, answer, vm>>
backVars == <<authDone, bdelayed>>
outVars == <<nFront, nBack, toBack, toFront>>
vars == <<front, frontVars, timer, conn, delayed, poolVars, back, backVars, outVars>>

-----------------------------------------------------------------------------
\* A packet is "local" to the proxy (sendOn is False), opens a session
\* channel, is "bad" (parse_num_packet raises, as on an unknown channel), or
\* is forwarded like any other.
Packet == [n : Nat, kind : {"data", "open", "local", "bad"}]

\* sshParse.client is set by connectionMade and never reset.
HasClient == back \in {"connected", "secure", "closing", "lost"}

Init ==
  /\ front = "open"
  /\ asked = FALSE /\ authed = FALSE /\ tries = 0 /\ timer = FALSE
  /\ conn = FALSE /\ delayed = <<>>
  /\ \/ pool = "connecting" /\ back = "none"
     \/ pool = "none" /\ back = "connecting"
  /\ hasVm = FALSE /\ toPool = <<>> /\ answer = "none" /\ vm = "none"
  /\ authDone = FALSE /\ bdelayed = <<>>
  /\ nFront = 0 /\ nBack = 0 /\ toBack = <<>> /\ toFront = <<>>

-----------------------------------------------------------------------------
(* What several handlers do.                                               *)

\* self.transport.loseConnection(), where there is still a transport.
Closing(tcp) == IF tcp \in {"open", "connected", "secure"} THEN "closing" ELSE tcp

\* Mutant: only a guest that was used is given back.
ReturnUsed == IF hasVm /\ authDone THEN Append(toPool, "f") ELSE toPool

\* send_vm_free
Return == IF ~hasVm THEN toPool ELSE Append(toPool, IF authDone THEN "f" ELSE "u")

\* connectionLost of the frontend.
FrontGone ==
  /\ front' = "lost"
  /\ timer' = FALSE
  /\ back' = Closing(back)
  /\ IF pool = "open" THEN toPool' = Return /\ pool' = "closed"
     ELSE UNCHANGED <<toPool, pool>>
  /\ UNCHANGED <<hasVm, answer, vm>>

\* How many packets of the sequence are handled before one raises.  To write
\* to a frontend that is gone raises too.
Handled(packets, raising) ==
  CHOOSE k \in 0 .. Len(packets) :
    /\ \A i \in 1 .. k : packets[i].kind \notin raising
    /\ k < Len(packets) => packets[k + 1].kind \in raising

Opens(packets) == \E i \in DOMAIN packets : packets[i].kind = "open"

\* authenticateBackend once both sides are ready: it sends the credentials
\* and what the attacker has sent so far.  When a packet raises, the rest of
\* the method is skipped.
AuthenticateBackend ==
  LET k == Handled(delayed, {"bad"})
      all == k = Len(delayed)
  IN  /\ conn' = TRUE
      /\ toBack' = toBack \o SubSeq(delayed, 1, k)
      /\ timer' = (timer \/ Opens(SubSeq(delayed, 1, k)))
      /\ delayed' = IF all THEN <<>> ELSE delayed
      /\ authDone' = (authDone \/ all)

\* The flush did not come to its end: authentication was sent, authDone is
\* not set, and packet_buffer holds back whatever follows.
Jammed == conn /\ ~authDone

-----------------------------------------------------------------------------
(* The pool.                                                               *)

\* pool_connection_success: whether or not the attacker is still there.
PoolConnected ==
  /\ pool = "connecting"
  /\ pool' = "open"
  /\ toPool' = Append(toPool, "r")
  /\ UNCHANGED <<front, frontVars, timer, conn, delayed, hasVm, answer, vm, back,
                 backVars, outVars>>

\* pool_connection_error
PoolUnreachable ==
  /\ pool = "connecting" /\ "connect" \in PoolFaults
  /\ pool' = "failed"
  /\ front' = Closing(front)
  /\ UNCHANGED <<frontVars, timer, conn, delayed, hasVm, toPool, answer, vm, back,
                 backVars, outVars>>

\* PoolServer.dataReceived, for a request.  When request_vm raises anything
\* but NoAvailableVMs the server drops the connection, which PoolClient does
\* not notice.
ServeRequest ==
  /\ toPool # <<>> /\ Head(toPool) = "r"
  /\ toPool' = Tail(toPool)
  /\ \/ vm' = "held" /\ answer' = "granted"
     \/ answer' = "refused" /\ UNCHANGED vm
     \/ "drop" \in PoolFaults /\ UNCHANGED <<vm, answer>>
  /\ UNCHANGED <<front, frontVars, timer, conn, delayed, pool, hasVm, back, backVars,
                 outVars>>

\* PoolServer.dataReceived, for a guest that is given back.
ServeReturn ==
  /\ toPool # <<>> /\ Head(toPool) \in {"f", "u"}
  /\ toPool' = Tail(toPool)
  /\ vm' = IF Head(toPool) = "f" THEN "dirty" ELSE "clean"
  /\ UNCHANGED <<front, frontVars, timer, conn, delayed, pool, hasVm, answer, back,
                 backVars, outVars>>

\* PoolClient.dataReceived and received_pool_data.
GuestGranted ==
  /\ pool = "open" /\ answer = "granted"
  /\ answer' = "none"
  /\ hasVm' = TRUE
  /\ back' = "connecting"
  /\ UNCHANGED <<front, frontVars, timer, conn, delayed, pool, toPool, vm, backVars,
                 outVars>>

\* The error code: parent.loseConnection(), which raises when the frontend is
\* gone and so ends the connection to the pool.
GuestRefused ==
  /\ pool = "open" /\ answer = "refused"
  /\ answer' = "none"
  /\ front' = Closing(front)
  /\ pool' = IF front = "lost" THEN "closed" ELSE pool
  /\ UNCHANGED <<frontVars, timer, conn, delayed, hasVm, toPool, vm, back, backVars,
                 outVars>>

-----------------------------------------------------------------------------
(* The connection to the guest.                                            *)

\* connectionMade of the backend and backend_connection_success.
BackendConnects ==
  /\ back = "connecting"
  /\ back' = "connected"
  /\ timer' = TRUE
  /\ UNCHANGED <<front, frontVars, conn, delayed, poolVars, backVars, outVars>>

\* backend_connection_error
BackendRefuses ==
  /\ back = "connecting"
  /\ back' = "failed"
  /\ front' = Closing(front)
  /\ UNCHANGED <<frontVars, timer, conn, delayed, poolVars, backVars, outVars>>

\* Mutant: the backend does not wait for the attacker to authenticate.
BackendSecureUnasked ==
  /\ back = "connected"
  /\ AuthenticateBackend
  /\ back' = "secure" /\ UNCHANGED front
  /\ UNCHANGED <<frontVars, poolVars, bdelayed, nFront, nBack, toFront>>

\* connectionSecure.  If a packet raises, the connection to the guest ends,
\* and with it the session.
BackendSecure ==
  /\ back = "connected"
  /\ IF ~authed
     THEN back' = "secure" /\ UNCHANGED <<front, timer, conn, delayed, authDone, toBack>>
     ELSE /\ AuthenticateBackend
          /\ IF Handled(delayed, {"bad"}) = Len(delayed)
             THEN back' = "secure" /\ UNCHANGED front
             ELSE back' = "lost" /\ front' = Closing(front)
  /\ UNCHANGED <<frontVars, poolVars, bdelayed, nFront, nBack, toFront>>

\* connectionLost of the backend.
BackendLost ==
  /\ back \in {"connected", "secure", "closing"}
  /\ back' = "lost"
  /\ front' = Closing(front)
  /\ UNCHANGED <<frontVars, timer, conn, delayed, poolVars, backVars, outVars>>

\* Mutant: what was held back goes out after the packet that arrived.
BackendPacketFirst(kind) ==
  /\ back = "secure" /\ nBack < MaxBack
  /\ nBack' = nBack + 1
  /\ LET packet == [n |-> nBack + 1, kind |-> kind]
     IN  IF ~authed
         THEN bdelayed' = Append(bdelayed, packet) /\ UNCHANGED toFront
         ELSE toFront' = Append(toFront, packet) \o bdelayed /\ bdelayed' = <<>>
  /\ UNCHANGED <<front, back, frontVars, timer, conn, delayed, poolVars, authDone,
                 nFront, toBack>>

\* dispatchMessage and packet_buffer of the backend: what was held back goes
\* out before the packet that arrived.
BackendPacket(kind) ==
  /\ back = "secure" /\ nBack < MaxBack
  /\ nBack' = nBack + 1
  /\ LET all == Append(bdelayed, [n |-> nBack + 1, kind |-> kind])
         k == Handled(all, IF front = "lost" THEN {"bad", "data"} ELSE {"bad"})
     IN  IF ~authed
         THEN bdelayed' = all /\ UNCHANGED <<toFront, back, front>>
         ELSE /\ toFront' = toFront \o SubSeq(all, 1, k)
              /\ IF k = Len(all)
                 THEN bdelayed' = <<>> /\ UNCHANGED <<back, front>>
                 ELSE back' = "lost" /\ front' = Closing(front) /\ UNCHANGED bdelayed
  /\ UNCHANGED <<frontVars, timer, conn, delayed, poolVars, authDone, nFront, toBack>>

-----------------------------------------------------------------------------
(* The attacker's connection.                                              *)

\* ssh_SERVICE_REQUEST: conch starts its login timer with the service.
RequestService ==
  /\ front = "open" /\ ~asked
  /\ asked' = TRUE
  /\ UNCHANGED <<front, authed, tries, timer, conn, delayed, poolVars, back, backVars,
                 outVars>>

\* A userauth message that succeeds, and _cbFinishedAuth.  What the flush
\* raises ends up in the errbacks of conch, and the session goes on.
AuthSucceeds ==
  /\ front = "open" /\ asked /\ tries < MaxAuth
  /\ tries' = tries + 1
  /\ authed' = TRUE
  /\ IF back = "secure" THEN AuthenticateBackend
     ELSE UNCHANGED <<conn, toBack, timer, delayed, authDone>>
  /\ UNCHANGED <<front, asked, poolVars, back, bdelayed, nFront, nBack, toFront>>

\* One that does not: dispatchMessage has reset frontendAuthenticated by then.
\* After too many of them conch disconnects.
AuthFails ==
  /\ front = "open" /\ asked /\ tries < MaxAuth
  /\ tries' = tries + 1
  /\ authed' = FALSE
  /\ front' \in {"open", "closing"}
  /\ UNCHANGED <<asked, timer, conn, delayed, poolVars, back, backVars, outVars>>

\* Mutant: what the packet is, its message number in the code, is not kept.
FrontendPacketBare(kind) ==
  /\ front = "open" /\ nFront < MaxFront /\ ~conn
  /\ nFront' = nFront + 1
  /\ delayed' = Append(delayed, [n |-> nFront + 1])
  /\ UNCHANGED <<front, frontVars, timer, conn, poolVars, back, backVars, nBack,
                 toBack, toFront>>

\* dispatchMessage and packet_buffer of the frontend, for every other packet.
FrontendPacket(kind) ==
  /\ front = "open" /\ nFront < MaxFront
  /\ nFront' = nFront + 1
  /\ LET packet == [n |-> nFront + 1, kind |-> kind]
     IN  IF ~conn \/ delayed # <<>>
         THEN /\ delayed' = Append(delayed, packet)
              /\ UNCHANGED <<toBack, front, timer, back, poolVars>>
         ELSE IF kind = "bad"
         THEN FrontGone /\ UNCHANGED <<toBack, delayed>>
         ELSE /\ toBack' = Append(toBack, packet)
              /\ timer' = (timer \/ kind = "open")
              /\ UNCHANGED <<delayed, front, back, poolVars>>
  /\ UNCHANGED <<frontVars, conn, backVars, nBack, toFront>>

\* Mutant: only the attacker's side is closed.
TimeoutFrontOnly ==
  /\ timer
  /\ timer' = FALSE
  /\ front' = Closing(front)
  /\ UNCHANGED <<frontVars, conn, delayed, poolVars, back, backVars, outVars>>

\* Mutant: the guest is given back here, too.
TimeoutReturns ==
  /\ timer
  /\ timer' = FALSE
  /\ front' = Closing(front)
  /\ back' = Closing(back)
  /\ toPool' = Return
  /\ UNCHANGED <<frontVars, conn, delayed, pool, hasVm, answer, vm, backVars, outVars>>

\* timeoutConnection.  A session channel that opens sets the timer again.
Timeout ==
  /\ timer
  /\ timer' = FALSE
  /\ front' = Closing(front)
  /\ back' = Closing(back)
  /\ UNCHANGED <<frontVars, conn, delayed, poolVars, backVars, outVars>>

\* The login timer of conch, which a successful login does not stop here:
\* _cbFinishedAuth is overridden and sets no new service.
LoginTimeout ==
  /\ front = "open" /\ asked
  /\ front' = "closing"
  /\ UNCHANGED <<frontVars, timer, conn, delayed, poolVars, back, backVars, outVars>>

\* The attacker disconnects, or the proxy's loseConnection takes effect.
FrontendLost ==
  /\ front \in {"open", "closing"}
  /\ FrontGone
  /\ UNCHANGED <<frontVars, conn, delayed, backVars, outVars>>

-----------------------------------------------------------------------------
Next ==
  \/ PoolConnected \/ PoolUnreachable \/ ServeRequest \/ ServeReturn
  \/ GuestGranted \/ GuestRefused
  \/ BackendConnects \/ BackendRefuses \/ BackendSecure \/ BackendLost
  \/ \E kind \in BackKinds : BackendPacket(kind)
  \/ RequestService \/ AuthSucceeds \/ AuthFails
  \/ \E kind \in FrontKinds : FrontendPacket(kind)
  \/ Timeout \/ LoginTimeout \/ FrontendLost

Spec == Init /\ [][Next]_vars

\* A connection attempt ends in one way or the other (its endpoint has a
\* timeout of 10 seconds), messages between proxy and pool arrive, timers
\* fire, and a connection that is being closed is lost at last.  Nothing is
\* assumed of the attacker, or of the guest.
Fairness ==
  /\ WF_vars(PoolConnected \/ PoolUnreachable)
  /\ WF_vars(ServeRequest \/ ServeReturn)
  /\ WF_vars(GuestGranted \/ GuestRefused)
  /\ WF_vars(BackendConnects \/ BackendRefuses)
  /\ WF_vars(Timeout)
  /\ WF_vars(LoginTimeout)
  /\ WF_vars(front = "closing" /\ FrontendLost)
  /\ WF_vars(back = "closing" /\ BackendLost)

FairSpec == Spec /\ Fairness

-----------------------------------------------------------------------------
(* Properties.                                                             *)

\* The type of every variable of the session.
TypeOK ==
  /\ front \in {"open", "closing", "lost"}
  /\ asked \in BOOLEAN /\ authed \in BOOLEAN /\ timer \in BOOLEAN
  /\ tries \in 0 .. MaxAuth
  /\ conn \in BOOLEAN /\ authDone \in BOOLEAN
  /\ delayed \in Seq(Packet) /\ bdelayed \in Seq(Packet)
  /\ pool \in {"none", "connecting", "open", "closed", "failed"}
  /\ hasVm \in BOOLEAN
  /\ toPool \in Seq({"r", "f", "u"})
  /\ answer \in {"none", "granted", "refused"}
  /\ vm \in {"none", "held", "clean", "dirty"}
  /\ back \in {"none", "connecting", "connected", "secure", "closing", "lost", "failed"}
  /\ nFront \in 0 .. MaxFront /\ nBack \in 0 .. MaxBack
  /\ toBack \in Seq(Packet) /\ toFront \in Seq(Packet)

\* The packets of seq are those that arrived first, second and so on.
Numbered(seq, last) ==
  Len(seq) = last /\ \A i \in DOMAIN seq : seq[i].n = i

\* Between the two packet_buffers and the flushes none of the attacker's
\* packets is lost, doubled or overtaken, as long as no flush was cut short;
\* nor is one of the guest's.
PacketsInOrder ==
  /\ front # "lost" /\ ~Jammed => Numbered(toBack \o delayed, nFront)
  /\ back \in {"connected", "secure"} => Numbered(toFront \o bdelayed, nBack)

\* Nothing of the attacker reaches the guest before a login to the frontend
\* that succeeded, although it may send channel packets any time.
LoginOpensTheGuest ==
  [][~conn /\ (conn' \/ toBack' # toBack) => authed']_vars

\* The lease ends, for the session, when it sends its "f" or "u".
LeaseState == IF Contains(toPool, "f") THEN "dirty"
              ELSE IF Contains(toPool, "u") THEN "clean" ELSE vm

\* Authentication was sent to the guest, and no packet raised while what was
\* held back followed it.
UsedGuest == conn /\ \A i \in DOMAIN delayed : delayed[i].kind # "bad"

Lease == INSTANCE GuestLease WITH vm <- LeaseState, used <- UsedGuest

\* To the pool the session is a borrower that borrows once, gives back at
\* most once, and calls the guest used just when authentication was sent to
\* it, and all that was held back after it.  A session whose flush a packet
\* cut short calls the guest unused, although it "performed SSH
\* authentication to the backend": the lease does not count such a use.
BorrowsAsPromised == Lease!LeaseSpec

\* An attacker the proxy found a guest for (or that needs none of the pool)
\* does not stay for ever; and when it is gone, the connection to the guest
\* goes too, although it may have been made after the attacker left.
GuestSessionsEnd ==
  /\ back = "connecting" ~> front # "open"
  /\ front = "lost" /\ HasClient ~> back = "lost"

\* A guest the proxy was told of while the attacker was there is given back.
KnownGuestsAreGivenBack ==
  hasVm /\ front = "open" ~> vm \in {"clean", "dirty"}

\* connectionLost says "free VM from pool": once the attacker is gone, the
\* guest the pool lent for it is not lent for ever.
GuestsAreGivenBack == front = "lost" /\ vm = "held" ~> vm # "held"
=============================================================================
