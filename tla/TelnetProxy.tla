------------------------------ MODULE TelnetProxy ------------------------------
(***************************************************************************)
(* One session of cowrie's telnet proxy (telnet_proxy): the two transports *)
(* FrontendTelnetTransport and BackendTelnetTransport, the TelnetHandler   *)
(* that reads the login dialogue out of both streams and puts the guest's  *)
(* own credentials into it, and the PoolClient (pool_interface) that asks  *)
(* PoolServer for the guest.  One callback of the reactor is one action.   *)
(*                                                                         *)
(* What the attacker types is a packet of one of the FrontKinds; "bad" is  *)
(* one that ends in its carriage return, or whose text does not decode: it *)
(* raises where the handler reads a line, and goes through where it does   *)
(* not.  What the guest shows is a stream of tokens, and a packet of it as *)
(* many of them as the network delivers at once.                           *)
(*                                                                         *)
(* External: the network, and telnetd with login on the guest.             *)
(***************************************************************************)
EXTENDS Naturals, Sequences, FiniteSets, SequencesExt

CONSTANTS
  FrontKinds,  \* what the packets of the attacker may be
  MaxFront,    \* bound of the model: packets the attacker sends
  Spoofing     \* the values telnet_spoof_authentication may have

ASSUME TelnetProxyAssumption ==
  /\ FrontKinds \subseteq {"text", "line", "bad", "nego", "do"}
  /\ MaxFront \in Nat
  /\ Spoofing \subseteq BOOLEAN

VARIABLES
  front,            \* the attacker's connection
  timer,            \* the TimeoutMixin of the frontend is set
  pool,             \* the connection of the PoolClient, "none" without a pool
  hasVm,            \* vm_id is not None
  toPool,           \* messages on their way to the pool
  answer,           \* the answer on its way to the PoolClient
  vm,               \* the guest, as the pool sees it
  back,             \* the connection to the guest
  spoof,            \* spoofAuthenticationData
  authDone,         \* the credentials were accepted
  inputingLogin,    \* the guest asked for a user name
  inputingPassword, \* the guest asked for a password
  waitingLoginEcho, \* the guest will echo the name it was given
  prePasswordData,  \* the guest's last packet said that it will echo
  backend_buffer,   \* what there was no guest for
  nFront,           \* packets that arrived from the attacker
  toBack,           \* what was written to the guest
  toFront,          \* the guest's tokens the attacker was shown, by number
  nBack,            \* tokens of the guest that arrived
  guest,            \* what the guest reads next
  named,            \* the name the guest was given is an account of it
  garbled,          \* the guest holds the beginning of a line
  nRead,            \* what the guest has read of toBack
  out               \* the tokens the guest has shown

poolVars == <<pool, hasVm, toPool, answer, vm>>
promptVars == <<inputingLogin, inputingPassword, waitingLoginEcho, prePasswordData>>
handlerVars == <<spoof, authDone, promptVars, backend_buffer>>
guestVars == <<guest, named, garbled, nRead, out>>
streamVars == <<nFront, toBack, toFront, nBack>>
vars == <<front, timer, poolVars, back, handlerVars, streamVars, guestVars>>

-----------------------------------------------------------------------------
\* What goes to the guest: a packet of the attacker, what the handler wrote in
\* its place, or the three bytes it sent ahead of that, which are a line of
\* their own when there is a carriage return among them ("short").  asked is
\* a history variable: how often the handler had seen the guest ask for a
\* password when the packet came.
Substituted == {"username", "password", "wrong"}
Item == [n : Nat, what : {"text", "line", "bad", "nego", "do", "short"} \cup Substituted,
         asked : Nat]
Lines == {"line", "bad", "short"} \cup Substituted

\* A prompt for a name, one for a password, the echo of the name the handler
\* sent, IAC WILL ECHO, or anything else.
Token == {"login", "password", "echo", "will", "text"}

Init ==
  /\ front = "open" /\ timer = FALSE
  /\ \/ pool = "connecting" /\ back = "none"
     \/ pool = "none" /\ back = "connecting"
  /\ hasVm = FALSE /\ toPool = <<>> /\ answer = "none" /\ vm = "none"
  /\ spoof \in Spoofing /\ authDone = FALSE
  /\ inputingLogin = FALSE /\ inputingPassword = FALSE
  /\ waitingLoginEcho = FALSE /\ prePasswordData = FALSE
  /\ backend_buffer = <<>>
  /\ nFront = 0 /\ toBack = <<>> /\ toFront = <<>> /\ nBack = 0
  /\ guest = "start" /\ named = FALSE /\ garbled = FALSE /\ nRead = 0 /\ out = <<>>

-----------------------------------------------------------------------------
(* What several handlers do.                                               *)

\* transport.loseConnection()
Closing(tcp) == IF tcp \in {"open", "connected"} THEN "closing" ELSE tcp

\* telnetHandler.client is set by connectionMade and never reset.
HasClient == back \in {"connected", "closing", "lost"}

\* How many such tokens of the guest have reached the proxy.
Prompts(token) == Cardinality({i \in 1 .. nBack : out[i] = token})

\* addPacket interferes until a login was accepted.
Spoofs == spoof /\ ~authDone

\* Mutant: whether the attacker logged in is not looked at.
send_vm_freeUnused == IF hasVm THEN Append(toPool, "u") ELSE toPool

send_vm_free == IF ~hasVm THEN toPool ELSE Append(toPool, IF authDone THEN "f" ELSE "u")

\* connectionLost of the frontend.
FrontGone ==
  /\ front' = "lost"
  /\ timer' = FALSE
  /\ back' = Closing(back)
  /\ IF pool = "open" THEN toPool' = send_vm_free /\ pool' = "closed"
     ELSE UNCHANGED <<toPool, pool>>
  /\ UNCHANGED <<hasVm, answer, vm>>

\* Mutant: the buffer is sent again with whatever comes next.
sendBackendKeeps(items) ==
  LET all == backend_buffer \o items
  IN  /\ backend_buffer' = all
      /\ toBack' = IF HasClient /\ items # <<>> THEN toBack \o all ELSE toBack

\* The calls of sendBackend with these items.  The buffer is not sent before
\* there is more to send.
sendBackend(items) ==
  LET all == backend_buffer \o items
  IN  IF HasClient /\ items # <<>>
      THEN toBack' = toBack \o all /\ backend_buffer' = <<>>
      ELSE backend_buffer' = all /\ UNCHANGED toBack

-----------------------------------------------------------------------------
(* The pool.                                                               *)

\* pool_connection_success, whether or not the attacker is still there.
PoolConnected ==
  /\ pool = "connecting"
  /\ pool' = "open"
  /\ toPool' = Append(toPool, "r")
  /\ UNCHANGED <<front, timer, hasVm, answer, vm, back, handlerVars, streamVars, guestVars>>

\* pool_connection_error
PoolUnreachable ==
  /\ pool = "connecting"
  /\ pool' = "failed"
  /\ front' = Closing(front)
  /\ UNCHANGED <<timer, hasVm, toPool, answer, vm, back, handlerVars, streamVars, guestVars>>

\* PoolServer.dataReceived, for a request.  When request_vm raises the server
\* drops the connection, which PoolClient does not notice.
ServeRequest ==
  /\ toPool # <<>> /\ Head(toPool) = "r"
  /\ toPool' = Tail(toPool)
  /\ \/ vm' = "held" /\ answer' = "granted"
     \/ answer' = "refused" /\ UNCHANGED vm
     \/ UNCHANGED <<vm, answer>>
  /\ UNCHANGED <<front, timer, pool, hasVm, back, handlerVars, streamVars, guestVars>>

\* PoolServer.dataReceived, for a guest that is given back.
ServeReturn ==
  /\ toPool # <<>> /\ Head(toPool) \in {"f", "u"}
  /\ toPool' = Tail(toPool)
  /\ vm' = IF Head(toPool) = "f" THEN "dirty" ELSE "clean"
  /\ UNCHANGED <<front, timer, pool, hasVm, answer, back, handlerVars, streamVars, guestVars>>

\* PoolClient.dataReceived and received_pool_data.
GuestGranted ==
  /\ pool = "open" /\ answer = "granted"
  /\ answer' = "none"
  /\ hasVm' = TRUE
  /\ back' = "connecting"
  /\ UNCHANGED <<front, timer, pool, toPool, vm, handlerVars, streamVars, guestVars>>

\* The error code: parent.loseConnection().
GuestRefused ==
  /\ pool = "open" /\ answer = "refused"
  /\ answer' = "none"
  /\ front' = Closing(front)
  /\ UNCHANGED <<timer, pool, hasVm, toPool, vm, back, handlerVars, streamVars, guestVars>>

-----------------------------------------------------------------------------
(* The connection to the guest.                                            *)

\* connectionMade of the backend, and backend_connection_success, neither of
\* which looks at the attacker's connection.
BackendConnects ==
  /\ back = "connecting"
  /\ back' = "connected"
  /\ timer' = TRUE
  /\ UNCHANGED <<front, poolVars, handlerVars, streamVars, guestVars>>

\* backend_connection_error
BackendRefuses ==
  /\ back = "connecting"
  /\ back' = "failed"
  /\ front' = Closing(front)
  /\ UNCHANGED <<timer, poolVars, handlerVars, streamVars, guestVars>>

\* connectionLost of the backend.
BackendLost ==
  /\ back \in {"connected", "closing"}
  /\ back' = "lost"
  /\ front' = Closing(front)
  /\ UNCHANGED <<timer, poolVars, handlerVars, streamVars, guestVars>>

\* A set of numbers, the smallest first.
InOrder(numbers) ==
  [k \in 1 .. Cardinality(numbers) |->
     CHOOSE i \in numbers : Cardinality({j \in numbers : j <= i}) = k]

\* addPacket("backend"), with setProcessingStateBackend and the echo that is
\* taken out.  A write to an attacker that is gone does nothing.
BackendPacket ==
  /\ back = "connected"
  /\ \E last \in nBack + 1 .. Len(out) :
       LET packet == nBack + 1 .. last
           Has(token) == \E i \in packet : out[i] = token
           shown == {i \in packet : ~(Spoofs /\ waitingLoginEcho /\ out[i] = "echo")}
       IN  /\ nBack' = last
           /\ IF Spoofs
              THEN /\ inputingPassword' = (inputingPassword \/ Has("password"))
                   /\ inputingLogin' = (inputingLogin \/ Has("login"))
                   /\ prePasswordData' = Has("will")
                   /\ waitingLoginEcho' = FALSE
              ELSE UNCHANGED promptVars
           /\ toFront' = IF front = "lost" THEN toFront ELSE toFront \o InOrder(shown)
  /\ UNCHANGED <<front, timer, poolVars, back, spoof, authDone, backend_buffer, nFront,
                 toBack, guestVars>>

-----------------------------------------------------------------------------
(* The attacker's connection.                                              *)

AtPassword == Spoofs /\ inputingPassword
AtLogin == Spoofs /\ inputingLogin

Arrives == front = "open" /\ nFront < MaxFront /\ nFront' = nFront + 1

\* A packet that goes to the guest, or what goes there instead of it.
Packet(what) == <<[n |-> nFront + 1, what |-> what, asked |-> Prompts("password")]>>

\* The first three bytes of a packet, which are meant to be the answer to the
\* guest's IAC WILL ECHO, whatever they are.
PrePassword(kind) ==
  IF ~(AtPassword /\ prePasswordData) THEN {<<>>}
  ELSE IF kind = "do" THEN {Packet("do")}
  ELSE {Packet("text")} \cup (IF kind \in {"line", "bad"} THEN {Packet("short")} ELSE {})

UsesPrePassword == prePasswordData' = (prePasswordData /\ ~AtPassword)

\* addPacket("frontend"), when the handler is not reading a line.  In a
\* negotiation ("nego") it puts the guest's user name.
PassesThrough(kind) ==
  /\ Arrives
  /\ ~AtPassword /\ ~AtLogin
  /\ sendBackend(Packet(kind))
  /\ UNCHANGED <<front, timer, poolVars, back, spoof, authDone, promptVars, toFront,
                 nBack, guestVars>>

\* A part of the line it reads.
Withheld(kind) ==
  /\ Arrives
  /\ AtPassword \/ AtLogin
  /\ kind \notin {"line", "bad"}
  /\ \E ahead \in PrePassword(kind) : sendBackend(ahead)
  /\ UsesPrePassword
  /\ UNCHANGED <<front, timer, poolVars, back, spoof, authDone, inputingLogin,
                 inputingPassword, waitingLoginEcho, toFront, nBack, guestVars>>

\* The end of a line that it cannot read: IndexError or UnicodeDecodeError in
\* dataReceived end the attacker's connection.
LineRaises ==
  /\ Arrives
  /\ AtPassword \/ AtLogin
  /\ \E ahead \in PrePassword("bad") : sendBackend(ahead)
  /\ UsesPrePassword
  /\ FrontGone
  /\ UNCHANGED <<spoof, authDone, inputingLogin, inputingPassword, waitingLoginEcho,
                 toFront, nBack, guestVars>>

\* Mutant: the guest is given its password either way.
PasswordForRight(accepted) == "password"

\* Mutant: something that is no password.
PasswordForFake(accepted) == IF accepted THEN "password" ELSE "fake"

\* What goes to the guest for the attacker's password.
PasswordFor(accepted) == IF accepted THEN "password" ELSE "wrong"

\* Mutant: the next line is read as a password, too.
PasswordEnteredAgain ==
  /\ Arrives
  /\ AtPassword
  /\ \E accepted \in BOOLEAN, ahead \in PrePassword("line") :
       /\ authDone' = accepted
       /\ timer' = (timer \/ accepted)
       /\ sendBackend(ahead \o Packet(IF AtLogin THEN "username" ELSE PasswordFor(accepted)))
  /\ UsesPrePassword
  /\ inputingLogin' = FALSE
  /\ waitingLoginEcho' = (waitingLoginEcho \/ AtLogin)
  /\ UNCHANGED <<front, poolVars, back, spoof, inputingPassword, toFront, nBack,
                 guestVars>>

\* processPasswordInput at the end of a line.  When the handler is waiting for
\* a name as well, processUsernameInput then takes the password it is to send
\* for the attacker's input, and sends the name instead.
PasswordEntered ==
  /\ Arrives
  /\ AtPassword
  /\ \E accepted \in BOOLEAN, ahead \in PrePassword("line") :
       /\ authDone' = accepted
       /\ timer' = (timer \/ accepted)
       /\ sendBackend(ahead \o Packet(IF AtLogin THEN "username" ELSE PasswordFor(accepted)))
  /\ UsesPrePassword
  /\ inputingPassword' = FALSE /\ inputingLogin' = FALSE
  /\ waitingLoginEcho' = (waitingLoginEcho \/ AtLogin)
  /\ UNCHANGED <<front, poolVars, back, spoof, toFront, nBack, guestVars>>

\* processUsernameInput at the end of a line.
LoginEntered ==
  /\ Arrives
  /\ AtLogin /\ ~AtPassword
  /\ sendBackend(Packet("username"))
  /\ inputingLogin' = FALSE /\ waitingLoginEcho' = TRUE
  /\ UNCHANGED <<front, timer, poolVars, back, spoof, authDone, inputingPassword,
                 prePasswordData, toFront, nBack, guestVars>>

FrontendPacket(kind) ==
  \/ PassesThrough(kind)
  \/ Withheld(kind)
  \/ kind = "bad" /\ LineRaises
  \/ kind = "line" /\ PasswordEntered
  \/ kind = "line" /\ LoginEntered

\* Mutant: only the attacker's side is closed.
TimeoutFrontOnly ==
  /\ timer
  /\ timer' = FALSE
  /\ front' = Closing(front)
  /\ UNCHANGED <<poolVars, back, handlerVars, streamVars, guestVars>>

\* timeoutConnection, 120 seconds after the guest was there or 300 after the
\* login.
Timeout ==
  /\ timer
  /\ timer' = FALSE
  /\ front' = Closing(front)
  /\ back' = Closing(back)
  /\ UNCHANGED <<poolVars, handlerVars, streamVars, guestVars>>

\* The attacker disconnects, or the proxy's loseConnection takes effect.
FrontendLost ==
  /\ front \in {"open", "closing"}
  /\ FrontGone
  /\ UNCHANGED <<handlerVars, streamVars, guestVars>>

-----------------------------------------------------------------------------
(* The guest: telnetd, and login.  It is external.                         *)

\* What it shows, and when it asks for a password it may say that the echo is
\* its own now.
Shows(tokens) == out' = out \o tokens
AsksPassword(before) ==
  /\ guest' = "password"
  /\ \/ Shows(before \o <<"password">>)
     \/ Shows(before \o <<"will", "password">>)

Guest == back = "connected" /\ UNCHANGED <<front, timer, poolVars, back, handlerVars, streamVars>>

\* login starts: it asks for a name, unless the negotiation gave it one.
GuestStarts ==
  /\ Guest
  /\ \/ guest = "start" /\ guest' = "login" /\ Shows(<<"login">>)
     \/ guest = "named" /\ AsksPassword(<<>>)
  /\ UNCHANGED <<named, garbled, nRead>>

\* What is no line.
GuestReadsPart ==
  /\ Guest
  /\ nRead < Len(toBack) /\ toBack[nRead + 1].what \notin Lines
  /\ nRead' = nRead + 1
  /\ LET what == toBack[nRead + 1].what
         naming == what = "nego" /\ guest = "start"
     IN  /\ guest' = IF naming THEN "named" ELSE guest
         /\ named' \in IF ~naming THEN {named} ELSE IF spoof THEN {TRUE} ELSE BOOLEAN
         /\ garbled' = (garbled \/ what = "text")
  /\ UNCHANGED out

\* A line.  The attacker may well know the account.
GuestReadsLine ==
  /\ Guest
  /\ guest \in {"login", "password", "shell"}
  /\ nRead < Len(toBack) /\ toBack[nRead + 1].what \in Lines
  /\ nRead' = nRead + 1
  /\ garbled' = FALSE
  /\ LET what == toBack[nRead + 1].what
         May(right) == IF what \notin Substituted THEN BOOLEAN ELSE {what = right /\ ~garbled}
     IN  \/ /\ guest = "login"
            /\ named' \in May("username")
            /\ AsksPassword(<<IF what = "username" THEN "echo" ELSE "text">>)
         \/ /\ guest = "password"
            /\ \E right \in May("password") :
                 IF named /\ right
                 THEN guest' = "shell" /\ Shows(<<"text">>)
                 ELSE guest' = "login" /\ Shows(<<"login">>)
            /\ UNCHANGED named
         \/ guest = "shell" /\ Shows(<<"text">>) /\ UNCHANGED <<guest, named>>

-----------------------------------------------------------------------------
Next ==
  \/ PoolConnected \/ PoolUnreachable \/ ServeRequest \/ ServeReturn
  \/ GuestGranted \/ GuestRefused
  \/ BackendConnects \/ BackendRefuses \/ BackendPacket \/ BackendLost
  \/ \E kind \in FrontKinds : FrontendPacket(kind)
  \/ Timeout \/ FrontendLost
  \/ GuestStarts \/ GuestReadsPart \/ GuestReadsLine

Spec == Init /\ [][Next]_vars

\* A connection attempt ends in one way or the other (the endpoints have
\* timeouts), messages between proxy and pool arrive, the timer fires, and a
\* connection that is being closed is lost at last.
Fairness ==
  /\ WF_vars(PoolConnected \/ PoolUnreachable)
  /\ WF_vars(ServeRequest \/ ServeReturn)
  /\ WF_vars(GuestGranted \/ GuestRefused)
  /\ WF_vars(BackendConnects \/ BackendRefuses)
  /\ WF_vars(Timeout)
  /\ WF_vars(front = "closing" /\ FrontendLost)
  /\ WF_vars(back = "closing" /\ BackendLost)

FairSpec == Spec /\ Fairness

-----------------------------------------------------------------------------
(* Properties.                                                             *)

\* The type of every variable of the session.
TypeOK ==
  /\ front \in {"open", "closing", "lost"} /\ timer \in BOOLEAN
  /\ pool \in {"none", "connecting", "open", "closed", "failed"}
  /\ hasVm \in BOOLEAN
  /\ toPool \in Seq({"r", "f", "u"})
  /\ answer \in {"none", "granted", "refused"}
  /\ vm \in {"none", "held", "clean", "dirty"}
  /\ back \in {"none", "connecting", "connected", "closing", "lost", "failed"}
  /\ spoof \in BOOLEAN /\ authDone \in BOOLEAN
  /\ inputingLogin \in BOOLEAN /\ inputingPassword \in BOOLEAN
  /\ waitingLoginEcho \in BOOLEAN /\ prePasswordData \in BOOLEAN
  /\ backend_buffer \in Seq(Item) /\ toBack \in Seq(Item)
  /\ nFront \in 0 .. MaxFront
  /\ out \in Seq(Token) /\ nBack \in 0 .. Len(out) /\ toFront \in Seq(1 .. Len(out))
  /\ nRead \in 0 .. Len(toBack)
  /\ guest \in {"start", "named", "login", "password", "shell"}
  /\ named \in BOOLEAN /\ garbled \in BOOLEAN

Count(seq, whats) == Cardinality({i \in DOMAIN seq : seq[i].what \in whats})
Written == toBack \o backend_buffer

\* Nothing of the attacker reaches the guest twice, or overtakes what was
\* typed before it, although some of it waits for the guest to be there; and
\* what the guest shows reaches the attacker whole and in order, but for
\* echos of the name that was put in, of which no more are taken out than
\* such names were sent.
StreamsKeepTheirOrder ==
  /\ \A i, j \in DOMAIN Written :
       i < j => \/ Written[i].n < Written[j].n
                \/ Written[i].n = Written[j].n /\ Written[j].what \in Substituted
  /\ \A i, j \in DOMAIN toFront : i < j => toFront[i] < toFront[j]
  /\ front # "lost" =>
       LET hidden == {i \in 1 .. nBack : ~Contains(toFront, i)}
       IN  /\ \A i \in hidden : out[i] = "echo"
           /\ nBack - Len(toFront) <= Count(toBack, {"username"})

\* The handler answers for the attacker only when the guest asked: it sends
\* no more names, and no more passwords, than it saw prompts for them.
AnswersWerePromptedFor ==
  /\ Count(Written, {"username"}) <= Prompts("login")
  /\ Count(Written, {"password", "wrong"}) <= Prompts("password")

\* With the dialogue spoofed, the guest lets in only a login the honeypot
\* accepted, unless it was let in by a line of the attacker's own that came
\* before the handler had seen the question it answers, or by the three bytes
\* that go ahead of a password: of all that comes after, the guest gets what
\* the handler put in its place.
OnlyAcceptedLoginsOpenTheGuest ==
  [][spoof /\ guest # "shell" /\ guest' = "shell" /\ ~authDone =>
       LET line == toBack[nRead']
           asked == Cardinality({i \in DOMAIN out : out[i] = "password"})
       IN  \/ line.what = "short"
           \/ line.what \in {"line", "bad"} /\ line.asked < asked]_vars

\* The lease ends, for the session, when it sends its "f" or "u".
LeaseState == IF Contains(toPool, "f") THEN "dirty"
              ELSE IF Contains(toPool, "u") THEN "clean" ELSE vm

Lease == INSTANCE GuestLease WITH vm <- LeaseState, used <- authDone

\* To the pool the session is a borrower that borrows once, gives back at
\* most once, and calls the guest used just when the handler accepted a login,
\* whatever went to the guest before that, or without it.
BorrowsAsPromised == Lease!LeaseSpec

\* A session the proxy found a guest for ends, on both sides; and a guest it
\* was told of while the attacker was there is given back.
TelnetSessionsEnd ==
  /\ back = "connecting" ~> front = "lost" /\ back \in {"lost", "failed"}
  /\ hasVm /\ front = "open" ~> vm \in {"clean", "dirty"}

\* processPasswordInput says "if valid authenticate or else, if invalid send a
\* fake password": when the honeypot accepts a login, what it sends the guest
\* for it is the password.
AcceptedLoginsSendThePassword ==
  [][~authDone /\ authDone' => toBack' # <<>> /\ Last(toBack').what = "password"]_vars
=============================================================================
