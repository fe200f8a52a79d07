---------------------------- MODULE SshProxyProofs ----------------------------
(***************************************************************************)
(* Theorems about a session of the SSH proxy, for every number of packets  *)
(* and authentication requests and every fault: it borrows as GuestLease   *)
(* says, keeps its types, opens the guest to those who logged in, and      *)
(* forwards the packets of both sides in their order.                      *)
(***************************************************************************)
EXTENDS SshProxy, SequenceTheorems, WellFoundedInduction, TLAPS

\* Before the attacker's connection is lost, the proxy and the pool agree on
\* the one guest that is lent.
LeaseInv ==
  /\ toPool \in {<<>>, <<"r">>, <<"f">>, <<"u">>}
  /\ authDone \in BOOLEAN
  /\ hasVm \in BOOLEAN
  /\ toPool = <<"r">> => vm = "none" /\ answer = "none" /\ ~hasVm
  /\ toPool \in {<<"f">>, <<"u">>} => vm = "held" /\ pool = "closed"
  /\ pool \in {"none", "connecting", "failed"} =>
       toPool = <<>> /\ vm = "none" /\ answer = "none" /\ ~hasVm
  /\ pool = "open" /\ hasVm => vm = "held" /\ toPool = <<>>
  /\ answer # "none" => toPool = <<>> /\ ~hasVm
  /\ answer = "granted" => vm = "held"

-----------------------------------------------------------------------------
LEMMA OneMessage ==
  ASSUME NEW x
  PROVE  /\ Append(<<>>, x) = <<x>>
         /\ Head(<<x>>) = x
         /\ Tail(<<x>>) = <<>>
         /\ <<x>> # <<>>
         /\ ~ Contains(<<>>, x)
         /\ \A y : Contains(<<y>>, x) <=> x = y
<1>1. /\ Append(<<>>, x) = <<x>> /\ Head(<<x>>) = x /\ <<x>> # <<>>
      /\ Tail(<<x>>) = <<>>
  OBVIOUS
<1>2. ~ Contains(<<>>, x)
  BY DEF Contains
<1>3. \A y : Contains(<<y>>, x) <=> x = y
  BY DEF Contains
<1> QED
  BY <1>1, <1>2, <1>3

LEMMA LeaseStates ==
  ASSUME toPool \in {<<>>, <<"r">>, <<"f">>, <<"u">>}
  PROVE  LeaseState = IF toPool = <<"f">> THEN "dirty"
                      ELSE IF toPool = <<"u">> THEN "clean" ELSE vm
<1>1. \A x, y : Contains(<<y>>, x) <=> x = y
  BY OneMessage
<1>2. ~ Contains(<<>>, "f") /\ ~ Contains(<<>>, "u")
  BY OneMessage
<1>3. \A x, y : <<x>> = <<y>> => x = y
  BY OneMessage
<1>4. \A x : <<x>> # <<>>
  BY OneMessage
<1> QED
  BY <1>1, <1>2, <1>3, <1>4 DEF LeaseState

LEMMA LeaseInvInit == Init => LeaseInv
  BY OneMessage DEF Init, LeaseInv

\* The steps that leave the pool alone keep LeaseInv.
LEMMA LeaseInvFramed ==
  ASSUME LeaseInv, UNCHANGED poolVars, authDone' \in BOOLEAN
  PROVE  LeaseInv'
  BY DEF LeaseInv, poolVars

LEMMA LeaseInvFrontGone ==
  ASSUME LeaseInv, FrontGone, UNCHANGED authDone
  PROVE  LeaseInv'
  BY OneMessage DEF LeaseInv, FrontGone, Return

LEMMA LeaseInvStep == LeaseInv /\ [Next]_vars => LeaseInv'
<1> SUFFICES ASSUME LeaseInv, [Next]_vars PROVE LeaseInv'
  OBVIOUS
<1>1. ASSUME PoolConnected PROVE LeaseInv'
  BY <1>1, OneMessage DEF PoolConnected, LeaseInv, backVars
<1>2. ASSUME ServeRequest PROVE LeaseInv'
  BY <1>2, OneMessage DEF ServeRequest, LeaseInv, backVars
<1>3. ASSUME ServeReturn PROVE LeaseInv'
  BY <1>3, OneMessage DEF ServeReturn, LeaseInv, backVars
<1>4. ASSUME GuestGranted PROVE LeaseInv'
  BY <1>4 DEF GuestGranted, LeaseInv, backVars
<1>5. ASSUME GuestRefused PROVE LeaseInv'
  BY <1>5 DEF GuestRefused, LeaseInv, backVars
<1>6. ASSUME PoolUnreachable PROVE LeaseInv'
  BY <1>6 DEF PoolUnreachable, LeaseInv, backVars
<1>7. ASSUME FrontendLost PROVE LeaseInv'
  BY <1>7, LeaseInvFrontGone DEF FrontendLost, backVars
<1>8. ASSUME NEW kind \in FrontKinds, FrontendPacket(kind) PROVE LeaseInv'
  <2>1. UNCHANGED authDone /\ (UNCHANGED poolVars \/ FrontGone)
    BY <1>8 DEF FrontendPacket, backVars
  <2> QED
    BY <2>1, LeaseInvFrontGone, LeaseInvFramed DEF LeaseInv
<1>9. ASSUME AuthSucceeds \/ BackendSecure PROVE LeaseInv'
  <2>1. UNCHANGED poolVars
    BY <1>9 DEF AuthSucceeds, BackendSecure
  <2>2. authDone' = authDone \/ authDone' \in BOOLEAN
    BY <1>9 DEF AuthSucceeds, BackendSecure, AuthenticateBackend
  <2> QED
    BY <2>1, <2>2, LeaseInvFramed DEF LeaseInv
<1>10. ASSUME \/ BackendConnects \/ BackendRefuses \/ BackendLost
              \/ RequestService \/ AuthFails \/ Timeout \/ LoginTimeout
              \/ UNCHANGED vars
       PROVE  LeaseInv'
  <2>1. UNCHANGED <<poolVars, authDone>>
    BY <1>10 DEF BackendConnects, BackendRefuses, BackendLost, RequestService,
                 AuthFails, Timeout, LoginTimeout, vars, backVars
  <2> QED
    BY <2>1, LeaseInvFramed DEF LeaseInv
<1>11. ASSUME NEW kind \in BackKinds, BackendPacket(kind) PROVE LeaseInv'
  <2>1. UNCHANGED <<poolVars, authDone>>
    BY <1>11 DEF BackendPacket
  <2> QED
    BY <2>1, LeaseInvFramed DEF LeaseInv
<1> QED
  BY <1>1, <1>2, <1>3, <1>4, <1>5, <1>6, <1>7, <1>8, <1>9, <1>10, <1>11 DEF Next

LEMMA SshLeaseInv == Spec => []LeaseInv
  BY LeaseInvInit, LeaseInvStep, PTL DEF Spec

-----------------------------------------------------------------------------
\* _cbFinishedAuth and connectionSecure: only a login that succeeded lets
\* anything of the attacker through to the guest.
THEOREM SshLoginOpensTheGuest == Spec => LoginOpensTheGuest
<1>1. ASSUME [Next]_vars
      PROVE  ~conn /\ (conn' \/ toBack' # toBack) => authed'
  <2> SUFFICES ASSUME ~conn, conn' \/ toBack' # toBack PROVE authed'
    OBVIOUS
  <2>1. ASSUME AuthSucceeds \/ BackendSecure PROVE authed'
    BY <2>1 DEF AuthSucceeds, BackendSecure, frontVars
  <2>2. ASSUME NEW kind \in FrontKinds, FrontendPacket(kind) PROVE FALSE
    BY <2>2 DEF FrontendPacket
  <2>3. ASSUME NEW kind \in BackKinds, BackendPacket(kind) PROVE FALSE
    BY <2>3 DEF BackendPacket
  <2>4. ASSUME \/ PoolConnected \/ PoolUnreachable \/ ServeRequest \/ ServeReturn
               \/ GuestGranted \/ GuestRefused
               \/ BackendConnects \/ BackendRefuses \/ BackendLost
               \/ RequestService \/ AuthFails \/ Timeout \/ LoginTimeout
               \/ FrontendLost \/ UNCHANGED vars
        PROVE  FALSE
    BY <2>4 DEF PoolConnected, PoolUnreachable, ServeRequest, ServeReturn,
         GuestGranted, GuestRefused, BackendConnects, BackendRefuses, BackendLost,
         RequestService, AuthFails, Timeout, LoginTimeout, FrontendLost, vars, outVars
  <2> QED
    BY <1>1, <2>1, <2>2, <2>3, <2>4 DEF Next
<1> QED
  BY <1>1, PTL DEF Spec, LoginOpensTheGuest

-----------------------------------------------------------------------------
(* How many packets of a sequence are handled.                             *)

LEMMA LeastNatural ==
  ASSUME NEW T \in SUBSET Nat, T # {}
  PROVE  \E x \in T : \A y \in T : x <= y
<1> DEFINE R == {ss \in Nat \X Nat : ss[1] < ss[2]}
<1>1. IsWellFoundedOn(R, Nat)
  BY NatLessThanWellFounded DEF OpToRel
<1> HIDE DEF R
<1>2. PICK x \in T : \A y \in T : <<y, x>> \notin R
  BY <1>1, WFMin
<1>3. ASSUME NEW y \in T PROVE x <= y
  <2>1. x \in Nat /\ y \in Nat /\ <<y, x>> \notin R
    BY <1>2
  <2>2. ~(y < x)
    BY <2>1 DEF R
  <2> QED
    BY <2>1, <2>2
<1> QED
  BY <1>3

\* A flush ends before the first packet that raises, or at the end.
LEMMA HandledProperties ==
  ASSUME NEW packets \in Seq(Packet), NEW raising
  PROVE  /\ Handled(packets, raising) \in 0 .. Len(packets)
         /\ (\E i \in 1 .. Len(packets) : packets[i].kind \in raising) =>
              Handled(packets, raising) < Len(packets)
         /\ Handled(packets, raising) < Len(packets) =>
              \E i \in 1 .. Len(packets) : packets[i].kind \in raising
<1> DEFINE l == Len(packets)
           Ends(k) == /\ \A i \in 1 .. k : packets[i].kind \notin raising
                      /\ k < l => packets[k + 1].kind \in raising
           bad == {i \in 1 .. l : packets[i].kind \in raising}
<1>1. l \in Nat
  OBVIOUS
<1>2. \E k \in 0 .. l : Ends(k)
  <2>1. CASE bad = {}
    <3>1. Ends(l) /\ l \in 0 .. l
      BY <1>1, <2>1
    <3> QED
      BY <3>1
  <2>2. CASE bad # {}
    <3>0. bad \in SUBSET Nat
      BY <1>1
    <3>1. PICK x \in bad : \A y \in bad : x <= y
      <4> HIDE DEF bad
      <4> QED
        BY <2>2, <3>0, LeastNatural
    <3>2. x - 1 \in 0 .. l /\ x - 1 < l /\ (x - 1) + 1 = x
      BY <1>1, <3>1
    <3>3. ASSUME NEW i \in 1 .. x - 1 PROVE packets[i].kind \notin raising
      <4>1. i \in 1 .. l /\ ~(x <= i)
        BY <1>1, <3>1
      <4> QED
        BY <3>1, <4>1
    <3>4. Ends(x - 1)
      <4>1. packets[(x - 1) + 1].kind \in raising
        BY <3>1, <3>2
      <4> QED
        BY <3>3, <4>1
    <3> HIDE DEF Ends
    <3> QED
      BY <3>2, <3>4
  <2> QED
    BY <2>1, <2>2
<1> DEFINE h == Handled(packets, raising)
<1>3. h \in 0 .. l /\ Ends(h)
  BY <1>2 DEF Handled
<1> HIDE DEF h
<1>4. ASSUME NEW i \in 1 .. l, packets[i].kind \in raising PROVE h < l
  BY <1>1, <1>3, <1>4
<1>5. ASSUME h < l PROVE h + 1 \in 1 .. l /\ packets[h + 1].kind \in raising
  BY <1>1, <1>3, <1>5
<1> QED
  BY <1>3, <1>4, <1>5 DEF h

-----------------------------------------------------------------------------
(* Type correctness.                                                       *)

LEMMA SubSeqTyped ==
  ASSUME NEW S, NEW s \in Seq(S), NEW k \in 0 .. Len(s)
  PROVE  SubSeq(s, 1, k) \in Seq(S)
<1>1. \A i \in 1 .. k : s[i] \in S
  <2>1. \A i \in 1 .. k : i \in 1 .. Len(s)
    OBVIOUS
  <2> QED
    BY <2>1
<1>2. 1 \in Int /\ k \in Int
  OBVIOUS
<1> QED
  BY <1>1, <1>2, SubSeqProperties

\* An arriving packet is a packet.
LEMMA PacketTyped ==
  ASSUME NEW n \in Nat, NEW kind \in FrontKinds \cup BackKinds
  PROVE  [n |-> n + 1, kind |-> kind] \in Packet
  BY SshProxyAssumption DEF Packet

LEMMA AuthTyped ==
  ASSUME TypeOK, AuthenticateBackend
  PROVE  /\ conn' \in BOOLEAN /\ timer' \in BOOLEAN /\ authDone' \in BOOLEAN
         /\ toBack' \in Seq(Packet) /\ delayed' \in Seq(Packet)
<1> DEFINE k == Handled(delayed, {"bad"})
           s == SubSeq(delayed, 1, k)
<1>1. delayed \in Seq(Packet) /\ toBack \in Seq(Packet)
  BY DEF TypeOK
<1>2. k \in 0 .. Len(delayed)
  BY <1>1, HandledProperties
<1>3. s \in Seq(Packet)
  <2> HIDE DEF k
  <2> QED
    BY <1>1, <1>2, SubSeqTyped
<1>4. /\ conn' = TRUE /\ toBack' = toBack \o s /\ timer' = (timer \/ Opens(s))
      /\ delayed' = IF k = Len(delayed) THEN <<>> ELSE delayed
      /\ authDone' = (authDone \/ k = Len(delayed))
  BY DEF AuthenticateBackend
<1> HIDE DEF s, k
<1>5. toBack' \in Seq(Packet) /\ delayed' \in Seq(Packet)
  <2>1. toBack \o s \in Seq(Packet)
    BY <1>1, <1>3, ConcatProperties
  <2>2. <<>> \in Seq(Packet)
    OBVIOUS
  <2> QED
    BY <1>1, <1>4, <2>1, <2>2
<1>6. conn' \in BOOLEAN /\ timer' \in BOOLEAN /\ authDone' \in BOOLEAN
  BY <1>4
<1> QED
  BY <1>5, <1>6

\* TypeOK of what belongs to the connections and to the pool.
TypeOfPool ==
  /\ pool \in {"none", "connecting", "open", "closed", "failed"}
  /\ hasVm \in BOOLEAN
  /\ toPool \in Seq({"r", "f", "u"})
  /\ answer \in {"none", "granted", "refused"}
  /\ vm \in {"none", "held", "clean", "dirty"}

TypeOfLinks ==
  /\ front \in {"open", "closing", "lost"}
  /\ back \in {"none", "connecting", "connected", "secure", "closing", "lost", "failed"}
  /\ timer \in BOOLEAN

TypeOfLogin ==
  /\ asked \in BOOLEAN /\ authed \in BOOLEAN /\ tries \in 0 .. MaxAuth

TypeOfPackets ==
  /\ conn \in BOOLEAN /\ authDone \in BOOLEAN
  /\ delayed \in Seq(Packet) /\ bdelayed \in Seq(Packet)
  /\ nFront \in 0 .. MaxFront /\ nBack \in 0 .. MaxBack
  /\ toBack \in Seq(Packet) /\ toFront \in Seq(Packet)

LEMMA TypeParts == TypeOK => TypeOfPool /\ TypeOfLinks /\ TypeOfLogin /\ TypeOfPackets
  BY DEF TypeOK, TypeOfPool, TypeOfLinks, TypeOfLogin, TypeOfPackets

LEMMA TypeFromParts ==
  ASSUME TypeOfPool', TypeOfLinks', TypeOfLogin', TypeOfPackets'
  PROVE  TypeOK'
  BY DEF TypeOK, TypeOfPool, TypeOfLinks, TypeOfLogin, TypeOfPackets

LEMMA FrontGoneTyped ==
  ASSUME TypeOK, FrontGone
  PROVE  TypeOfPool' /\ TypeOfLinks'
<1>1. \A x \in {"f", "u"} : Append(toPool, x) \in Seq({"r", "f", "u"})
  BY DEF TypeOK
<1>2. Return \in Seq({"r", "f", "u"})
  BY <1>1 DEF Return, TypeOK
<1>3. TypeOfPool'
  BY <1>2 DEF TypeOfPool, TypeOK, FrontGone
<1>4. TypeOfLinks'
  BY DEF TypeOfLinks, TypeOK, FrontGone, Closing
<1> QED
  BY <1>3, <1>4

LEMMA FrontendPacketTyped ==
  ASSUME TypeOK, NEW kind \in FrontKinds, FrontendPacket(kind)
  PROVE  TypeOK'
<1> DEFINE packet == [n |-> nFront + 1, kind |-> kind]
<1>1. packet \in Packet
  BY PacketTyped DEF TypeOK
<1>2. /\ Append(delayed, packet) \in Seq(Packet) /\ Append(toBack, packet) \in Seq(Packet)
      /\ nFront + 1 \in 0 .. MaxFront
  <2> HIDE DEF packet
  <2>1. nFront + 1 \in 0 .. MaxFront
    BY SshProxyAssumption DEF TypeOK, FrontendPacket
  <2> QED
    BY <1>1, <2>1 DEF TypeOK
<1>3. TypeOfPackets'
  <2> DEFINE q == packet
  <2>1. /\ delayed' \in {delayed, Append(delayed, q)} /\ toBack' \in {toBack, Append(toBack, q)}
        /\ nFront' = nFront + 1 /\ UNCHANGED <<conn, authDone, bdelayed, nBack, toFront>>
    BY DEF FrontendPacket, backVars
  <2> HIDE DEF q
  <2> QED
    BY <1>2, <2>1 DEF TypeOfPackets, TypeOK, q
<1>4. TypeOfLogin'
  BY DEF TypeOfLogin, TypeOK, FrontendPacket, frontVars
<1>5. TypeOfPool' /\ TypeOfLinks'
  <2>1. CASE FrontGone
    BY <2>1, FrontGoneTyped
  <2>2. CASE ~FrontGone
    <3>1. UNCHANGED <<front, back, poolVars>> /\ (timer' = timer \/ timer' = (timer \/ kind = "open"))
      BY <2>2 DEF FrontendPacket
    <3> QED
      BY <3>1 DEF TypeOfPool, TypeOfLinks, TypeOK, poolVars
  <2> QED
    BY <2>1, <2>2
<1> QED
  BY <1>3, <1>4, <1>5, TypeFromParts

LEMMA BackendPacketTyped ==
  ASSUME TypeOK, NEW kind \in BackKinds, BackendPacket(kind)
  PROVE  TypeOK'
<1> DEFINE packet == [n |-> nBack + 1, kind |-> kind]
           all == Append(bdelayed, packet)
           k == Handled(all, IF front = "lost" THEN {"bad", "data"} ELSE {"bad"})
<1>1. packet \in Packet
  BY PacketTyped DEF TypeOK
<1>2. all \in Seq(Packet)
  <2> HIDE DEF packet
  <2> QED
    BY <1>1 DEF TypeOK
<1>3. /\ toFront' \in {toFront, toFront \o SubSeq(all, 1, k)}
      /\ bdelayed' \in {bdelayed, all, <<>>}
      /\ nBack' = nBack + 1 /\ nBack < MaxBack
      /\ front' \in {front, Closing(front)} /\ back' \in {back, "lost"}
      /\ UNCHANGED <<frontVars, timer, conn, delayed, poolVars, authDone, nFront, toBack>>
  BY DEF BackendPacket
<1> HIDE DEF all
<1>4. k \in 0 .. Len(all)
  BY <1>2, HandledProperties
<1> HIDE DEF k
<1>5. SubSeq(all, 1, k) \in Seq(Packet)
  BY <1>2, <1>4, SubSeqTyped
<1>6. toFront \o SubSeq(all, 1, k) \in Seq(Packet) /\ <<>> \in Seq(Packet)
  BY <1>5, ConcatProperties DEF TypeOK
<1>7. nBack' \in 0 .. MaxBack
  BY <1>3, SshProxyAssumption DEF TypeOK
<1>8. TypeOfPackets'
  BY <1>2, <1>3, <1>6, <1>7 DEF TypeOfPackets, TypeOK
<1>9. TypeOfPool' /\ TypeOfLogin'
  BY <1>3 DEF TypeOfPool, TypeOfLogin, TypeOK, poolVars, frontVars
<1>10. TypeOfLinks'
  BY <1>3 DEF TypeOfLinks, TypeOK, Closing
<1> QED
  BY <1>8, <1>9, <1>10, TypeFromParts

LEMMA TypeStep == TypeOK /\ [Next]_vars => TypeOK'
<1> SUFFICES ASSUME TypeOK, [Next]_vars PROVE TypeOK'
  OBVIOUS
<1>0. TypeOfPool /\ TypeOfLinks /\ TypeOfLogin /\ TypeOfPackets
  BY TypeParts
<1>1. ASSUME PoolConnected \/ ServeRequest \/ ServeReturn PROVE TypeOK'
  <2>1. /\ Append(toPool, "r") \in Seq({"r", "f", "u"})
        /\ toPool # <<>> => Tail(toPool) \in Seq({"r", "f", "u"})
    BY DEF TypeOK
  <2>2. TypeOfPool'
    BY <1>1, <2>1 DEF PoolConnected, ServeRequest, ServeReturn, TypeOfPool, TypeOK
  <2>3. UNCHANGED <<front, frontVars, timer, conn, delayed, back, backVars, outVars>>
    BY <1>1 DEF PoolConnected, ServeRequest, ServeReturn
  <2>4. TypeOfLinks' /\ TypeOfLogin' /\ TypeOfPackets'
    BY <1>0, <2>3 DEF TypeOfLinks, TypeOfLogin, TypeOfPackets, frontVars, backVars, outVars
  <2> QED
    BY <2>2, <2>4, TypeFromParts
<1>2. ASSUME PoolUnreachable \/ GuestGranted \/ GuestRefused PROVE TypeOK'
  <2>1. TypeOfPool' /\ TypeOfLinks'
    BY <1>2 DEF PoolUnreachable, GuestGranted, GuestRefused, TypeOfPool, TypeOfLinks, TypeOK, Closing
  <2>2. UNCHANGED <<frontVars, conn, delayed, backVars, outVars>>
    BY <1>2 DEF PoolUnreachable, GuestGranted, GuestRefused
  <2>3. TypeOfLogin' /\ TypeOfPackets'
    BY <1>0, <2>2 DEF TypeOfLogin, TypeOfPackets, frontVars, backVars, outVars
  <2> QED
    BY <2>1, <2>3, TypeFromParts
<1>3. ASSUME BackendConnects \/ BackendRefuses \/ BackendLost \/ Timeout \/ LoginTimeout
      PROVE  TypeOK'
  <2>1. TypeOfLinks'
    BY <1>3 DEF BackendConnects, BackendRefuses, BackendLost, Timeout, LoginTimeout,
                TypeOfLinks, TypeOK, Closing
  <2>2. UNCHANGED <<frontVars, conn, delayed, poolVars, backVars, outVars>>
    BY <1>3 DEF BackendConnects, BackendRefuses, BackendLost, Timeout, LoginTimeout
  <2>3. TypeOfPool' /\ TypeOfLogin' /\ TypeOfPackets'
    BY <1>0, <2>2 DEF TypeOfPool, TypeOfLogin, TypeOfPackets, poolVars, frontVars, backVars, outVars
  <2> QED
    BY <2>1, <2>3, TypeFromParts
<1>4. CASE BackendSecure
  <2>1. /\ conn' \in BOOLEAN /\ timer' \in BOOLEAN /\ authDone' \in BOOLEAN
        /\ toBack' \in Seq(Packet) /\ delayed' \in Seq(Packet)
    BY <1>4, AuthTyped DEF BackendSecure, TypeOK
  <2>2. /\ front' \in {front, Closing(front)} /\ back' \in {"secure", "lost"}
        /\ UNCHANGED <<frontVars, poolVars, bdelayed, nFront, nBack, toFront>>
    BY <1>4 DEF BackendSecure
  <2> QED
    BY <2>1, <2>2 DEF TypeOK, frontVars, poolVars, Closing
<1>5. CASE AuthSucceeds
  <2>1. /\ conn' \in BOOLEAN /\ timer' \in BOOLEAN /\ authDone' \in BOOLEAN
        /\ toBack' \in Seq(Packet) /\ delayed' \in Seq(Packet)
    BY <1>5, AuthTyped DEF AuthSucceeds, TypeOK
  <2>2. /\ tries' \in 0 .. MaxAuth /\ authed' = TRUE
        /\ UNCHANGED <<front, asked, poolVars, back, bdelayed, nFront, nBack, toFront>>
    BY <1>5, SshProxyAssumption DEF AuthSucceeds, TypeOK
  <2> QED
    BY <2>1, <2>2 DEF TypeOK, poolVars
<1>6. CASE AuthFails \/ RequestService
  <2>0. asked \in BOOLEAN /\ authed \in BOOLEAN /\ tries \in Nat /\ front \in {"open", "closing", "lost"}
    BY SshProxyAssumption DEF TypeOK
  <2>1. TypeOfLogin' /\ front' \in {"open", "closing"}
    <3>1. CASE AuthFails
      <4>1. tries' \in 0 .. MaxAuth
        BY <2>0, <3>1, SshProxyAssumption DEF AuthFails
      <4> QED
        BY <2>0, <3>1, <4>1 DEF AuthFails, TypeOfLogin
    <3>2. CASE RequestService
      BY <1>0, <2>0, <3>2 DEF RequestService, TypeOfLogin
    <3> QED
      BY <1>6, <3>1, <3>2
  <2>2. UNCHANGED <<timer, conn, delayed, poolVars, back, backVars, outVars>>
    BY <1>6 DEF AuthFails, RequestService
  <2>3. TypeOfPool' /\ TypeOfLinks' /\ TypeOfPackets'
    BY <1>0, <2>1, <2>2
    DEF TypeOfPool, TypeOfLinks, TypeOfPackets, poolVars, backVars, outVars
  <2> QED
    BY <2>1, <2>3, TypeFromParts
<1>7. CASE FrontendLost
  <2>1. UNCHANGED <<frontVars, conn, delayed, backVars, outVars>> /\ FrontGone
    BY <1>7 DEF FrontendLost
  <2>2. TypeOfLogin' /\ TypeOfPackets'
    BY <1>0, <2>1 DEF TypeOfLogin, TypeOfPackets, frontVars, backVars, outVars
  <2> QED
    BY <2>1, <2>2, FrontGoneTyped, TypeFromParts
<1>8. CASE UNCHANGED vars
  BY <1>8 DEF vars, TypeOK, frontVars, poolVars, backVars, outVars
<1> QED
  BY <1>1, <1>2, <1>3, <1>4, <1>5, <1>6, <1>7, <1>8, FrontendPacketTyped, BackendPacketTyped
  DEF Next

LEMMA TypeInit == Init => TypeOK
<1> SUFFICES ASSUME Init PROVE TypeOK
  OBVIOUS
<1>1. <<>> \in Seq(Packet) /\ <<>> \in Seq({"r", "f", "u"})
  OBVIOUS
<1>2. 0 \in 0 .. MaxAuth /\ 0 \in 0 .. MaxFront /\ 0 \in 0 .. MaxBack
  BY SshProxyAssumption
<1> QED
  BY <1>1, <1>2 DEF Init, TypeOK

\* Every variable of a session keeps its type, for any number of packets and
\* logins and every fault: the one place where it could fail is a flush that
\* stops in the middle of the delayed packets.
THEOREM SshTypeOK == Spec => []TypeOK
  BY TypeInit, TypeStep, PTL DEF Spec

-----------------------------------------------------------------------------
(* The order of the packets.                                               *)

\* What makes PacketsInOrder inductive: what is held back is sent once the
\* proxy has authenticated to the guest, only a packet that raises can leave
\* the flush unfinished, and a connection to the guest starts afresh.
FlushInv ==
  /\ authDone => conn
  /\ conn /\ authDone => delayed = <<>>
  /\ Jammed => \E i \in 1 .. Len(delayed) : delayed[i].kind \in {"bad"}

FrontOrder == front # "lost" /\ ~Jammed => Numbered(toBack \o delayed, nFront)

BackOrder ==
  /\ back \in {"connected", "secure"} => Numbered(toFront \o bdelayed, nBack)
  /\ back \in {"none", "connecting"} => nBack = 0 /\ toFront = <<>> /\ bdelayed = <<>>

\* A session with a pool connects to no guest before it was told of one.
NoGuestInv == pool # "none" /\ ~hasVm => back = "none"

OrderInv == FlushInv /\ FrontOrder /\ BackOrder /\ NoGuestInv

-----------------------------------------------------------------------------
LEMMA NumberedAppend ==
  ASSUME NEW s \in Seq(Packet), NEW n \in Nat, NEW packet \in Packet,
         Numbered(s, n), packet.n = n + 1
  PROVE  Numbered(Append(s, packet), n + 1)
<1>1. Len(s) = n /\ \A i \in 1 .. n : s[i].n = i
  BY DEF Numbered
<1> DEFINE longer == Append(s, packet)
<1>2. /\ Len(longer) = n + 1
      /\ \A i \in 1 .. n : longer[i] = s[i]
      /\ longer[n + 1] = packet
      /\ DOMAIN longer = 1 .. n + 1
  BY <1>1, AppendProperties
<1> HIDE DEF longer
<1>3. ASSUME NEW i \in 1 .. n + 1 PROVE longer[i].n = i
  <2>1. CASE i \in 1 .. n
    BY <1>1, <1>2, <2>1
  <2>2. CASE i = n + 1
    <3>1. longer[i] = packet
      BY <1>2, <2>2
    <3> QED
      BY <2>2, <3>1
  <2> QED
    BY <2>1, <2>2
<1>4. Numbered(longer, n + 1)
  BY <1>2, <1>3 DEF Numbered
<1> QED
  BY <1>4 DEF longer

LEMMA ConcatAppend ==
  ASSUME NEW s \in Seq(Packet), NEW t \in Seq(Packet), NEW packet \in Packet
  PROVE  s \o Append(t, packet) = Append(s \o t, packet)
<1>1. <<packet>> \in Seq(Packet)
  OBVIOUS
<1>2. s \o t \in Seq(Packet)
  BY ConcatProperties
<1>3. Append(t, packet) = t \o <<packet>> /\ Append(s \o t, packet) = (s \o t) \o <<packet>>
  BY <1>2, AppendIsConcat
<1> QED
  BY <1>1, <1>3, ConcatAssociative

\* What holds of the order survives a step that moves no packet.
LEMMA FrontOrderKept ==
  ASSUME FlushInv, FrontOrder,
         UNCHANGED <<authDone, conn, delayed, toBack, nFront>>,
         front' # "lost" => front # "lost"
  PROVE  FlushInv' /\ FrontOrder'
<1>1. FlushInv'
  BY DEF FlushInv, Jammed
<1>2. FrontOrder'
  BY DEF FrontOrder, Jammed
<1> QED
  BY <1>1, <1>2

LEMMA BackOrderKept ==
  ASSUME BackOrder, UNCHANGED <<nBack, toFront, bdelayed>>,
         \/ back' \in {back, Closing(back), "closing", "lost", "failed"}
         \/ back = "connected" /\ back' = "secure"
  PROVE  BackOrder'
<1>1. back' \in {"connected", "secure"} => back \in {"connected", "secure"}
  BY DEF Closing
<1>2. back' \in {"none", "connecting"} => back \in {"none", "connecting"}
  BY DEF Closing
<1> QED
  BY <1>1, <1>2 DEF BackOrder, Numbered

LEMMA NoGuestKept ==
  ASSUME NoGuestInv, pool' # "none" => pool # "none", UNCHANGED hasVm,
         back' = back \/ back' = Closing(back) \/ back # "none"
  PROVE  NoGuestInv'
  BY DEF NoGuestInv, Closing

LEMMA OrderInvInit == Init => OrderInv
<1> SUFFICES ASSUME Init PROVE OrderInv
  OBVIOUS
<1>1. <<>> \o <<>> = <<>> /\ Len(<<>>) = 0 /\ DOMAIN <<>> = {}
  OBVIOUS
<1>2. FlushInv /\ NoGuestInv /\ BackOrder
  BY DEF Init, FlushInv, NoGuestInv, BackOrder, Jammed
<1>3. FrontOrder
  <2>1. toBack \o delayed = <<>> /\ nFront = 0
    BY <1>1 DEF Init
  <2> QED
    BY <1>1, <2>1 DEF FrontOrder, Numbered
<1> QED
  BY <1>2, <1>3 DEF OrderInv

\* The flush: either everything goes out in order, or a packet that raises is
\* among those that stay.
LEMMA FlushKeepsOrder ==
  ASSUME TypeOK, FlushInv, FrontOrder, AuthenticateBackend, UNCHANGED nFront,
         front' # "lost" => front # "lost"
  PROVE  FlushInv' /\ FrontOrder'
<1> DEFINE k == Handled(delayed, {"bad"})
           l == Len(delayed)
           bad == \E i \in 1 .. l : delayed[i].kind \in {"bad"}
<1>1. delayed \in Seq(Packet) /\ toBack \in Seq(Packet) /\ authDone \in BOOLEAN
      /\ conn \in BOOLEAN /\ l \in Nat
  BY DEF TypeOK
<1>2. k \in 0 .. l /\ (bad => k < l) /\ (k < l => bad)
  BY <1>1, HandledProperties
<1>3. /\ conn' = TRUE
      /\ toBack' = toBack \o SubSeq(delayed, 1, k)
      /\ delayed' = IF k = l THEN <<>> ELSE delayed
      /\ authDone' = (authDone \/ k = l)
  BY DEF AuthenticateBackend
<1> HIDE DEF k
<1>4. CASE k = l
  <2>1. ~bad
    BY <1>1, <1>2, <1>4
  <2>2. ~Jammed
    BY <2>1 DEF FlushInv
  <2>3. SubSeq(delayed, 1, k) = delayed
    BY <1>1, <1>4, SubSeqFull
  <2>4. toBack' = toBack \o delayed /\ delayed' = <<>> /\ authDone' = TRUE
    BY <1>1, <1>3, <1>4, <2>3
  <2>5. toBack \o delayed \in Seq(Packet)
    BY <1>1, ConcatProperties
  <2>6. toBack' \o delayed' = toBack \o delayed
    BY <2>4, <2>5, ConcatEmptySeq
  <2>7. FrontOrder'
    BY <2>2, <2>6 DEF FrontOrder, Numbered
  <2>8. FlushInv'
    BY <1>3, <2>4 DEF FlushInv, Jammed
  <2> QED
    BY <2>7, <2>8
<1>5. CASE k # l
  <2>1. k < l /\ bad /\ l # 0
    BY <1>1, <1>2, <1>5
  <2>2. ~(conn /\ authDone)
    BY <2>1 DEF FlushInv
  <2>3. ~authDone
    BY <2>2 DEF FlushInv
  <2>4. authDone' = FALSE /\ delayed' = delayed /\ conn' = TRUE
    BY <1>1, <1>3, <1>5, <2>3
  <2>5. FlushInv'
    BY <2>1, <2>4 DEF FlushInv
  <2>6. FrontOrder'
    BY <2>4 DEF FrontOrder, Jammed
  <2> QED
    BY <2>5, <2>6
<1> QED
  BY <1>4, <1>5

LEMMA FrontendPacketOrder ==
  ASSUME TypeOK, OrderInv, NEW kind \in FrontKinds, FrontendPacket(kind)
  PROVE  OrderInv'
<1> DEFINE packet == [n |-> nFront + 1, kind |-> kind]
           all == toBack \o delayed
<1>1. /\ packet \in Packet /\ packet.n = nFront + 1 /\ nFront \in Nat
      /\ delayed \in Seq(Packet) /\ toBack \in Seq(Packet) /\ conn \in BOOLEAN
  BY PacketTyped, SshProxyAssumption DEF TypeOK
<1>2. FlushInv /\ FrontOrder /\ BackOrder /\ NoGuestInv
  BY DEF OrderInv
<1>3. front # "lost" /\ nFront' = nFront + 1 /\ UNCHANGED <<conn, authDone, bdelayed, nBack, toFront>>
  BY DEF FrontendPacket, backVars
<1>4. BackOrder' /\ NoGuestInv'
  <2>1. UNCHANGED hasVm /\ (back' = back \/ back' = Closing(back)) /\ (pool' # "none" => pool # "none")
    BY DEF FrontendPacket, FrontGone, poolVars
  <2> QED
    BY <1>2, <1>3, <2>1, BackOrderKept, NoGuestKept
<1>5. ASSUME ~Jammed PROVE Numbered(Append(all, packet), nFront + 1)
  <2>1. Numbered(all, nFront)
    BY <1>2, <1>3, <1>5 DEF FrontOrder
  <2>2. all \in Seq(Packet)
    BY <1>1, ConcatProperties
  <2> HIDE DEF all, packet
  <2> QED
    BY <1>1, <2>1, <2>2, NumberedAppend
<1>6. CASE ~conn \/ delayed # <<>>
  <2>1. delayed' = Append(delayed, packet) /\ UNCHANGED <<toBack, front>>
    BY <1>6 DEF FrontendPacket
  <2> HIDE DEF packet
  <2>2. toBack' \o delayed' = Append(all, packet)
    BY <1>1, <2>1, ConcatAppend
  <2> HIDE DEF all
  <2>3. FrontOrder'
    BY <1>3, <1>5, <2>2 DEF FrontOrder, Jammed
  <2>4. /\ Len(delayed') = Len(delayed) + 1
        /\ \A i \in 1 .. Len(delayed) : delayed'[i] = delayed[i]
    BY <1>1, <2>1, AppendProperties
  <2>5. ASSUME Jammed PROVE \E i \in 1 .. Len(delayed') : delayed'[i].kind \in {"bad"}
    <3>1. PICK i \in 1 .. Len(delayed) : delayed[i].kind \in {"bad"}
      BY <1>2, <2>5 DEF FlushInv
    <3>2. i \in 1 .. Len(delayed') /\ delayed'[i].kind \in {"bad"}
      BY <1>1, <2>4, <3>1
    <3> QED
      BY <3>2
  <2>6. ~(conn /\ authDone)
    BY <1>2, <1>6 DEF FlushInv
  <2>7. FlushInv'
    BY <1>2, <1>3, <2>5, <2>6 DEF FlushInv, Jammed
  <2> QED
    BY <1>4, <2>3, <2>7 DEF OrderInv
<1>7. CASE conn /\ delayed = <<>>
  <2>1. ~Jammed /\ authDone
    BY <1>1, <1>2, <1>7 DEF FlushInv, Jammed, TypeOK
  <2>2. delayed' = <<>> /\ (front' = "lost" \/ toBack' = Append(toBack, packet))
    BY <1>7 DEF FrontendPacket, FrontGone
  <2>3. FlushInv'
    BY <1>3, <1>7, <2>1, <2>2 DEF FlushInv, Jammed
  <2>4. ASSUME front' = "lost" PROVE FrontOrder'
    BY <2>4 DEF FrontOrder, Jammed
  <2>5. ASSUME toBack' = Append(toBack, packet) PROVE FrontOrder'
    <3> HIDE DEF packet
    <3>1. all = toBack
      BY <1>1, <1>7, ConcatEmptySeq
    <3>2. toBack' \in Seq(Packet)
      BY <1>1, <2>5, AppendProperties
    <3>3. toBack' \o delayed' = Append(all, packet)
      BY <2>2, <2>5, <3>1, <3>2, ConcatEmptySeq
    <3> HIDE DEF all
    <3>4. FrontOrder'
      BY <1>3, <1>5, <2>1, <3>3 DEF FrontOrder, Jammed
    <3> QED
      BY <3>4
  <2> QED
    BY <1>4, <2>2, <2>3, <2>4, <2>5 DEF OrderInv
<1> QED
  BY <1>1, <1>6, <1>7

LEMMA BackendPacketOrder ==
  ASSUME TypeOK, OrderInv, NEW kind \in BackKinds, BackendPacket(kind)
  PROVE  OrderInv'
<1> DEFINE packet == [n |-> nBack + 1, kind |-> kind]
           all == Append(bdelayed, packet)
           k == Handled(all, IF front = "lost" THEN {"bad", "data"} ELSE {"bad"})
<1>1. /\ packet \in Packet /\ packet.n = nBack + 1 /\ nBack \in Nat
      /\ bdelayed \in Seq(Packet) /\ toFront \in Seq(Packet)
  BY PacketTyped, SshProxyAssumption DEF TypeOK
<1>2. FlushInv /\ FrontOrder /\ BackOrder /\ NoGuestInv
  BY DEF OrderInv
<1>3. /\ back = "secure" /\ nBack' = nBack + 1
      /\ \/ bdelayed' = all /\ UNCHANGED <<toFront, back, front>>
         \/ /\ toFront' = toFront \o SubSeq(all, 1, k)
            /\ k = Len(all) /\ bdelayed' = <<>> /\ UNCHANGED <<back, front>>
         \/ back' = "lost" /\ front' = Closing(front)
      /\ UNCHANGED <<conn, delayed, pool, hasVm, authDone, nFront, toBack>>
  BY DEF BackendPacket, poolVars
<1>4. FlushInv' /\ FrontOrder'
  BY <1>2, <1>3, FrontOrderKept DEF Closing
<1>5. NoGuestInv'
  BY <1>2, <1>3, NoGuestKept
<1> HIDE DEF k, packet
<1>6. all \in Seq(Packet) /\ toFront \o all = Append(toFront \o bdelayed, packet)
  BY <1>1, ConcatAppend
<1>7. Numbered(toFront \o all, nBack + 1)
  <2>1. Numbered(toFront \o bdelayed, nBack)
    BY <1>2, <1>3 DEF BackOrder
  <2>2. toFront \o bdelayed \in Seq(Packet)
    BY <1>1, ConcatProperties
  <2> QED
    BY <1>1, <1>6, <2>1, <2>2, NumberedAppend
<1> HIDE DEF all
<1>8. back' \in {"secure", "lost"} /\ (back' # "lost" => toFront' \o bdelayed' = toFront \o all)
  <2>1. CASE bdelayed' = all /\ UNCHANGED <<toFront, back>>
    BY <1>3, <2>1
  <2>2. CASE /\ toFront' = toFront \o SubSeq(all, 1, k)
             /\ k = Len(all) /\ bdelayed' = <<>> /\ UNCHANGED back
    <3>1. toFront' = toFront \o all
      BY <1>6, <2>2, SubSeqFull
    <3>2. toFront \o all \in Seq(Packet)
      BY <1>1, <1>6, ConcatProperties
    <3> QED
      BY <1>3, <2>2, <3>1, <3>2, ConcatEmptySeq
  <2> QED
    BY <1>3, <2>1, <2>2
<1>9. BackOrder'
  BY <1>3, <1>7, <1>8 DEF BackOrder
<1> QED
  BY <1>4, <1>5, <1>9 DEF OrderInv

LEMMA OrderInvStep == TypeOK /\ LeaseInv /\ OrderInv /\ [Next]_vars => OrderInv'
<1> SUFFICES ASSUME TypeOK, LeaseInv, OrderInv, [Next]_vars PROVE OrderInv'
  OBVIOUS
<1>0. FlushInv /\ FrontOrder /\ BackOrder /\ NoGuestInv
  BY DEF OrderInv
<1>1. ASSUME \/ PoolConnected \/ PoolUnreachable \/ ServeRequest \/ ServeReturn \/ GuestRefused
             \/ BackendRefuses \/ BackendLost \/ RequestService \/ AuthFails
             \/ Timeout \/ LoginTimeout \/ FrontendLost \/ UNCHANGED vars
      PROVE  OrderInv'
  <2>1. UNCHANGED <<authDone, conn, delayed, toBack, nFront, nBack, toFront, bdelayed, hasVm>>
    BY <1>1 DEF PoolConnected, PoolUnreachable, ServeRequest, ServeReturn, GuestRefused,
         BackendRefuses, BackendLost, RequestService, AuthFails, Timeout, LoginTimeout,
         FrontendLost, FrontGone, vars, poolVars, backVars, outVars
  <2>2. front' # "lost" => front # "lost"
    BY <1>1 DEF PoolConnected, PoolUnreachable, ServeRequest, ServeReturn, GuestRefused,
         BackendRefuses, BackendLost, RequestService, AuthFails, Timeout, LoginTimeout,
         FrontendLost, FrontGone, vars, Closing
  <2>3. \/ back' \in {back, Closing(back)}
        \/ back # "none" /\ back' \in {"lost", "failed"}
    BY <1>1 DEF PoolConnected, PoolUnreachable, ServeRequest, ServeReturn, GuestRefused,
         BackendRefuses, BackendLost, RequestService, AuthFails, Timeout, LoginTimeout,
         FrontendLost, FrontGone, vars
  <2>4. pool' # "none" => pool # "none"
    BY <1>1 DEF PoolConnected, PoolUnreachable, ServeRequest, ServeReturn, GuestRefused,
         BackendRefuses, BackendLost, RequestService, AuthFails, Timeout, LoginTimeout,
         FrontendLost, FrontGone, vars, poolVars
  <2>5. FlushInv' /\ FrontOrder'
    BY <1>0, <2>1, <2>2, FrontOrderKept
  <2>6. BackOrder'
    BY <1>0, <2>1, <2>3, BackOrderKept
  <2>7. NoGuestInv'
    BY <1>0, <2>1, <2>3, <2>4, NoGuestKept
  <2> QED
    BY <2>5, <2>6, <2>7 DEF OrderInv
<1>2. ASSUME GuestGranted PROVE OrderInv'
  <2>1. back = "none" /\ back' = "connecting" /\ hasVm' = TRUE
    BY <1>0, <1>2 DEF GuestGranted, LeaseInv, NoGuestInv
  <2>2. FlushInv' /\ FrontOrder'
    BY <1>0, <1>2, FrontOrderKept DEF GuestGranted, backVars, outVars
  <2>3. BackOrder' /\ NoGuestInv'
    BY <1>0, <1>2, <2>1 DEF GuestGranted, backVars, outVars, BackOrder, NoGuestInv
  <2> QED
    BY <2>2, <2>3 DEF OrderInv
<1>3. ASSUME BackendConnects PROVE OrderInv'
  <2>1. /\ back = "connecting" /\ back' = "connected"
        /\ UNCHANGED <<front, authDone, conn, delayed, toBack, nFront, nBack, toFront,
                       bdelayed, hasVm, pool>>
    BY <1>3 DEF BackendConnects, poolVars, backVars, outVars
  <2>2. FlushInv' /\ FrontOrder'
    BY <1>0, <2>1, FrontOrderKept
  <2>3. NoGuestInv'
    BY <1>0, <2>1, NoGuestKept
  <2>4. toFront' = <<>> /\ bdelayed' = <<>> /\ nBack' = 0 /\ <<>> \o <<>> = <<>>
    BY <1>0, <2>1 DEF BackOrder
  <2>5. Numbered(toFront' \o bdelayed', nBack')
    <3>1. Numbered(<<>>, 0)
      BY DEF Numbered
    <3> QED
      BY <2>4, <3>1
  <2>6. BackOrder'
    BY <2>1, <2>5 DEF BackOrder
  <2> QED
    BY <2>2, <2>3, <2>6 DEF OrderInv
<1>4. ASSUME AuthSucceeds \/ BackendSecure PROVE OrderInv'
  <2>1. /\ UNCHANGED <<nFront, nBack, toFront, bdelayed, hasVm, pool>>
        /\ front' # "lost" => front # "lost"
        /\ \/ AuthenticateBackend
           \/ UNCHANGED <<authDone, conn, delayed, toBack>>
    BY <1>4 DEF AuthSucceeds, BackendSecure, poolVars, Closing
  <2>2. FlushInv' /\ FrontOrder'
    BY <1>0, <2>1, FrontOrderKept, FlushKeepsOrder
  <2>3. \/ back' = back
        \/ back = "connected" /\ back' \in {"secure", "lost"}
    BY <1>4 DEF AuthSucceeds, BackendSecure
  <2>4. BackOrder' /\ NoGuestInv'
    BY <1>0, <2>1, <2>3, BackOrderKept, NoGuestKept
  <2> QED
    BY <2>2, <2>4 DEF OrderInv
<1> QED
  BY <1>1, <1>2, <1>3, <1>4, FrontendPacketOrder, BackendPacketOrder DEF Next

LEMMA SshOrderInv == Spec => []OrderInv
  BY OrderInvInit, OrderInvStep, SshTypeOK, SshLeaseInv, PTL DEF Spec

\* The two packet_buffers and the flushes, for any number of packets: nothing
\* that arrived on either side is lost, doubled or overtaken.
THEOREM SshPacketsInOrder == Spec => []PacketsInOrder
<1>1. OrderInv => PacketsInOrder
  BY DEF OrderInv, FrontOrder, BackOrder, PacketsInOrder
<1> QED
  BY <1>1, SshOrderInv, PTL

-----------------------------------------------------------------------------
(* The session refines GuestLease.                                         *)

\* What the pool will be told is what was done to the guest.
UseInv == authDone \in BOOLEAN /\ UsedGuest = authDone

LEMMA UseIsTold == TypeOK /\ OrderInv => UseInv
<1> SUFFICES ASSUME TypeOK, OrderInv PROVE UseInv
  OBVIOUS
<1>1. authDone \in BOOLEAN /\ conn \in BOOLEAN /\ DOMAIN delayed = 1 .. Len(delayed)
  BY DEF TypeOK
<1>2. CASE authDone
  <2>1. conn /\ delayed = <<>>
    BY <1>2 DEF OrderInv, FlushInv
  <2>2. DOMAIN delayed = {}
    BY <2>1
  <2>3. UsedGuest
    BY <2>1, <2>2 DEF UsedGuest
  <2> QED
    BY <1>1, <1>2, <2>3 DEF UseInv, UsedGuest
<1>3. CASE ~authDone
  <2>1. conn => \E i \in DOMAIN delayed : delayed[i].kind = "bad"
    BY <1>1, <1>3 DEF OrderInv, FlushInv, Jammed
  <2>2. ~UsedGuest
    BY <2>1 DEF UsedGuest
  <2> QED
    BY <1>1, <1>3, <2>2 DEF UseInv, UsedGuest
<1> QED
  BY <1>2, <1>3

\* A step that leaves the pool alone at most authenticates to the guest.
LEMMA LeaseKept ==
  ASSUME UseInv, UseInv',
         UNCHANGED <<toPool, vm>>, authDone' = authDone \/ authDone' = TRUE
  PROVE  [Lease!LeaseNext]_<<LeaseState, UsedGuest>>
<1>1. LeaseState' = LeaseState
  BY DEF LeaseState
<1>2. UsedGuest' = UsedGuest \/ UsedGuest' = TRUE
  BY DEF UseInv
<1> QED
  BY <1>1, <1>2 DEF Lease!LeaseNext, Lease!Used

LEMMA LeaseReturned ==
  ASSUME LeaseInv, LeaseInv', UseInv, UseInv', FrontGone, UNCHANGED authDone
  PROVE  [Lease!LeaseNext]_<<LeaseState, UsedGuest>>
<1>1. CASE UNCHANGED toPool
  BY <1>1, LeaseKept DEF FrontGone
<1>2. CASE ~ UNCHANGED toPool
  <2>1. pool = "open" /\ hasVm /\ toPool' = Return
    BY <1>2 DEF FrontGone, Return
  <2>2. toPool = <<>> /\ vm = "held" /\ vm' = vm
    BY <2>1 DEF LeaseInv, FrontGone
  <2>3. toPool' = IF authDone THEN <<"f">> ELSE <<"u">>
    BY <2>1, <2>2, OneMessage DEF Return
  <2>4. LeaseState = "held"
    BY <2>2, LeaseStates, OneMessage DEF LeaseInv
  <2>5. LeaseState' = IF authDone THEN "dirty" ELSE "clean"
    <3>1. /\ \A x, y : Contains(<<y>>, x) <=> x = y
      BY OneMessage
    <3> QED
      BY <2>3, <3>1 DEF LeaseState
  <2> QED
    BY <2>4, <2>5 DEF UseInv, Lease!LeaseNext, Lease!GivenBack
<1> QED
  BY <1>1, <1>2

LEMMA LeaseStep ==
  LeaseInv /\ LeaseInv' /\ UseInv /\ UseInv' /\ [Next]_vars =>
    [Lease!LeaseNext]_<<LeaseState, UsedGuest>>
<1> SUFFICES ASSUME LeaseInv, LeaseInv', UseInv, UseInv', [Next]_vars
             PROVE  [Lease!LeaseNext]_<<LeaseState, UsedGuest>>
  OBVIOUS
<1> DEFINE Goal == [Lease!LeaseNext]_<<LeaseState, UsedGuest>>
<1> HIDE DEF Goal
<1>a. ASSUME UNCHANGED <<toPool, vm>>, authDone' = authDone \/ authDone' = TRUE
      PROVE  Goal
  BY <1>a, LeaseKept DEF Goal
<1>b. ASSUME UNCHANGED <<LeaseState, authDone>> PROVE Goal
  BY <1>b DEF Goal, UseInv
<1>c. /\ \A x, y : Contains(<<y>>, x) <=> x = y
      /\ ~ Contains(<<>>, "f") /\ ~ Contains(<<>>, "u")
      /\ \A x : Tail(<<x>>) = <<>> /\ Head(<<x>>) = x /\ Append(<<>>, x) = <<x>>
  BY OneMessage
<1>1. ASSUME PoolConnected PROVE Goal
  <2>1. toPool = <<>> /\ toPool' = <<"r">>
    BY <1>1, <1>c DEF PoolConnected, LeaseInv
  <2>2. LeaseState = vm /\ LeaseState' = vm' /\ vm' = vm
    BY <1>1, <1>c, <2>1 DEF PoolConnected, LeaseState
  <2> QED
    BY <1>1, <2>2, <1>b DEF PoolConnected, backVars
<1>2. ASSUME ServeRequest PROVE Goal
  <2>1. toPool = <<"r">> /\ toPool' = <<>>
    BY <1>2, <1>c, OneMessage DEF ServeRequest, LeaseInv
  <2>2. LeaseState = "none" /\ LeaseState' = vm'
    BY <2>1, <1>c DEF LeaseState, LeaseInv
  <2>3. vm' = "held" \/ vm' = "none"
    BY <1>2, <2>1 DEF ServeRequest, LeaseInv
  <2>4. CASE vm' = "held"
    BY <1>2, <2>2, <2>4 DEF Goal, UseInv, ServeRequest, backVars, Lease!LeaseNext, Lease!Lent
  <2>5. CASE vm' = "none"
    BY <1>2, <2>2, <2>5, <1>b DEF ServeRequest, backVars
  <2> QED
    BY <2>3, <2>4, <2>5
<1>3. ASSUME ServeReturn PROVE Goal
  <2>1. toPool \in {<<"f">>, <<"u">>} /\ toPool' = <<>>
    BY <1>3, <1>c, OneMessage DEF ServeReturn, LeaseInv
  <2>2. LeaseState' = vm'
    BY <2>1, <1>c DEF LeaseState
  <2>3. vm' = LeaseState
    BY <1>3, <2>1, <1>c DEF ServeReturn, LeaseState
  <2> QED
    BY <1>3, <2>2, <2>3, <1>b DEF ServeReturn, backVars
<1>4. ASSUME PoolUnreachable \/ GuestGranted \/ GuestRefused PROVE Goal
  BY <1>4, <1>a DEF PoolUnreachable, GuestGranted, GuestRefused, backVars
<1>5. ASSUME FrontendLost PROVE Goal
  BY <1>5, LeaseReturned DEF FrontendLost, backVars, Goal
<1>6. ASSUME NEW kind \in FrontKinds, FrontendPacket(kind) PROVE Goal
  <2>1. UNCHANGED authDone /\ (UNCHANGED poolVars \/ FrontGone)
    BY <1>6 DEF FrontendPacket, backVars
  <2>2. CASE UNCHANGED poolVars
    BY <2>1, <2>2, <1>a DEF poolVars
  <2>3. CASE FrontGone
    BY <2>1, <2>3, LeaseReturned DEF Goal
  <2> QED
    BY <2>1, <2>2, <2>3
<1>7. ASSUME AuthSucceeds \/ BackendSecure PROVE Goal
  <2>1. UNCHANGED <<toPool, vm>>
    BY <1>7 DEF AuthSucceeds, BackendSecure, poolVars
  <2>2. authDone' = authDone \/ authDone' = TRUE
    BY <1>7 DEF AuthSucceeds, BackendSecure, AuthenticateBackend, LeaseInv
  <2> QED
    BY <2>1, <2>2, <1>a
<1>8. ASSUME \/ BackendConnects \/ BackendRefuses \/ BackendLost
             \/ RequestService \/ AuthFails \/ Timeout \/ LoginTimeout
             \/ UNCHANGED vars
      PROVE  Goal
  <2>1. UNCHANGED <<toPool, vm, authDone>>
    BY <1>8 DEF BackendConnects, BackendRefuses, BackendLost, RequestService,
                AuthFails, Timeout, LoginTimeout, vars, poolVars, backVars
  <2> QED
    BY <2>1, <1>a
<1>9. ASSUME NEW kind \in BackKinds, BackendPacket(kind) PROVE Goal
  <2>1. UNCHANGED <<toPool, vm, authDone>>
    BY <1>9 DEF BackendPacket, poolVars
  <2> QED
    BY <2>1, <1>a
<1>10. Goal
  BY <1>1, <1>2, <1>3, <1>4, <1>5, <1>6, <1>7, <1>8, <1>9 DEF Next
<1> QED
  BY <1>10 DEF Goal

\* connectionLost and PoolClient, against what the pool may rely on: a guest
\* is borrowed once, given back at most once, and called used just when the
\* session had authenticated to it and sent on what was held back.
THEOREM SshBorrowsAsPromised == Spec => BorrowsAsPromised
<1>1. Init => Lease!LeaseInit
  <2>1. ~ Contains(<<>>, "f") /\ ~ Contains(<<>>, "u")
    BY OneMessage
  <2> QED
    BY <2>1 DEF Init, Lease!LeaseInit, LeaseState, UsedGuest
<1> QED
  BY <1>1, LeaseStep, UseIsTold, SshLeaseInv, SshTypeOK, SshOrderInv, PTL DEF Spec, BorrowsAsPromised, Lease!LeaseSpec
=============================================================================
