-------------------------- MODULE TelnetProxyProofs --------------------------
(***************************************************************************)
(* Theorems about a session of the telnet proxy, for every number of       *)
(* packets, whatever they are, with the login dialogue spoofed or not: it  *)
(* borrows as GuestLease says, keeps its types and the order of both       *)
(* streams, answers only what the guest asked, and lets no login that was  *)
(* not accepted open the guest.                                            *)
(***************************************************************************)
EXTENDS TelnetProxy, FiniteSetTheorems, SequenceTheorems, TLAPS

\* At most one message is on its way to the pool; the session gives back a
\* guest only when the pool has lent it, and closes the connection with that.
LeaseInv ==
  /\ toPool \in {<<>>, <<"r">>, <<"f">>, <<"u">>}
  /\ authDone \in BOOLEAN
  /\ pool \in {"none", "connecting", "failed"} =>
       toPool = <<>> /\ vm = "none" /\ answer = "none" /\ ~hasVm
  /\ toPool = <<"r">> => vm = "none" /\ answer = "none" /\ ~hasVm
  /\ toPool \in {<<"f">>, <<"u">>} => vm = "held" /\ pool = "closed"
  /\ answer # "none" => toPool = <<>> /\ ~hasVm
  /\ answer = "granted" => vm = "held"
  /\ pool = "open" /\ hasVm => vm = "held" /\ toPool = <<>>

\* A handler of the pool's side, of the attacker's or of the guest's that
\* leaves the lease alone: at most a login is accepted.
LeaseLeftAlone == UNCHANGED poolVars /\ authDone' \in {authDone, TRUE}

-----------------------------------------------------------------------------
\* A message that is the only one there.
LEMMA SingleMessage ==
  ASSUME NEW x
  PROVE  /\ <<x>> # <<>> /\ Append(<<>>, x) = <<x>>
         /\ Head(<<x>>) = x /\ Tail(<<x>>) = <<>>
         /\ ~Contains(<<>>, x)
         /\ \A y : Contains(<<y>>, x) <=> x = y
<1>1. <<x>> # <<>> /\ Append(<<>>, x) = <<x>> /\ Head(<<x>>) = x /\ Tail(<<x>>) = <<>>
  OBVIOUS
<1>2. ~Contains(<<>>, x) /\ \A y : Contains(<<y>>, x) <=> x = y
  BY DEF Contains
<1> QED
  BY <1>1, <1>2

\* The guest, for the session, by what is on its way.
LEMMA LeaseStateOf ==
  /\ toPool = <<>> \/ toPool = <<"r">> => LeaseState = vm
  /\ toPool = <<"f">> => LeaseState = "dirty"
  /\ toPool = <<"u">> => LeaseState = "clean"
<1>1. \A x, y : (Contains(<<y>>, x) <=> x = y) /\ ~Contains(<<>>, x)
  BY SingleMessage
<1>2. CASE toPool = <<>>
  BY <1>1, <1>2, SingleMessage DEF LeaseState
<1>3. CASE toPool = <<"r">>
  BY <1>1, <1>3, SingleMessage DEF LeaseState
<1>4. CASE toPool = <<"f">>
  BY <1>1, <1>4, SingleMessage DEF LeaseState
<1>5. CASE toPool = <<"u">>
  BY <1>1, <1>5, SingleMessage DEF LeaseState
<1> QED
  BY <1>2, <1>3, <1>4, <1>5

\* Every step leaves the lease alone, ends the attacker's side, or is one of
\* the pool's.
LEMMA StepsOfTheLease ==
  ASSUME LeaseInv, [Next]_vars
  PROVE  \/ LeaseLeftAlone
         \/ FrontGone /\ UNCHANGED authDone
         \/ PoolConnected \/ PoolUnreachable \/ ServeRequest \/ ServeReturn
         \/ GuestGranted \/ GuestRefused
<1>1. ASSUME NEW kind \in FrontKinds, FrontendPacket(kind)
      PROVE  LeaseLeftAlone \/ (FrontGone /\ UNCHANGED authDone)
  <2>1. CASE PassesThrough(kind) \/ Withheld(kind) \/ LoginEntered
    BY <2>1 DEF PassesThrough, Withheld, LoginEntered, LeaseLeftAlone
  <2>2. CASE LineRaises
    BY <2>2 DEF LineRaises
  <2>3. CASE PasswordEntered
    BY <2>3 DEF PasswordEntered, AtPassword, Spoofs, LeaseLeftAlone, LeaseInv
  <2> QED
    BY <1>1, <2>1, <2>2, <2>3 DEF FrontendPacket
<1>2. CASE \/ BackendConnects \/ BackendRefuses \/ BackendPacket \/ BackendLost
           \/ Timeout \/ GuestStarts \/ GuestReadsPart \/ GuestReadsLine \/ UNCHANGED vars
  BY <1>2 DEF BackendConnects, BackendRefuses, BackendPacket, BackendLost, Timeout,
       GuestStarts, GuestReadsPart, GuestReadsLine, Guest, vars, handlerVars, LeaseLeftAlone
<1>3. CASE FrontendLost
  BY <1>3 DEF FrontendLost, handlerVars
<1> QED
  BY <1>1, <1>2, <1>3 DEF Next

-----------------------------------------------------------------------------
(* The invariant.                                                          *)

LEMMA LeaseInvFrontGone ==
  ASSUME LeaseInv, FrontGone, UNCHANGED authDone
  PROVE  LeaseInv'
<1>1. CASE pool = "open" /\ hasVm
  <2>1. toPool = <<>> /\ toPool' = Append(toPool, IF authDone THEN "f" ELSE "u")
    BY <1>1 DEF LeaseInv, FrontGone, send_vm_free
  <2>2. toPool' \in {<<"f">>, <<"u">>}
    BY <2>1, SingleMessage
  <2>3. answer = "none"
    BY <1>1 DEF LeaseInv
  <2> QED
    BY <1>1, <2>2, <2>3, SingleMessage DEF LeaseInv, FrontGone
<1>2. CASE ~(pool = "open" /\ hasVm)
  BY <1>2, SingleMessage DEF LeaseInv, FrontGone, send_vm_free
<1> QED
  BY <1>1, <1>2

LEMMA LeaseInvStep == LeaseInv /\ [Next]_vars => LeaseInv'
<1> SUFFICES ASSUME LeaseInv, [Next]_vars PROVE LeaseInv'
  OBVIOUS
<1>1. CASE LeaseLeftAlone
  BY <1>1 DEF LeaseLeftAlone, LeaseInv, poolVars
<1>2. CASE FrontGone /\ UNCHANGED authDone
  BY <1>2, LeaseInvFrontGone
<1>3. CASE PoolConnected
  BY <1>3, SingleMessage DEF PoolConnected, LeaseInv, handlerVars
<1>4. CASE PoolUnreachable
  BY <1>4 DEF PoolUnreachable, LeaseInv, handlerVars
<1>5. CASE ServeRequest
  BY <1>5, SingleMessage DEF ServeRequest, LeaseInv, handlerVars
<1>6. CASE ServeReturn
  BY <1>6, SingleMessage DEF ServeReturn, LeaseInv, handlerVars
<1>7. CASE GuestGranted
  BY <1>7 DEF GuestGranted, LeaseInv, handlerVars
<1>8. CASE GuestRefused
  BY <1>8 DEF GuestRefused, LeaseInv, handlerVars
<1> QED
  BY <1>1, <1>2, <1>3, <1>4, <1>5, <1>6, <1>7, <1>8, StepsOfTheLease

-----------------------------------------------------------------------------
(* The session refines GuestLease.                                         *)

LEMMA LeaseStep ==
  LeaseInv /\ LeaseInv' /\ [Next]_vars => [Lease!LeaseNext]_<<LeaseState, authDone>>
<1> SUFFICES ASSUME LeaseInv, LeaseInv', [Next]_vars
             PROVE  Lease!LeaseNext \/ UNCHANGED <<LeaseState, authDone>>
  OBVIOUS
<1> DEFINE Goal == Lease!LeaseNext \/ UNCHANGED <<LeaseState, authDone>>
<1>0. (LeaseState = vm \/ toPool = <<"f">> \/ toPool = <<"u">>)
  BY LeaseStateOf DEF LeaseInv
<1>1. CASE LeaseLeftAlone
  <2>1. LeaseState' = LeaseState
    BY <1>1 DEF LeaseLeftAlone, poolVars, LeaseState
  <2> QED
    BY <1>1, <2>1 DEF LeaseLeftAlone, Lease!LeaseNext, Lease!Used
<1>2. CASE FrontGone /\ UNCHANGED authDone
  <2>1. CASE pool = "open" /\ hasVm
    <3>1. toPool = <<>> /\ vm = "held" /\ vm' = vm
      BY <1>2, <2>1 DEF LeaseInv, FrontGone
    <3>2. toPool' = IF authDone THEN <<"f">> ELSE <<"u">>
      BY <1>2, <2>1, <3>1, SingleMessage DEF FrontGone, send_vm_free
    <3>3. LeaseState = "held"
      BY <3>1, LeaseStateOf
    <3>4. LeaseState' = IF authDone THEN "dirty" ELSE "clean"
      <4>1. \A x, y : Contains(<<y>>, x) <=> x = y
        BY SingleMessage
      <4> QED
        BY <3>2, <4>1 DEF LeaseState
    <3> QED
      BY <1>2, <3>3, <3>4 DEF LeaseInv, Lease!LeaseNext, Lease!GivenBack
  <2>2. CASE ~(pool = "open" /\ hasVm)
    <3>1. toPool' = toPool /\ vm' = vm
      BY <1>2, <2>2 DEF FrontGone, send_vm_free
    <3>2. LeaseState' = LeaseState
      BY <3>1 DEF LeaseState
    <3> QED
      BY <1>2, <3>2
  <2> QED
    BY <2>1, <2>2
<1>3. CASE PoolConnected \/ PoolUnreachable \/ GuestGranted \/ GuestRefused
  <2>1. vm' = vm /\ authDone' = authDone
    BY <1>3 DEF PoolConnected, PoolUnreachable, GuestGranted, GuestRefused, handlerVars
  <2>2. (toPool = <<>> /\ toPool' = <<"r">>) \/ toPool' = toPool
    BY <1>3, SingleMessage DEF PoolConnected, PoolUnreachable, GuestGranted, GuestRefused, LeaseInv
  <2>3. \A x, y : (Contains(<<y>>, x) <=> x = y) /\ ~Contains(<<>>, x)
    BY SingleMessage
  <2>4. LeaseState' = LeaseState
    BY <2>1, <2>2, <2>3 DEF LeaseState
  <2> QED
    BY <2>1, <2>4
<1>4. CASE ServeRequest
  <2>1. toPool = <<"r">> /\ toPool' = <<>> /\ vm = "none" /\ authDone' = authDone
    BY <1>4, SingleMessage DEF ServeRequest, LeaseInv, handlerVars
  <2>2. \A x : ~Contains(<<>>, x)
    BY SingleMessage
  <2>3. LeaseState = "none" /\ LeaseState' = vm' /\ vm' \in {"none", "held"}
    <3>1. LeaseState = "none"
      BY <2>1, LeaseStateOf
    <3>2. LeaseState' = vm'
      BY <2>1, <2>2 DEF LeaseState
    <3> QED
      BY <1>4, <2>1, <3>1, <3>2 DEF ServeRequest
  <2> QED
    BY <2>1, <2>3 DEF Lease!LeaseNext, Lease!Lent
<1>5. CASE ServeReturn
  <2>1. toPool \in {<<"f">>, <<"u">>} /\ toPool' = <<>> /\ authDone' = authDone
    BY <1>5, SingleMessage DEF ServeReturn, LeaseInv, handlerVars
  <2>2. \A x : ~Contains(<<>>, x)
    BY SingleMessage
  <2>3. LeaseState' = vm'
    BY <2>1, <2>2 DEF LeaseState
  <2>4. vm' = LeaseState
    BY <1>5, <2>1, LeaseStateOf, SingleMessage DEF ServeReturn
  <2> QED
    BY <2>1, <2>3, <2>4
<1> QED
  BY <1>1, <1>2, <1>3, <1>4, <1>5, StepsOfTheLease

\* connectionLost of the frontend and PoolClient, against what the pool may
\* rely on: the telnet session borrows a guest once, gives it back at most
\* once, and says truly whether the honeypot accepted a login.
THEOREM TelnetBorrowsAsPromised == Spec => BorrowsAsPromised
<1>1. Init => LeaseInv
  BY SingleMessage DEF Init, LeaseInv
<1>2. Init => Lease!LeaseInit
  <2>1. ~Contains(<<>>, "f") /\ ~Contains(<<>>, "u")
    BY SingleMessage
  <2> QED
    BY <2>1 DEF Init, Lease!LeaseInit, LeaseState
<1> QED
  BY <1>1, <1>2, LeaseInvStep, LeaseStep, PTL DEF Spec, BorrowsAsPromised, Lease!LeaseSpec

-----------------------------------------------------------------------------
(* Sequences and sets of numbers.                                          *)

\* What has a place in the sequence, and what does not change its place.
LEMMA Concatenation ==
  ASSUME NEW S, NEW s \in Seq(S), NEW t \in Seq(S)
  PROVE  /\ s \o t \in Seq(S)
         /\ Len(s \o t) = Len(s) + Len(t)
         /\ DOMAIN (s \o t) = 1 .. Len(s) + Len(t)
         /\ Len(s) \in Nat /\ Len(t) \in Nat
         /\ \A i \in 1 .. Len(s) : (s \o t)[i] = s[i]
         /\ \A i \in 1 .. Len(t) : (s \o t)[Len(s) + i] = t[i]
         /\ \A i \in 1 .. Len(s) + Len(t) :
              \/ i \in 1 .. Len(s)
              \/ i - Len(s) \in 1 .. Len(t) /\ i = Len(s) + (i - Len(s))
<1>1. Len(s) \in Nat /\ Len(t) \in Nat
  OBVIOUS
<1>2. s \o t \in Seq(S) /\ Len(s \o t) = Len(s) + Len(t)
  BY ConcatProperties
<1>3. DOMAIN (s \o t) = 1 .. Len(s) + Len(t)
  BY <1>2, LenProperties
<1>4. \A i \in 1 .. Len(s) + Len(t) :
        (s \o t)[i] = IF i <= Len(s) THEN s[i] ELSE t[i - Len(s)]
  BY ConcatProperties
<1>5. ASSUME NEW i \in 1 .. Len(s) PROVE (s \o t)[i] = s[i]
  BY <1>1, <1>4
<1>6. ASSUME NEW i \in 1 .. Len(t) PROVE (s \o t)[Len(s) + i] = t[i]
  <2>1. Len(s) + i \in 1 .. Len(s) + Len(t) /\ ~(Len(s) + i <= Len(s))
        /\ (Len(s) + i) - Len(s) = i
    BY <1>1
  <2> QED
    BY <1>4, <2>1
<1> QED
  BY <1>1, <1>2, <1>3, <1>5, <1>6

\* InOrder lists every number of the set once, the smallest first.
LEMMA InOrderProperties ==
  ASSUME NEW S \in SUBSET Nat, IsFiniteSet(S)
  PROVE  /\ InOrder(S) \in Seq(S)
         /\ Len(InOrder(S)) = Cardinality(S)
         /\ \A k, l \in 1 .. Cardinality(S) : k < l => InOrder(S)[k] < InOrder(S)[l]
         /\ \A i \in S : \E k \in 1 .. Cardinality(S) : InOrder(S)[k] = i
<1> DEFINE n == Cardinality(S)
           UpTo(i) == {j \in S : j <= i}
           rank == [i \in S |-> Cardinality(UpTo(i))]
           R == {rank[i] : i \in S}
<1>1. n \in Nat /\ \A i \in S : i \in Nat
  BY FS_CardinalityType
<1>2. ASSUME NEW i \in S
      PROVE  IsFiniteSet(UpTo(i)) /\ rank[i] \in 1 .. n
  <2>1. UpTo(i) \in SUBSET S
    OBVIOUS
  <2>2. IsFiniteSet(UpTo(i)) /\ Cardinality(UpTo(i)) <= n
    BY <2>1, FS_Subset
  <2>3. Cardinality(UpTo(i)) \in Nat
    BY <2>2, FS_CardinalityType
  <2>4. i \in UpTo(i)
    OBVIOUS
  <2>5. Cardinality(UpTo(i)) # 0
    BY <2>2, <2>4, FS_EmptySet
  <2> QED
    BY <1>1, <2>2, <2>3, <2>5
<1>3. ASSUME NEW i \in S, NEW j \in S, i < j
      PROVE  rank[i] < rank[j]
  <2>0. \A k \in S : k <= i => k <= j
    BY <1>1, <1>3
  <2>1. UpTo(i) \in SUBSET UpTo(j)
    BY <2>0
  <2>2. j \in UpTo(j) /\ j \notin UpTo(i)
    BY <1>1, <1>3
  <2>3. Cardinality(UpTo(i)) <= Cardinality(UpTo(j)) /\ Cardinality(UpTo(i)) # Cardinality(UpTo(j))
    BY <1>2, <2>1, <2>2, FS_Subset
  <2>4. rank[i] <= rank[j] /\ rank[i] # rank[j] /\ rank[i] \in Nat /\ rank[j] \in Nat
    BY <1>2, <2>3
  <2> QED
    BY <2>4
<1> HIDE DEF rank
<1>4. ASSUME NEW i \in S, NEW j \in S, rank[i] = rank[j]
      PROVE  i = j
  <2>0. rank[i] \in Nat /\ rank[j] \in Nat
    <3>1. rank[i] \in 1 .. n /\ rank[j] \in 1 .. n
      BY <1>2
    <3> HIDE DEF n
    <3> QED
      BY <1>1, <3>1
  <2>1. ~(rank[i] < rank[j]) /\ ~(rank[j] < rank[i])
    BY <1>4, <2>0
  <2>2. ~(i < j) /\ ~(j < i)
    BY <1>3, <2>1
  <2> QED
    BY <1>1, <2>2
<1>5. R = 1 .. n
  <2>1. R \in SUBSET (1 .. n)
    BY <1>2
  <2>2. rank \in Injection(S, R)
    <3>1. rank \in [S -> R]
      BY DEF rank
    <3> QED
      BY <1>4, <3>1 DEF Injection, IsInjective
  <2>3. IsFiniteSet(1 .. n) /\ Cardinality(1 .. n) = n
    BY <1>1, FS_Interval
  <2>4. IsFiniteSet(R) /\ Cardinality(R) <= n
    BY <2>1, <2>3, FS_Subset
  <2>5. n <= Cardinality(R)
    BY <2>2, <2>4, FS_Injection
  <2>6. Cardinality(R) = n
    BY <1>1, <2>4, <2>5, FS_CardinalityType
  <2> QED
    BY <2>1, <2>3, <2>6, FS_Subset
<1> DEFINE s == InOrder(S)
<1>6. DOMAIN s = 1 .. n /\ \A k \in 1 .. n : s[k] \in S /\ rank[s[k]] = k
  <2>1. ASSUME NEW k \in 1 .. n PROVE s[k] \in S /\ rank[s[k]] = k
    <3>1. PICK i \in S : rank[i] = k
      BY <1>5
    <3>2. Cardinality(UpTo(i)) = k
      BY <3>1 DEF rank
    <3>3. s[k] = CHOOSE j \in S : Cardinality(UpTo(j)) = k
      BY DEF InOrder
    <3>4. s[k] \in S /\ Cardinality(UpTo(s[k])) = k
      BY <3>2, <3>3
    <3> QED
      BY <3>4 DEF rank
  <2> QED
    BY <2>1 DEF InOrder
<1>7. s \in Seq(S) /\ Len(s) = n
  <2>1. s \in [1 .. n -> S]
    BY <1>6 DEF InOrder
  <2> HIDE DEF s
  <2> QED
    BY <1>1, <2>1
<1>8. ASSUME NEW k \in 1 .. n, NEW l \in 1 .. n, k < l PROVE s[k] < s[l]
  <2>1. s[k] \in S /\ s[l] \in S /\ rank[s[k]] = k /\ rank[s[l]] = l
    BY <1>6
  <2>2. s[k] # s[l]
    BY <1>8, <2>1
  <2>3. ~(s[l] < s[k])
    <3> HIDE DEF s
    <3>1. ~(rank[s[l]] < rank[s[k]])
      BY <1>8, <2>1
    <3> QED
      BY <1>3, <2>1, <3>1
  <2>4. s[k] \in Nat /\ s[l] \in Nat
    BY <1>1, <2>1
  <2> HIDE DEF s
  <2> QED
    BY <2>2, <2>3, <2>4
<1>9. ASSUME NEW i \in S PROVE \E k \in 1 .. n : s[k] = i
  <2>1. rank[i] \in 1 .. n
    BY <1>2
  <2>2. rank[s[rank[i]]] = rank[i] /\ s[rank[i]] \in S
    BY <1>6, <2>1
  <2> QED
    BY <1>4, <2>1, <2>2
<1> QED
  BY <1>7, <1>8, <1>9

LEMMA NumbersFinite ==
  ASSUME NEW n \in Nat, NEW S \in SUBSET (1 .. n)
  PROVE  IsFiniteSet(S) /\ Cardinality(S) \in Nat
<1>1. IsFiniteSet(1 .. n)
  BY FS_Interval
<1> QED
  BY <1>1, FS_Subset, FS_CardinalityType

-----------------------------------------------------------------------------
(* What a packet of the attacker makes the handler send.                   *)

\* All of it carries the number of the packet and the prompts seen by then,
\* and what the handler puts in the place of a line comes last.
Answer(items) ==
  /\ items \in Seq(Item)
  /\ \A i \in 1 .. Len(items) :
       /\ items[i].n = nFront + 1 /\ items[i].asked = Prompts("password")
       /\ i # 1 => items[i].what \in Substituted
       /\ items[i].what \in Substituted => i = Len(items)

\* A name or a password is sent only when the guest had asked for it, and the
\* question is then answered; its own password only for an accepted login.  A
\* line of the attacker's own is sent only when no password was asked for.
Answers(items) ==
  /\ Answer(items)
  /\ \A i \in 1 .. Len(items) :
       /\ items[i].what = "username" => inputingLogin /\ ~inputingLogin'
       /\ items[i].what \in {"password", "wrong"} => inputingPassword /\ ~inputingPassword'
       /\ items[i].what = "password" => authDone'
       /\ items[i].what \in {"line", "bad"} => ~(Spoofs /\ inputingPassword)
  /\ inputingPassword /\ ~inputingPassword' =>
       \E i \in 1 .. Len(items) : items[i].what \in Substituted
  /\ inputingLogin' \in {inputingLogin, FALSE}
  /\ inputingPassword' \in {inputingPassword, FALSE}
  /\ authDone' \in BOOLEAN /\ (authDone => authDone')

IsAnswer(p) == p.n = nFront + 1 /\ p.asked = Prompts("password")

LEMMA AnswerShapes ==
  ASSUME NEW p \in Item, NEW q \in Item, IsAnswer(p), IsAnswer(q), p.what \notin Substituted
  PROVE  /\ Answer(<<>>) /\ Answer(<<p>>) /\ Answer(<<q>>)
         /\ q.what \in Substituted => Answer(<<p>> \o <<q>>)
<1>1. Answer(<<>>)
  BY DEF Answer, IsAnswer
<1>2. Answer(<<p>>)
  <2>1. <<p>> \in Seq(Item) /\ Len(<<p>>) = 1 /\ <<p>>[1] = p
    OBVIOUS
  <2> QED
    BY <2>1 DEF Answer, IsAnswer
<1>3. Answer(<<q>>)
  <2>1. <<q>> \in Seq(Item) /\ Len(<<q>>) = 1 /\ <<q>>[1] = q
    OBVIOUS
  <2> QED
    BY <2>1 DEF Answer, IsAnswer
<1>4. ASSUME q.what \in Substituted PROVE Answer(<<p>> \o <<q>>)
  <2> DEFINE s == <<p>> \o <<q>>
  <2>1. /\ <<p>> \in Seq(Item) /\ <<q>> \in Seq(Item)
        /\ Len(<<p>>) = 1 /\ Len(<<q>>) = 1 /\ <<p>>[1] = p /\ <<q>>[1] = q
    OBVIOUS
  <2>2. s \in Seq(Item) /\ Len(s) = 2 /\ s[1] = p /\ s[2] = q
    BY <2>1, ConcatProperties
  <2> HIDE DEF s
  <2>3. \A i \in 1 .. 2 : i = 1 \/ i = 2
    OBVIOUS
  <2> QED
    BY <1>4, <2>2, <2>3 DEF Answer, IsAnswer
<1> QED
  BY <1>1, <1>2, <1>3, <1>4

LEMMA PacketOf ==
  ASSUME TypeOK, NEW what \in {"text", "line", "bad", "nego", "do", "short"} \cup Substituted
  PROVE  \E p \in Item : Packet(what) = <<p>> /\ IsAnswer(p) /\ p.what = what
<1> DEFINE p == [n |-> nFront + 1, what |-> what, asked |-> Prompts("password")]
<1>1. nFront + 1 \in Nat /\ nBack \in Nat
  BY TelnetProxyAssumption DEF TypeOK
<1>2. Prompts("password") \in Nat
  BY <1>1, NumbersFinite DEF Prompts
<1>3. p \in Item /\ IsAnswer(p) /\ p.what = what
  BY <1>1, <1>2 DEF Item, IsAnswer
<1> QED
  BY <1>3 DEF Packet

\* What goes before the handler's answer, if anything does.
Ahead == {"do", "text", "short"}

LEMMA PrePasswordOf ==
  ASSUME TypeOK, NEW kind, NEW ahead \in PrePassword(kind)
  PROVE  \/ ahead = <<>>
         \/ \E p \in Item : ahead = <<p>> /\ IsAnswer(p) /\ p.what \in Ahead
<1>1. \A what \in Ahead :
        \E p \in Item : Packet(what) = <<p>> /\ IsAnswer(p) /\ p.what = what
  BY PacketOf DEF Ahead
<1>2. ahead = <<>> \/ \E what \in Ahead : ahead = Packet(what)
  BY DEF PrePassword, Ahead
<1> QED
  BY <1>1, <1>2

\* Nothing is sent for a part of a line, but the answer to IAC WILL ECHO.
LEMMA WithheldAnswers ==
  ASSUME TypeOK, NEW kind, NEW ahead \in PrePassword(kind)
  PROVE  Answer(ahead) /\ \A i \in 1 .. Len(ahead) : ahead[i].what \in Ahead
<1>1. CASE ahead = <<>>
  BY <1>1 DEF Answer
<1>2. ASSUME NEW p \in Item, ahead = <<p>>, IsAnswer(p), p.what \in Ahead
      PROVE  /\ Answer(<<p>>)
             /\ \A i \in 1 .. Len(<<p>>) : <<p>>[i].what \in Ahead
  <2>1. p.what \notin Substituted
    BY <1>2 DEF Substituted, Ahead
  <2>2. Answer(<<p>>)
    BY <1>2, <2>1, AnswerShapes
  <2>3. Len(<<p>>) = 1 /\ <<p>>[1] = p
    OBVIOUS
  <2> QED
    BY <1>2, <2>2, <2>3
<1> QED
  BY <1>1, <1>2, PrePasswordOf

\* The answer to a line, with what goes before it.
LEMMA LineAnswers ==
  ASSUME TypeOK, NEW kind, NEW ahead \in PrePassword(kind), NEW what \in Substituted
  PROVE  LET items == ahead \o Packet(what)
         IN  /\ Answer(items)
             /\ \A i \in 1 .. Len(items) : items[i].what \in Ahead \cup {what}
             /\ \E i \in 1 .. Len(items) : items[i].what = what
<1> DEFINE items == ahead \o Packet(what)
           Goal == /\ Answer(items)
                   /\ \A i \in 1 .. Len(items) : items[i].what \in Ahead \cup {what}
                   /\ \E i \in 1 .. Len(items) : items[i].what = what
<1>1. PICK q \in Item : Packet(what) = <<q>> /\ IsAnswer(q) /\ q.what = what
  BY PacketOf
<1>2. ASSUME ahead = <<>> PROVE Goal
  <2>1. items = <<q>>
    BY <1>1, <1>2
  <2>2. \E p \in Item : IsAnswer(p) /\ p.what = "text"
    BY PacketOf
  <2>3. "text" \notin Substituted
    BY DEF Substituted
  <2>4. Answer(<<q>>)
    BY <1>1, <2>2, <2>3, AnswerShapes
  <2>5. Len(<<q>>) = 1 /\ <<q>>[1] = q /\ 1 \in 1 .. 1 /\ \A i \in 1 .. 1 : i = 1
    OBVIOUS
  <2> HIDE DEF items
  <2> QED
    BY <1>1, <2>1, <2>4, <2>5
<1>3. ASSUME NEW p \in Item, ahead = <<p>>, IsAnswer(p), p.what \in Ahead
      PROVE  Goal
  <2>1. p.what \notin Substituted
    BY <1>3 DEF Substituted, Ahead
  <2>2. items = <<p>> \o <<q>>
    BY <1>1, <1>3
  <2>3. Answer(<<p>> \o <<q>>)
    BY <1>1, <1>3, <2>1, AnswerShapes
  <2>4. /\ Len(<<p>> \o <<q>>) = 2
        /\ (<<p>> \o <<q>>)[1] = p /\ (<<p>> \o <<q>>)[2] = q
        /\ \A i \in 1 .. 2 : i = 1 \/ i = 2
        /\ 2 \in 1 .. 2
    OBVIOUS
  <2> HIDE DEF items
  <2> QED
    BY <1>1, <1>3, <2>2, <2>3, <2>4
<1> QED
  BY <1>2, <1>3, PrePasswordOf

\* Every packet of the attacker is one call of sendBackend.
LEMMA FrontendSends ==
  ASSUME TypeOK, NEW kind \in FrontKinds, FrontendPacket(kind)
  PROVE  \E items : /\ Answers(items) /\ sendBackend(items)
                    /\ Arrives
                    /\ waitingLoginEcho' \in BOOLEAN /\ prePasswordData' \in BOOLEAN
                    /\ UNCHANGED <<spoof, toFront, nBack, guestVars>>
                    /\ \/ FrontGone /\ UNCHANGED authDone
                       \/ UNCHANGED <<front, poolVars, back>> /\ timer' \in BOOLEAN
<1>0. /\ spoof \in BOOLEAN /\ authDone \in BOOLEAN /\ inputingLogin \in BOOLEAN
      /\ inputingPassword \in BOOLEAN /\ waitingLoginEcho \in BOOLEAN
      /\ prePasswordData \in BOOLEAN /\ timer \in BOOLEAN
  BY DEF TypeOK
<1>1. CASE PassesThrough(kind)
  <2>1. PICK p \in Item : Packet(kind) = <<p>> /\ IsAnswer(p) /\ p.what = kind
    BY PacketOf, TelnetProxyAssumption
  <2>2. kind \notin Substituted
    BY TelnetProxyAssumption DEF Substituted
  <2>3. Answer(<<p>>)
    BY <2>1, <2>2, AnswerShapes
  <2>4. Len(<<p>>) = 1 /\ <<p>>[1] = p
    OBVIOUS
  <2>5. Answers(Packet(kind))
    BY <1>0, <1>1, <2>1, <2>2, <2>3, <2>4
    DEF Answers, PassesThrough, promptVars, Substituted, AtPassword
  <2> QED
    BY <1>0, <1>1, <2>5 DEF PassesThrough, promptVars
<1>2. CASE Withheld(kind)
  <2>1. PICK ahead \in PrePassword(kind) : sendBackend(ahead)
    BY <1>2 DEF Withheld
  <2>2. Answers(ahead)
    BY <1>0, <1>2, <2>1, WithheldAnswers DEF Answers, Withheld, Ahead, Substituted
  <2> QED
    BY <1>0, <1>2, <2>1, <2>2 DEF Withheld, UsesPrePassword
<1>3. CASE LineRaises
  <2>1. PICK ahead \in PrePassword("bad") : sendBackend(ahead)
    BY <1>3 DEF LineRaises
  <2>2. Answers(ahead)
    BY <1>0, <1>3, <2>1, WithheldAnswers DEF Answers, LineRaises, Ahead, Substituted
  <2> QED
    BY <1>0, <1>3, <2>1, <2>2 DEF LineRaises, UsesPrePassword
<1>4. CASE PasswordEntered
  <2>1. PICK accepted \in BOOLEAN, ahead \in PrePassword("line") :
          /\ authDone' = accepted
          /\ timer' = (timer \/ accepted)
          /\ sendBackend(ahead \o Packet(IF AtLogin THEN "username" ELSE PasswordFor(accepted)))
    BY <1>4 DEF PasswordEntered
  <2> DEFINE what == IF AtLogin THEN "username" ELSE PasswordFor(accepted)
             items == ahead \o Packet(what)
  <2>2. what \in Substituted
    BY DEF Substituted, PasswordFor
  <2>3. /\ Answer(items)
        /\ \A i \in 1 .. Len(items) : items[i].what \in Ahead \cup {what}
        /\ \E i \in 1 .. Len(items) : items[i].what = what
    BY <2>1, <2>2, LineAnswers
  <2>4. /\ what = "username" => inputingLogin
        /\ what \in {"password", "wrong"} => inputingPassword
        /\ what = "password" => accepted
    BY <1>4 DEF PasswordEntered, AtLogin, AtPassword, PasswordFor
  <2>5. ~authDone /\ ~inputingLogin' /\ ~inputingPassword'
        /\ inputingLogin' = FALSE /\ inputingPassword' = FALSE
    BY <1>4 DEF PasswordEntered, AtPassword, Spoofs
  <2>6. Answers(items)
    <3> HIDE DEF what, items
    <3> QED
      BY <1>0, <2>1, <2>2, <2>3, <2>4, <2>5 DEF Answers, Ahead, Substituted
  <2> QED
    BY <1>0, <1>4, <2>1, <2>6 DEF PasswordEntered, UsesPrePassword, AtLogin
<1>5. CASE LoginEntered
  <2>1. PICK p \in Item : Packet("username") = <<p>> /\ IsAnswer(p) /\ p.what = "username"
    BY PacketOf DEF Substituted
  <2>2. \E q \in Item : IsAnswer(q) /\ q.what = "text"
    BY PacketOf
  <2>3. "text" \notin Substituted
    BY DEF Substituted
  <2>4. Answer(<<p>>)
    BY <2>1, <2>2, <2>3, AnswerShapes
  <2>5. \A i \in 1 .. Len(<<p>>) : <<p>>[i].what = "username"
    BY <2>1
  <2>6. Answers(Packet("username"))
    BY <1>0, <1>5, <2>1, <2>4, <2>5 DEF Answers, LoginEntered, AtLogin
  <2> QED
    BY <1>0, <1>5, <2>6 DEF LoginEntered
<1> QED
  BY <1>1, <1>2, <1>3, <1>4, <1>5 DEF FrontendPacket

\* sendBackend only appends to what is written, or waits to be.
LEMMA SendBackendAppends ==
  ASSUME TypeOK, NEW items \in Seq(Item), sendBackend(items)
  PROVE  /\ Written \in Seq(Item) /\ Written' = Written \o items
         /\ backend_buffer' \in Seq(Item) /\ toBack' \in Seq(Item)
         /\ Len(toBack) <= Len(toBack')
         /\ \A i \in 1 .. Len(toBack) : toBack'[i] = toBack[i]
<1> DEFINE all == backend_buffer \o items
<1>1. backend_buffer \in Seq(Item) /\ toBack \in Seq(Item)
  BY DEF TypeOK
<1>2. all \in Seq(Item) /\ Written \in Seq(Item)
  BY <1>1, Concatenation DEF Written
<1>3. toBack \o all = Written \o items
  BY <1>1, ConcatAssociative DEF Written
<1>4. CASE toBack' = toBack \o all /\ backend_buffer' = <<>>
  <2> HIDE DEF all
  <2>1. toBack \o all \in Seq(Item)
    BY <1>1, <1>2, Concatenation
  <2>2. Written' = Written \o items
    BY <1>3, <1>4, <2>1, ConcatEmptySeq DEF Written
  <2>3. /\ Len(toBack) <= Len(toBack \o all)
        /\ \A i \in 1 .. Len(toBack) : (toBack \o all)[i] = toBack[i]
    BY <1>1, <1>2, Concatenation
  <2>4. <<>> \in Seq(Item)
    OBVIOUS
  <2> QED
    BY <1>2, <1>4, <2>1, <2>2, <2>3, <2>4
<1>5. CASE toBack' = toBack /\ backend_buffer' = all
  <2>1. Written' = Written \o items
    BY <1>3, <1>5 DEF Written
  <2> HIDE DEF all
  <2> QED
    BY <1>1, <1>2, <1>5, <2>1
<1> QED
  BY <1>4, <1>5 DEF sendBackend

LEMMA WrittenTyped ==
  ASSUME TypeOK
  PROVE  /\ toBack \in Seq(Item) /\ Written \in Seq(Item)
         /\ DOMAIN Written = 1 .. Len(Written) /\ DOMAIN toBack = 1 .. Len(toBack)
         /\ Len(toBack) \in Nat /\ Len(Written) \in Nat
         /\ \A i \in 1 .. Len(toBack) : i \in 1 .. Len(Written) /\ Written[i] = toBack[i]
<1>1. toBack \in Seq(Item) /\ backend_buffer \in Seq(Item)
  BY DEF TypeOK
<1>2. /\ Written \in Seq(Item) /\ Len(Written) = Len(toBack) + Len(backend_buffer)
      /\ Len(toBack) \in Nat /\ Len(backend_buffer) \in Nat
      /\ \A i \in 1 .. Len(toBack) : Written[i] = toBack[i]
  BY <1>1, Concatenation DEF Written
<1>3. \A i \in 1 .. Len(toBack) : i \in 1 .. Len(toBack) + Len(backend_buffer)
  BY <1>2
<1> QED
  BY <1>1, <1>2, <1>3, LenProperties

-----------------------------------------------------------------------------
(* What the guest's packets do.                                            *)

\* The handler passes on, in order, all the tokens of a packet but echos of a
\* name it sent.
LEMMA PacketShown ==
  ASSUME TypeOK, BackendPacket
  PROVE  \E last \in nBack + 1 .. Len(out) : \E shown \in SUBSET (nBack + 1 .. last) :
           /\ nBack' = last
           /\ \A i \in (nBack + 1 .. last) \ shown : out[i] = "echo"
           /\ toFront' = IF front = "lost" THEN toFront ELSE toFront \o InOrder(shown)
           /\ inputingLogin' \in BOOLEAN /\ inputingPassword' \in BOOLEAN
           /\ inputingLogin' => inputingLogin \/ \E i \in nBack + 1 .. last : out[i] = "login"
           /\ inputingPassword' =>
                inputingPassword \/ \E i \in nBack + 1 .. last : out[i] = "password"
           /\ waitingLoginEcho' \in BOOLEAN /\ prePasswordData' \in BOOLEAN
<1>1. PICK last \in nBack + 1 .. Len(out) :
        LET packet == nBack + 1 .. last
            Has(token) == \E i \in packet : out[i] = token
            shown == {i \in packet : ~(Spoofs /\ waitingLoginEcho /\ out[i] = "echo")}
        IN  /\ nBack' = last
            /\ IF Spoofs
               THEN /\ inputingPassword' = (inputingPassword \/ Has("password"))
                    /\ inputingLogin' = (inputingLogin \/ Has("login"))
                    /\ prePasswordData' = Has("will")
                    /\ waitingLoginEcho' = FALSE
               ELSE UNCHANGED promptVars
            /\ toFront' = IF front = "lost" THEN toFront ELSE toFront \o InOrder(shown)
  BY DEF BackendPacket
<1> DEFINE shown == {i \in nBack + 1 .. last : ~(Spoofs /\ waitingLoginEcho /\ out[i] = "echo")}
<1>2. shown \in SUBSET (nBack + 1 .. last) /\ \A i \in (nBack + 1 .. last) \ shown : out[i] = "echo"
  OBVIOUS
<1>3. toFront' = IF front = "lost" THEN toFront ELSE toFront \o InOrder(shown)
  BY <1>1
<1>4. nBack' = last
  BY <1>1
<1>5. /\ inputingLogin' \in BOOLEAN /\ inputingPassword' \in BOOLEAN
      /\ inputingLogin' => inputingLogin \/ \E i \in nBack + 1 .. last : out[i] = "login"
      /\ inputingPassword' => inputingPassword \/ \E i \in nBack + 1 .. last : out[i] = "password"
      /\ waitingLoginEcho' \in BOOLEAN /\ prePasswordData' \in BOOLEAN
  <2>1. /\ inputingLogin \in BOOLEAN /\ inputingPassword \in BOOLEAN
        /\ waitingLoginEcho \in BOOLEAN /\ prePasswordData \in BOOLEAN
    BY DEF TypeOK
  <2>2. CASE Spoofs
    BY <1>1, <2>1, <2>2
  <2>3. CASE ~Spoofs
    BY <1>1, <2>1, <2>3 DEF promptVars
  <2> QED
    BY <2>2, <2>3
<1> HIDE DEF shown
<1> QED
  BY <1>2, <1>3, <1>4, <1>5

\* A part of the stream in order, as a sequence of numbers.
LEMMA ShownInOrder ==
  ASSUME NEW a \in Nat, NEW b \in Nat, NEW shown \in SUBSET (a + 1 .. b)
  PROVE  /\ shown \in SUBSET Nat /\ IsFiniteSet(shown) /\ Cardinality(shown) \in Nat
         /\ InOrder(shown) \in Seq(1 .. b)
         /\ Len(InOrder(shown)) = Cardinality(shown)
         /\ \A k \in 1 .. Cardinality(shown) : InOrder(shown)[k] \in shown
<1>1. shown \in SUBSET Nat /\ shown \in SUBSET (1 .. b)
  OBVIOUS
<1>2. IsFiniteSet(1 .. b)
  BY FS_Interval
<1>3. IsFiniteSet(shown)
  BY <1>1, <1>2, FS_Subset
<1>4. InOrder(shown) \in Seq(shown) /\ Len(InOrder(shown)) = Cardinality(shown)
  BY <1>1, <1>3, InOrderProperties
<1>5. Cardinality(shown) \in Nat
  BY <1>3, FS_CardinalityType
<1>6. InOrder(shown) \in Seq(1 .. b)
  BY <1>1, <1>4, SeqMonotonic
<1>7. \A k \in 1 .. Cardinality(shown) : InOrder(shown)[k] \in shown
  BY <1>4, ElementOfSeq
<1> QED
  BY <1>1, <1>3, <1>4, <1>5, <1>6, <1>7

-----------------------------------------------------------------------------
(* What the guest does.                                                    *)



\* The tokens of one step of the guest; an echo is the first of them, and
\* answers a name that was put in.
GuestShown(tokens) ==
  /\ tokens \in Seq(Token) /\ out' = out \o tokens
  /\ \A i \in 1 .. Len(tokens) :
       tokens[i] = "echo" =>
         i = 1 /\ nRead' = nRead + 1 /\ toBack[nRead + 1].what = "username"

LEMMA TokenSequences ==
  ASSUME NEW a \in Token, NEW b \in Token
  PROVE  /\ <<>> \in Seq(Token) /\ <<a>> \in Seq(Token) /\ <<a, b>> \in Seq(Token)
         /\ Len(<<>>) = 0 /\ Len(<<a>>) = 1 /\ Len(<<a, b>>) = 2
         /\ <<a>>[1] = a /\ <<a, b>>[1] = a /\ <<a, b>>[2] = b
  OBVIOUS

LEMMA AskedForPassword ==
  ASSUME NEW before \in Seq(Token), Len(before) <= 1, AsksPassword(before),
         \A i \in 1 .. Len(before) :
           before[i] = "echo" => nRead' = nRead + 1 /\ toBack[nRead + 1].what = "username"
  PROVE  \E tokens : GuestShown(tokens)
<1>1. PICK q \in {<<"password">>, <<"will", "password">>} : out' = out \o (before \o q)
  BY DEF AsksPassword, Shows
<1>2. q \in Seq(Token) /\ \A i \in 1 .. Len(q) : q[i] # "echo"
  <2>1. \A i \in 1 .. 2 : i = 1 \/ i = 2
    OBVIOUS
  <2>2. CASE q = <<"password">>
    BY <2>2, TokenSequences DEF Token
  <2>3. CASE q = <<"will", "password">>
    BY <2>1, <2>3, TokenSequences DEF Token
  <2> QED
    BY <1>1, <2>2, <2>3
<1> DEFINE tokens == before \o q
<1>3. tokens \in Seq(Token)
  BY <1>2, Concatenation
<1>4. ASSUME NEW i \in 1 .. Len(tokens), tokens[i] = "echo"
      PROVE  i = 1 /\ nRead' = nRead + 1 /\ toBack[nRead + 1].what = "username"
  <2>1. i \in 1 .. Len(before) + Len(q) /\ Len(before) \in Nat
    BY <1>2, Concatenation
  <2>2. CASE i \in 1 .. Len(before)
    <3>1. tokens[i] = before[i]
      BY <1>2, <2>2, Concatenation
    <3>2. i = 1
      BY <2>1, <2>2
    <3> QED
      BY <1>4, <2>2, <3>1, <3>2
  <2>3. CASE i - Len(before) \in 1 .. Len(q) /\ i = Len(before) + (i - Len(before))
    <3>1. tokens[i] = q[i - Len(before)]
      BY <1>2, <2>3, Concatenation
    <3> QED
      BY <1>2, <1>4, <2>3, <3>1
  <2> QED
    BY <1>2, <2>1, <2>2, <2>3, Concatenation
<1>5. out' = out \o tokens
  BY <1>1
<1> HIDE DEF tokens
<1> QED
  BY <1>3, <1>4, <1>5 DEF GuestShown

LEMMA OneToken ==
  ASSUME NEW a \in Token \ {"echo"}, Shows(<<a>>)
  PROVE  \E tokens : GuestShown(tokens)
<1>1. <<a>> \in Seq(Token) /\ \A i \in 1 .. Len(<<a>>) : <<a>>[i] = a
  OBVIOUS
<1> QED
  BY <1>1 DEF GuestShown, Shows

LEMMA GuestSteps ==
  ASSUME TypeOK, GuestStarts \/ GuestReadsPart \/ GuestReadsLine
  PROVE  /\ \E tokens : GuestShown(tokens)
         /\ nRead' \in {nRead, nRead + 1} /\ nRead' \in 0 .. Len(toBack)
         /\ guest' \in {"start", "named", "login", "password", "shell"}
         /\ named' \in BOOLEAN /\ garbled' \in BOOLEAN
         /\ UNCHANGED <<front, timer, poolVars, back, handlerVars, streamVars>>
<1>0. /\ nRead \in Nat /\ Len(toBack) \in Nat /\ nRead <= Len(toBack) /\ out \in Seq(Token)
      /\ named \in BOOLEAN /\ garbled \in BOOLEAN
      /\ guest \in {"start", "named", "login", "password", "shell"}
  BY DEF TypeOK
<1>1. CASE GuestStarts
  <2>1. \E tokens : GuestShown(tokens)
    <3>1. CASE Shows(<<"login">>)
      BY <3>1, OneToken DEF Token
    <3>2. CASE AsksPassword(<<>>)
      <4>1. <<>> \in Seq(Token) /\ Len(<<>>) <= 1 /\ \A i \in 1 .. Len(<<>>) : FALSE
        OBVIOUS
      <4> QED
        BY <3>2, <4>1, AskedForPassword
    <3> QED
      BY <1>1, <3>1, <3>2 DEF GuestStarts
  <2> QED
    BY <1>0, <1>1, <2>1 DEF GuestStarts, Guest, AsksPassword
<1>2. CASE GuestReadsPart
  <2>1. out' = out \o <<>>
    BY <1>0, <1>2, ConcatEmptySeq DEF GuestReadsPart
  <2>2. \E tokens : GuestShown(tokens)
    <3>1. <<>> \in Seq(Token) /\ \A i \in 1 .. Len(<<>>) : FALSE
      OBVIOUS
    <3> QED
      BY <2>1, <3>1 DEF GuestShown
  <2>3. nRead' = nRead + 1 /\ nRead < Len(toBack)
    BY <1>2 DEF GuestReadsPart
  <2>4. guest' \in {guest, "named"} /\ named' \in BOOLEAN /\ garbled' \in BOOLEAN
    BY <1>0, <1>2 DEF GuestReadsPart
  <2> QED
    BY <1>0, <1>2, <2>2, <2>3, <2>4 DEF GuestReadsPart, Guest
<1>3. CASE GuestReadsLine
  <2> DEFINE what == toBack[nRead + 1].what
             May(right) == IF what \notin Substituted THEN BOOLEAN ELSE {what = right /\ ~garbled}
  <2>1. /\ nRead' = nRead + 1 /\ nRead < Len(toBack) /\ garbled' = FALSE /\ what \in Lines
        /\ \/ /\ guest = "login"
              /\ named' \in May("username")
              /\ AsksPassword(<<IF what = "username" THEN "echo" ELSE "text">>)
           \/ /\ guest = "password"
              /\ \E right \in May("password") :
                   IF named /\ right
                   THEN guest' = "shell" /\ Shows(<<"text">>)
                   ELSE guest' = "login" /\ Shows(<<"login">>)
              /\ UNCHANGED named
           \/ guest = "shell" /\ Shows(<<"text">>) /\ UNCHANGED <<guest, named>>
    BY <1>3 DEF GuestReadsLine
  <2>2. UNCHANGED <<front, timer, poolVars, back, handlerVars, streamVars>>
    BY <1>3 DEF GuestReadsLine, Guest
  <2>3. /\ \E tokens : GuestShown(tokens)
        /\ guest' \in {"login", "password", "shell"} /\ named' \in BOOLEAN
    <3>1. CASE /\ guest = "login" /\ named' \in May("username")
               /\ AsksPassword(<<IF what = "username" THEN "echo" ELSE "text">>)
      <4> DEFINE a == IF what = "username" THEN "echo" ELSE "text"
      <4>1. <<a>> \in Seq(Token) /\ Len(<<a>>) = 1 /\ <<a>>[1] = a
        BY TokenSequences DEF Token
      <4>2. \A i \in 1 .. Len(<<a>>) :
              <<a>>[i] = "echo" => nRead' = nRead + 1 /\ toBack[nRead + 1].what = "username"
        BY <2>1, <4>1
      <4>3. AsksPassword(<<a>>)
        BY <3>1
      <4>4. \E tokens : GuestShown(tokens)
        <5>1. Len(<<a>>) <= 1
          BY <4>1
        <5> HIDE DEF a
        <5> QED
          BY <4>1, <4>2, <4>3, <5>1, AskedForPassword
      <4> QED
        BY <3>1, <4>4 DEF AsksPassword
    <3>2. CASE /\ guest = "password"
               /\ \E right \in May("password") :
                    IF named /\ right
                    THEN guest' = "shell" /\ Shows(<<"text">>)
                    ELSE guest' = "login" /\ Shows(<<"login">>)
               /\ UNCHANGED named
      <4>1. PICK right \in May("password") :
              IF named /\ right
              THEN guest' = "shell" /\ Shows(<<"text">>)
              ELSE guest' = "login" /\ Shows(<<"login">>)
        BY <3>2
      <4>3. Shows(<<"text">>) \/ Shows(<<"login">>)
        BY <4>1
      <4>4. \E tokens : GuestShown(tokens)
        BY <4>3, OneToken DEF Token
      <4> QED
        BY <1>0, <3>2, <4>1, <4>4
    <3>3. CASE guest = "shell" /\ Shows(<<"text">>) /\ UNCHANGED <<guest, named>>
      <4>1. \E tokens : GuestShown(tokens)
        BY <3>3, OneToken DEF Token
      <4> QED
        BY <1>0, <3>3, <4>1
    <3> QED
      BY <2>1, <3>1, <3>2, <3>3
  <2>4. nRead + 1 \in 1 .. Len(toBack) /\ nRead' \in 0 .. Len(toBack)
    BY <1>0, <2>1
  <2> HIDE DEF what
  <2>6. garbled' \in BOOLEAN /\ nRead' \in {nRead, nRead + 1}
    BY <2>1
  <2>7. guest' \in {"start", "named", "login", "password", "shell"} /\ named' \in BOOLEAN
    BY <2>3
  <2> QED
    BY <2>2, <2>3, <2>4, <2>6, <2>7
<1> QED
  BY <1>1, <1>2, <1>3

-----------------------------------------------------------------------------
(* Type correctness.                                                       *)

TypeOfLinks ==
  /\ front \in {"open", "closing", "lost"} /\ timer \in BOOLEAN
  /\ pool \in {"none", "connecting", "open", "closed", "failed"}
  /\ hasVm \in BOOLEAN
  /\ toPool \in Seq({"r", "f", "u"})
  /\ answer \in {"none", "granted", "refused"}
  /\ vm \in {"none", "held", "clean", "dirty"}
  /\ back \in {"none", "connecting", "connected", "closing", "lost", "failed"}

TypeOfHandler ==
  /\ spoof \in BOOLEAN /\ authDone \in BOOLEAN
  /\ inputingLogin \in BOOLEAN /\ inputingPassword \in BOOLEAN
  /\ waitingLoginEcho \in BOOLEAN /\ prePasswordData \in BOOLEAN

TypeOfStreams ==
  /\ backend_buffer \in Seq(Item) /\ toBack \in Seq(Item)
  /\ nFront \in 0 .. MaxFront
  /\ out \in Seq(Token) /\ nBack \in 0 .. Len(out) /\ toFront \in Seq(1 .. Len(out))

TypeOfGuest ==
  /\ nRead \in 0 .. Len(toBack)
  /\ guest \in {"start", "named", "login", "password", "shell"}
  /\ named \in BOOLEAN /\ garbled \in BOOLEAN

LEMMA TypeParts == TypeOK => TypeOfLinks /\ TypeOfHandler /\ TypeOfStreams /\ TypeOfGuest
  BY DEF TypeOK, TypeOfLinks, TypeOfHandler, TypeOfStreams, TypeOfGuest

LEMMA TypeFromParts ==
  ASSUME TypeOfLinks', TypeOfHandler', TypeOfStreams', TypeOfGuest'
  PROVE  TypeOK'
  BY DEF TypeOK, TypeOfLinks, TypeOfHandler, TypeOfStreams, TypeOfGuest

LEMMA FrontGoneTyped ==
  ASSUME TypeOK, FrontGone
  PROVE  TypeOfLinks'
<1>1. \A x \in {"f", "u"} : Append(toPool, x) \in Seq({"r", "f", "u"})
  BY DEF TypeOK
<1>2. send_vm_free \in Seq({"r", "f", "u"})
  BY <1>1 DEF send_vm_free, TypeOK
<1> QED
  BY <1>2 DEF TypeOfLinks, TypeOK, FrontGone, Closing

\* The steps in which no packet moves: those of the pool, and those of the
\* connections and of the timer.
StillStep ==
  \/ PoolConnected \/ PoolUnreachable \/ ServeRequest \/ ServeReturn
  \/ GuestGranted \/ GuestRefused
  \/ BackendConnects \/ BackendRefuses \/ BackendLost \/ Timeout \/ FrontendLost
  \/ UNCHANGED vars

LEMMA StillSteps ==
  ASSUME TypeOK, StillStep
  PROVE  /\ UNCHANGED <<handlerVars, streamVars, guestVars>>
         /\ TypeOfLinks'
         /\ front' # "lost" => front # "lost"
<1>1. CASE PoolConnected \/ ServeRequest \/ ServeReturn
  <2>1. /\ Append(toPool, "r") \in Seq({"r", "f", "u"})
        /\ toPool # <<>> => Tail(toPool) \in Seq({"r", "f", "u"})
    BY DEF TypeOK
  <2> QED
    BY <1>1, <2>1 DEF PoolConnected, ServeRequest, ServeReturn, TypeOfLinks, TypeOK
<1>2. CASE PoolUnreachable \/ GuestGranted \/ GuestRefused \/ BackendConnects
           \/ BackendRefuses \/ BackendLost \/ Timeout
  BY <1>2 DEF PoolUnreachable, GuestGranted, GuestRefused, BackendConnects, BackendRefuses,
       BackendLost, Timeout, poolVars, Closing, TypeOfLinks, TypeOK
<1>3. CASE FrontendLost
  BY <1>3, FrontGoneTyped DEF FrontendLost, FrontGone
<1>4. CASE UNCHANGED vars
  BY <1>4 DEF vars, poolVars, TypeOfLinks, TypeOK
<1> QED
  BY <1>1, <1>2, <1>3, <1>4 DEF StillStep

LEMMA FrontendTyped ==
  ASSUME TypeOK, NEW kind \in FrontKinds, FrontendPacket(kind)
  PROVE  TypeOK'
<1>1. PICK items :
        /\ Answers(items) /\ sendBackend(items)
        /\ Arrives
        /\ waitingLoginEcho' \in BOOLEAN /\ prePasswordData' \in BOOLEAN
        /\ UNCHANGED <<spoof, toFront, nBack, guestVars>>
        /\ \/ FrontGone /\ UNCHANGED authDone
           \/ UNCHANGED <<front, poolVars, back>> /\ timer' \in BOOLEAN
  BY FrontendSends
<1>2. TypeOfLinks'
  <2>1. CASE FrontGone
    BY <2>1, FrontGoneTyped
  <2>2. CASE UNCHANGED <<front, poolVars, back>> /\ timer' \in BOOLEAN
    BY <2>2 DEF poolVars, TypeOfLinks, TypeOK
  <2> QED
    BY <1>1, <2>1, <2>2
<1>3. TypeOfHandler'
  BY <1>1 DEF Answers, TypeOfHandler, TypeOK
<1>4. /\ backend_buffer' \in Seq(Item) /\ toBack' \in Seq(Item)
      /\ Len(toBack) <= Len(toBack')
  BY <1>1, SendBackendAppends DEF Answers, Answer
<1>5. nFront' \in 0 .. MaxFront
  BY <1>1, TelnetProxyAssumption DEF Arrives, TypeOK
<1>6. TypeOfStreams'
  BY <1>1, <1>4, <1>5 DEF TypeOfStreams, TypeOK, guestVars
<1>7. TypeOfGuest'
  <2>1. nRead \in 0 .. Len(toBack) /\ Len(toBack) \in Nat /\ Len(toBack') \in Nat
    BY <1>4 DEF TypeOK
  <2>2. nRead \in 0 .. Len(toBack')
    BY <1>4, <2>1
  <2> QED
    BY <1>1, <2>2 DEF TypeOfGuest, TypeOK, guestVars
<1> QED
  BY <1>2, <1>3, <1>6, <1>7, TypeFromParts

LEMMA BackendTyped ==
  ASSUME TypeOK, BackendPacket
  PROVE  TypeOK'
<1>1. PICK last \in nBack + 1 .. Len(out) : \E shown \in SUBSET (nBack + 1 .. last) :
         /\ nBack' = last
         /\ toFront' = IF front = "lost" THEN toFront ELSE toFront \o InOrder(shown)
         /\ inputingLogin' \in BOOLEAN /\ inputingPassword' \in BOOLEAN
         /\ waitingLoginEcho' \in BOOLEAN /\ prePasswordData' \in BOOLEAN
  BY PacketShown
<1>2. PICK shown \in SUBSET (nBack + 1 .. last) :
         /\ nBack' = last
         /\ toFront' = IF front = "lost" THEN toFront ELSE toFront \o InOrder(shown)
         /\ inputingLogin' \in BOOLEAN /\ inputingPassword' \in BOOLEAN
         /\ waitingLoginEcho' \in BOOLEAN /\ prePasswordData' \in BOOLEAN
  BY <1>1
<1>3. /\ UNCHANGED <<front, timer, poolVars, back, spoof, authDone, backend_buffer, nFront,
                     toBack, guestVars>>
  BY DEF BackendPacket
<1>4. Len(out) \in Nat /\ nBack \in Nat /\ last \in Nat /\ last \in 0 .. Len(out)
      /\ toFront \in Seq(1 .. Len(out))
  BY DEF TypeOK
<1>5. InOrder(shown) \in Seq(1 .. Len(out))
  <2>1. InOrder(shown) \in Seq(1 .. last)
    BY <1>4, ShownInOrder
  <2>2. (1 .. last) \subseteq (1 .. Len(out))
    BY <1>4
  <2> QED
    BY <2>1, <2>2, SeqMonotonic
<1>6. toFront' \in Seq(1 .. Len(out))
  BY <1>2, <1>4, <1>5, Concatenation
<1>7. TypeOfStreams'
  BY <1>2, <1>3, <1>4, <1>6 DEF TypeOfStreams, TypeOK, guestVars
<1>8. TypeOfLinks'
  BY <1>3 DEF TypeOfLinks, TypeOK, poolVars
<1>9. TypeOfHandler'
  BY <1>2, <1>3 DEF TypeOfHandler, TypeOK
<1>10. TypeOfGuest'
  BY <1>3 DEF TypeOfGuest, TypeOK, guestVars
<1> QED
  BY <1>7, <1>8, <1>9, <1>10, TypeFromParts

LEMMA GuestTyped ==
  ASSUME TypeOK, GuestStarts \/ GuestReadsPart \/ GuestReadsLine
  PROVE  TypeOK'
<1>1. PICK tokens : GuestShown(tokens)
  BY GuestSteps
<1>2. /\ nRead' \in 0 .. Len(toBack)
      /\ guest' \in {"start", "named", "login", "password", "shell"}
      /\ named' \in BOOLEAN /\ garbled' \in BOOLEAN
      /\ UNCHANGED <<front, timer, poolVars, back, handlerVars, streamVars>>
  BY GuestSteps
<1>3. TypeOfLinks' /\ TypeOfHandler' /\ TypeOfGuest'
  BY <1>2 DEF TypeOfLinks, TypeOfHandler, TypeOfGuest, TypeOK, poolVars, handlerVars,
              promptVars, streamVars
<1>4. tokens \in Seq(Token) /\ out \in Seq(Token) /\ out' = out \o tokens
  BY <1>1 DEF GuestShown, TypeOK
<1>5. out' \in Seq(Token) /\ Len(out) \in Nat /\ Len(out') \in Nat /\ Len(out) <= Len(out')
  BY <1>4, Concatenation
<1>6. nBack \in 0 .. Len(out') /\ toFront \in Seq(1 .. Len(out'))
  <2>1. (1 .. Len(out)) \subseteq (1 .. Len(out')) /\ nBack \in 0 .. Len(out)
    BY <1>5 DEF TypeOK
  <2> QED
    BY <1>5, <2>1, SeqMonotonic DEF TypeOK
<1>7. TypeOfStreams'
  BY <1>2, <1>5, <1>6 DEF TypeOfStreams, TypeOK, handlerVars, streamVars
<1> QED
  BY <1>3, <1>7, TypeFromParts

LEMMA StillTyped ==
  ASSUME TypeOK, StillStep
  PROVE  TypeOK'
<1>1. UNCHANGED <<handlerVars, streamVars, guestVars>> /\ TypeOfLinks'
  BY StillSteps
<1>2. TypeOfHandler' /\ TypeOfStreams' /\ TypeOfGuest'
  BY <1>1 DEF TypeOfHandler, TypeOfStreams, TypeOfGuest, TypeOK, handlerVars, promptVars,
              streamVars, guestVars
<1> QED
  BY <1>1, <1>2, TypeFromParts

LEMMA StepsOfTheSession ==
  ASSUME [Next]_vars
  PROVE  \/ StillStep \/ BackendPacket
         \/ \E kind \in FrontKinds : FrontendPacket(kind)
         \/ GuestStarts \/ GuestReadsPart \/ GuestReadsLine
  BY DEF Next, StillStep

LEMMA TypeInit == Init => TypeOK
<1> SUFFICES ASSUME Init PROVE TypeOK
  OBVIOUS
<1>1. <<>> \in Seq(Item) /\ <<>> \in Seq({"r", "f", "u"}) /\ <<>> \in Seq(Token)
      /\ \A S : <<>> \in Seq(S)
  OBVIOUS
<1>2. Len(<<>>) = 0 /\ 0 \in 0 .. 0 /\ 0 \in 0 .. MaxFront
  BY TelnetProxyAssumption
<1>3. spoof \in BOOLEAN
  BY TelnetProxyAssumption DEF Init
<1> QED
  BY <1>1, <1>2, <1>3 DEF Init, TypeOK

\* Every variable of the session keeps its type, however the two streams are
\* cut into packets: what is held back for the guest and what it was sent are
\* packets, what the attacker was shown are tokens the guest had shown.
THEOREM TelnetTypeOK == Spec => []TypeOK
<1>1. TypeOK /\ [Next]_vars => TypeOK'
  BY StepsOfTheSession, StillTyped, BackendTyped, FrontendTyped, GuestTyped
<1> QED
  BY TypeInit, <1>1, PTL DEF Spec

-----------------------------------------------------------------------------
(* The invariants of the dialogue.                                         *)

One(flag) == IF flag THEN 1 ELSE 0

\* A question of the guest that the handler has seen is answered once.
PromptInv ==
  /\ Count(Written, {"username"}) + One(inputingLogin) <= Prompts("login")
  /\ Count(Written, {"password", "wrong"}) + One(inputingPassword) <= Prompts("password")

\* The guest's own password is written for an accepted login only.
ShellInv == \A i \in 1 .. Len(Written) : Written[i].what = "password" => authDone

\* What was written is in the order of the attacker's packets, and none is
\* still to come from before the last of them.
WrittenInv ==
  /\ \A i \in 1 .. Len(Written) : Written[i].n <= nFront
  /\ \A i, j \in 1 .. Len(Written) :
       i < j => \/ Written[i].n < Written[j].n
                \/ Written[i].n = Written[j].n /\ Written[j].what \in Substituted

\* The same for what the attacker was shown.
ShownInv ==
  /\ \A i \in 1 .. Len(toFront) : toFront[i] <= nBack
  /\ \A i, j \in 1 .. Len(toFront) : i < j => toFront[i] < toFront[j]

Echoes(last) == {i \in 1 .. last : out[i] = "echo"}
NamesRead == {i \in 1 .. nRead : toBack[i].what = "username"}

\* What was not shown are echos, and the guest has echoed no more often than
\* it was given a name.
EchoInv ==
  /\ front # "lost" =>
       /\ \A i \in 1 .. nBack : out[i] = "echo" \/ \E k \in 1 .. Len(toFront) : toFront[k] = i
       /\ nBack - Len(toFront) <= Cardinality(Echoes(nBack))
  /\ Cardinality(Echoes(Len(out))) <= Cardinality(NamesRead)

-----------------------------------------------------------------------------
(* Counting.                                                               *)

LEMMA OneMore ==
  ASSUME NEW T, IsFiniteSet(T), NEW x, NEW S \in SUBSET (T \cup {x})
  PROVE  /\ IsFiniteSet(S) /\ Cardinality(S) \in Nat /\ Cardinality(T) \in Nat
         /\ Cardinality(S) <= Cardinality(T) + 1
<1>1. IsFiniteSet(T \cup {x}) /\ Cardinality(T) \in Nat
      /\ Cardinality(T \cup {x}) = IF x \in T THEN Cardinality(T) ELSE Cardinality(T) + 1
  BY FS_AddElement, FS_CardinalityType
<1>2. IsFiniteSet(S) /\ Cardinality(S) <= Cardinality(T \cup {x})
  BY <1>1, FS_Subset
<1>3. Cardinality(S) \in Nat
  BY <1>2, FS_CardinalityType
<1> QED
  BY <1>1, <1>2, <1>3

LEMMA Larger ==
  ASSUME NEW T, IsFiniteSet(T), NEW S \in SUBSET T
  PROVE  /\ IsFiniteSet(S) /\ Cardinality(S) \in Nat /\ Cardinality(T) \in Nat
         /\ Cardinality(S) <= Cardinality(T)
         /\ \A x \in T \ S : Cardinality(S) + 1 <= Cardinality(T)
<1>1. IsFiniteSet(S) /\ Cardinality(S) <= Cardinality(T)
      /\ (Cardinality(S) = Cardinality(T) => S = T)
  BY FS_Subset
<1>2. Cardinality(S) \in Nat /\ Cardinality(T) \in Nat
  BY <1>1, FS_CardinalityType
<1>3. ASSUME NEW x \in T \ S PROVE Cardinality(S) # Cardinality(T)
  BY <1>1
<1> QED
  BY <1>1, <1>2, <1>3

\* What is appended counts for at most one, and for nothing when it holds
\* none of what is counted.
LEMMA CountAppended ==
  ASSUME NEW s \in Seq(Item), NEW t \in Seq(Item), NEW whats,
         \A i \in 1 .. Len(t) : t[i].what \in whats => i = Len(t)
  PROVE  /\ Count(s, whats) \in Nat /\ Count(s \o t, whats) \in Nat
         /\ Count(s \o t, whats) <= Count(s, whats) + 1
         /\ (\A i \in 1 .. Len(t) : t[i].what \notin whats) =>
              Count(s \o t, whats) = Count(s, whats)
<1> DEFINE A == {i \in DOMAIN s : s[i].what \in whats}
           B == {i \in DOMAIN (s \o t) : (s \o t)[i].what \in whats}
           m == Len(s)
           n == Len(t)
<1>1. /\ m \in Nat /\ n \in Nat /\ DOMAIN s = 1 .. m /\ DOMAIN (s \o t) = 1 .. m + n
      /\ \A i \in 1 .. m : (s \o t)[i] = s[i]
      /\ \A i \in 1 .. n : (s \o t)[m + i] = t[i]
      /\ \A i \in 1 .. m + n :
           \/ i \in 1 .. m
           \/ i - m \in 1 .. n /\ i = m + (i - m)
  BY Concatenation, LenProperties
<1>2. IsFiniteSet(A) /\ Cardinality(A) \in Nat
  BY <1>1, NumbersFinite
<1>3. ASSUME NEW i \in B, i \notin A
      PROVE  i - m \in 1 .. n /\ t[i - m].what \in whats /\ i = m + (i - m)
  <2>1. i \in 1 .. m + n /\ (s \o t)[i].what \in whats
    BY <1>1
  <2>2. i \notin 1 .. m
    BY <1>1, <1>3, <2>1
  <2>3. i - m \in 1 .. n /\ i = m + (i - m)
    BY <1>1, <2>1, <2>2
  <2>4. (s \o t)[m + (i - m)] = t[i - m]
    BY <1>1, <2>3
  <2> QED
    BY <2>1, <2>3, <2>4
<1>4. B \in SUBSET (A \cup {m + n})
  <2> SUFFICES ASSUME NEW i \in B, i \notin A PROVE i = m + n
    OBVIOUS
  <2>1. i - m \in 1 .. n /\ t[i - m].what \in whats /\ i = m + (i - m)
    BY <1>3
  <2> HIDE DEF A, B
  <2> QED
    BY <1>1, <2>1
<1>5. ASSUME \A i \in 1 .. n : t[i].what \notin whats PROVE A = B
  <2>1. A \subseteq B
    BY <1>1
  <2>2. B \subseteq A
    BY <1>3, <1>5
  <2> QED
    BY <2>1, <2>2
<1>6. Count(s, whats) = Cardinality(A) /\ Count(s \o t, whats) = Cardinality(B)
  BY DEF Count
<1> HIDE DEF A, B, m, n
<1>7. Cardinality(B) \in Nat /\ Cardinality(B) <= Cardinality(A) + 1
  BY <1>2, <1>4, OneMore
<1> QED
  BY <1>2, <1>5, <1>6, <1>7 DEF n

\* The handler has seen more prompts when another packet of the guest came,
\* and one more at least when there was one in it.
LEMMA PromptsGrow ==
  ASSUME NEW first \in Nat, NEW last \in Nat, first <= last, NEW token
  PROVE  LET A == {i \in 1 .. first : out[i] = token}
             B == {i \in 1 .. last : out[i] = token}
         IN  /\ Cardinality(A) \in Nat /\ Cardinality(B) \in Nat
             /\ Cardinality(A) <= Cardinality(B)
             /\ (\E i \in first + 1 .. last : out[i] = token) =>
                  Cardinality(A) + 1 <= Cardinality(B)
<1> DEFINE A == {i \in 1 .. first : out[i] = token}
           B == {i \in 1 .. last : out[i] = token}
<1>1. A \in SUBSET B
  OBVIOUS
<1>2. IsFiniteSet(B)
  BY NumbersFinite
<1>3. ASSUME NEW i \in first + 1 .. last, out[i] = token PROVE i \in B \ A
  BY <1>3
<1> HIDE DEF A, B
<1>4. /\ Cardinality(A) \in Nat /\ Cardinality(B) \in Nat /\ Cardinality(A) <= Cardinality(B)
      /\ \A x \in B \ A : Cardinality(A) + 1 <= Cardinality(B)
  BY <1>1, <1>2, Larger
<1>5. (\E i \in first + 1 .. last : out[i] = token) => Cardinality(A) + 1 <= Cardinality(B)
  BY <1>3, <1>4
<1> QED
  BY <1>4, <1>5 DEF A, B

-----------------------------------------------------------------------------
(* The steps of the attacker.                                              *)

DialogueInv == PromptInv /\ ShellInv /\ WrittenInv /\ ShownInv /\ EchoInv

LEMMA PromptsAnswered ==
  ASSUME TypeOK, PromptInv, NEW items, Answers(items), Written \in Seq(Item),
         Written' = Written \o items, UNCHANGED <<out, nBack>>
  PROVE  PromptInv'
<1>1. /\ items \in Seq(Item)
      /\ \A i \in 1 .. Len(items) : items[i].what \in Substituted => i = Len(items)
  BY DEF Answers, Answer
<1>2. /\ Prompts("login")' = Prompts("login") /\ Prompts("password")' = Prompts("password")
      /\ inputingLogin \in BOOLEAN /\ inputingPassword \in BOOLEAN
  BY DEF Prompts, TypeOK
<1>3. Prompts("login") \in Nat /\ Prompts("password") \in Nat
  <2>1. nBack \in Nat
    BY DEF TypeOK
  <2> QED
    BY <2>1, NumbersFinite DEF Prompts
<1>4. Count(Written', {"username"}) + One(inputingLogin') <= Prompts("login")
  <2>1. /\ Count(Written, {"username"}) \in Nat /\ Count(Written', {"username"}) \in Nat
        /\ Count(Written', {"username"}) <= Count(Written, {"username"}) + 1
        /\ (\A i \in 1 .. Len(items) : items[i].what \notin {"username"}) =>
             Count(Written', {"username"}) = Count(Written, {"username"})
    <3>1. \A i \in 1 .. Len(items) : items[i].what \in {"username"} => i = Len(items)
      BY <1>1 DEF Substituted
    <3> QED
      BY <1>1, <3>1, CountAppended
  <2>2. CASE \E i \in 1 .. Len(items) : items[i].what = "username"
    <3>1. inputingLogin /\ ~inputingLogin'
      BY <2>2 DEF Answers
    <3> QED
      BY <1>3, <2>1, <3>1 DEF PromptInv, One
  <2>3. CASE ~ \E i \in 1 .. Len(items) : items[i].what = "username"
    <3>1. Count(Written', {"username"}) = Count(Written, {"username"})
      BY <2>1, <2>3
    <3>2. inputingLogin' => inputingLogin
      BY DEF Answers
    <3> QED
      BY <1>3, <2>1, <3>1, <3>2 DEF PromptInv, One
  <2> QED
    BY <2>2, <2>3
<1>5. Count(Written', {"password", "wrong"}) + One(inputingPassword') <= Prompts("password")
  <2> DEFINE W == {"password", "wrong"}
  <2>1. /\ Count(Written, W) \in Nat /\ Count(Written', W) \in Nat
        /\ Count(Written', W) <= Count(Written, W) + 1
        /\ (\A i \in 1 .. Len(items) : items[i].what \notin W) =>
             Count(Written', W) = Count(Written, W)
    <3>1. \A i \in 1 .. Len(items) : items[i].what \in W => i = Len(items)
      BY <1>1 DEF Substituted
    <3> QED
      BY <1>1, <3>1, CountAppended
  <2>2. CASE \E i \in 1 .. Len(items) : items[i].what \in W
    <3>1. inputingPassword /\ ~inputingPassword'
      BY <2>2 DEF Answers
    <3> QED
      BY <1>3, <2>1, <3>1 DEF PromptInv, One
  <2>3. CASE ~ \E i \in 1 .. Len(items) : items[i].what \in W
    <3>1. Count(Written', W) = Count(Written, W)
      BY <2>1, <2>3
    <3>2. inputingPassword' => inputingPassword
      BY DEF Answers
    <3> QED
      BY <1>3, <2>1, <3>1, <3>2 DEF PromptInv, One
  <2> QED
    BY <2>2, <2>3
<1>6. PromptInv' <=>
        /\ Count(Written', {"username"}) + One(inputingLogin') <= Prompts("login")'
        /\ Count(Written', {"password", "wrong"}) + One(inputingPassword') <= Prompts("password")'
  BY DEF PromptInv, Count, One
<1> QED
  BY <1>2, <1>4, <1>5, <1>6

LEMMA WrittenStaysInOrder ==
  ASSUME TypeOK, WrittenInv, NEW items, Answer(items), Written \in Seq(Item),
         Written' = Written \o items, nFront' = nFront + 1
  PROVE  WrittenInv'
<1> DEFINE m == Len(Written)
           w == Written \o items
           N == m + Len(items)
<1>1. /\ m \in Nat /\ Len(items) \in Nat /\ Len(w) = N
      /\ \A i \in 1 .. m : w[i] = Written[i]
      /\ \A i \in 1 .. Len(items) : w[m + i] = items[i]
      /\ \A i \in 1 .. N : \/ i \in 1 .. m
                           \/ i - m \in 1 .. Len(items) /\ i = m + (i - m)
  BY Concatenation DEF Answer
<1>2. nFront \in Nat /\ \A i \in 1 .. m : Written[i].n \in Nat
  <2>1. \A i \in 1 .. m : Written[i] \in Item
    OBVIOUS
  <2> QED
    BY <2>1, TelnetProxyAssumption DEF TypeOK, Item
<1> HIDE DEF w
<1>3. ASSUME NEW i \in 1 .. N, i \notin 1 .. m
      PROVE  i - m \in 1 .. Len(items) /\ w[i] = items[i - m] /\ w[i].n = nFront + 1
  <2>1. i - m \in 1 .. Len(items) /\ i = m + (i - m)
    BY <1>1, <1>3
  <2>2. w[m + (i - m)] = items[i - m]
    BY <1>1, <2>1
  <2> QED
    BY <2>1, <2>2 DEF Answer
<1>4. ASSUME NEW i \in 1 .. m
      PROVE  w[i] = Written[i] /\ w[i].n <= nFront /\ w[i].n \in Nat
  BY <1>1, <1>2 DEF WrittenInv
<1>5. \A i \in 1 .. N : w[i].n <= nFront + 1
  BY <1>2, <1>3, <1>4
<1>6. ASSUME NEW i \in 1 .. N, NEW j \in 1 .. N, i < j
      PROVE  \/ w[i].n < w[j].n
             \/ w[i].n = w[j].n /\ w[j].what \in Substituted
  <2>1. CASE j \in 1 .. m
    <3>1. i \in 1 .. m
      BY <1>1, <1>6, <2>1
    <3> QED
      BY <1>4, <1>6, <2>1, <3>1 DEF WrittenInv
  <2>2. CASE j \notin 1 .. m /\ i \in 1 .. m
    BY <1>2, <1>3, <1>4, <2>2
  <2>3. CASE j \notin 1 .. m /\ i \notin 1 .. m
    <3>1. w[i].n = w[j].n /\ w[j] = items[j - m] /\ j - m \in 1 .. Len(items)
          /\ i - m \in 1 .. Len(items)
      BY <1>3, <2>3
    <3>2. j - m # 1
      BY <1>1, <1>6, <3>1
    <3> QED
      BY <3>1, <3>2 DEF Answer
  <2> QED
    BY <2>1, <2>2, <2>3
<1>7. Written' = w /\ Len(w) = N
  BY <1>1 DEF w
<1> QED
  BY <1>5, <1>6, <1>7 DEF WrittenInv

LEMMA FrontendDialogue ==
  ASSUME TypeOK, DialogueInv, NEW kind \in FrontKinds, FrontendPacket(kind)
  PROVE  DialogueInv'
<1>1. PICK items :
        /\ Answers(items) /\ sendBackend(items)
        /\ Arrives
        /\ UNCHANGED <<spoof, toFront, nBack, guestVars>>
        /\ FrontGone \/ UNCHANGED front
  BY FrontendSends
<1>2. items \in Seq(Item) /\ Answer(items)
  BY <1>1 DEF Answers, Answer
<1>3. /\ Written \in Seq(Item) /\ Written' = Written \o items
      /\ Len(toBack) <= Len(toBack')
      /\ \A i \in 1 .. Len(toBack) : toBack'[i] = toBack[i]
      /\ toBack' \in Seq(Item)
  BY <1>1, <1>2, SendBackendAppends
<1>4. /\ UNCHANGED <<toFront, nBack, guest, nRead, out>> /\ nFront' = nFront + 1
      /\ (front' # "lost" => front # "lost")
  BY <1>1 DEF guestVars, Arrives, FrontGone
<1>5. Len(toBack) \in Nat /\ Len(toBack') \in Nat /\ nRead \in Nat /\ nRead <= Len(toBack)
  BY <1>3 DEF TypeOK
<1>6. PromptInv'
  BY <1>1, <1>3, <1>4, PromptsAnswered DEF DialogueInv
<1>7. WrittenInv'
  BY <1>2, <1>3, <1>4, WrittenStaysInOrder DEF DialogueInv
<1>8. ShownInv'
  BY <1>4 DEF DialogueInv, ShownInv
<1>9. EchoInv'
  <2>1. NamesRead' = NamesRead
    BY <1>3, <1>4, <1>5 DEF NamesRead
  <2>2. Echoes(nBack)' = Echoes(nBack) /\ Echoes(Len(out))' = Echoes(Len(out))
    BY <1>4 DEF Echoes
  <2> QED
    BY <1>4, <2>1, <2>2 DEF DialogueInv, EchoInv
<1>10. ShellInv'
  <2>2. ASSUME NEW i \in 1 .. Len(Written'), Written'[i].what = "password" PROVE authDone'
    <3>1. /\ Len(Written') = Len(Written) + Len(items)
          /\ Len(Written) \in Nat /\ Len(items) \in Nat
          /\ \A j \in 1 .. Len(Written) : Written'[j] = Written[j]
          /\ \A j \in 1 .. Len(items) : Written'[Len(Written) + j] = items[j]
          /\ \A j \in 1 .. Len(Written) + Len(items) :
               \/ j \in 1 .. Len(Written)
               \/ j - Len(Written) \in 1 .. Len(items) /\ j = Len(Written) + (j - Len(Written))
      BY <1>2, <1>3, Concatenation
    <3>2. CASE i \in 1 .. Len(Written)
      BY <1>1, <2>2, <3>1, <3>2 DEF DialogueInv, ShellInv, Answers
    <3>3. CASE i \notin 1 .. Len(Written)
      <4>1. i - Len(Written) \in 1 .. Len(items) /\ i = Len(Written) + (i - Len(Written))
        BY <3>1, <3>3
      <4>2. Written'[i] = items[i - Len(Written)]
        BY <3>1, <4>1
      <4> QED
        BY <1>1, <2>2, <4>1, <4>2 DEF Answers
    <3> QED
      BY <3>2, <3>3
  <2> QED
    BY <2>2 DEF ShellInv
<1> QED
  BY <1>6, <1>7, <1>8, <1>9, <1>10 DEF DialogueInv

-----------------------------------------------------------------------------
(* The steps of the guest, and what the handler shows of it.               *)

LEMMA GuestDialogue ==
  ASSUME TypeOK, DialogueInv, GuestStarts \/ GuestReadsPart \/ GuestReadsLine
  PROVE  DialogueInv'
<1>1. PICK tokens : GuestShown(tokens)
  BY GuestSteps
<1>2. /\ nRead' \in {nRead, nRead + 1} /\ nRead' \in 0 .. Len(toBack)
      /\ UNCHANGED <<front, authDone, inputingLogin, inputingPassword, backend_buffer,
                     nFront, toBack, toFront, nBack>>
  BY GuestSteps DEF handlerVars, promptVars, streamVars
<1>3. /\ out \in Seq(Token) /\ tokens \in Seq(Token) /\ out' = out \o tokens
      /\ nBack \in Nat /\ nBack <= Len(out) /\ nRead \in Nat
  BY <1>1 DEF GuestShown, TypeOK
<1>4. /\ Len(out) \in Nat /\ Len(tokens) \in Nat /\ Len(out') = Len(out) + Len(tokens)
      /\ \A i \in 1 .. Len(out) : out'[i] = out[i]
      /\ \A i \in 1 .. Len(tokens) : out'[Len(out) + i] = tokens[i]
      /\ \A i \in 1 .. Len(out) + Len(tokens) :
           \/ i \in 1 .. Len(out)
           \/ i - Len(out) \in 1 .. Len(tokens) /\ i = Len(out) + (i - Len(out))
  BY <1>3, Concatenation
<1>5. Written' = Written
  BY <1>2 DEF Written
<1>6. ShellInv' /\ WrittenInv' /\ ShownInv'
  BY <1>2, <1>5 DEF DialogueInv, ShellInv, WrittenInv, ShownInv
<1>7. \A i \in 1 .. nBack : out'[i] = out[i]
  BY <1>3, <1>4
<1>8. PromptInv'
  <2>1. Prompts("login")' = Prompts("login") /\ Prompts("password")' = Prompts("password")
    BY <1>2, <1>7 DEF Prompts
  <2> QED
    BY <1>2, <1>5, <2>1 DEF DialogueInv, PromptInv, Count, One
<1>9. Echoes(nBack)' = Echoes(nBack)
  BY <1>2, <1>7 DEF Echoes
<1>10. Cardinality(Echoes(Len(out))') <= Cardinality(NamesRead')
  <2> DEFINE A == Echoes(Len(out))
             B == {i \in 1 .. Len(out') : out'[i] = "echo"}
             C == {i \in 1 .. nRead' : toBack[i].what = "username"}
  <2>1. Echoes(Len(out))' = B /\ NamesRead' = C
    BY <1>2 DEF Echoes, NamesRead
  <2>2. IsFiniteSet(A) /\ IsFiniteSet(C) /\ NamesRead \in SUBSET C
    <3>1. nRead' \in Nat /\ nRead <= nRead'
      BY <1>2, <1>3
    <3>2. A \in SUBSET (1 .. Len(out)) /\ C \in SUBSET (1 .. nRead')
      BY DEF Echoes
    <3>3. NamesRead \in SUBSET C
      <4>1. \A i \in 1 .. nRead : i \in 1 .. nRead'
        BY <1>3, <3>1
      <4> QED
        BY <4>1 DEF NamesRead
    <3> HIDE DEF A, C
    <3> QED
      BY <1>4, <3>1, <3>2, <3>3, NumbersFinite
  <2>3. ASSUME NEW i \in B, i \notin A
        PROVE  /\ i = Len(out) + 1 /\ nRead' = nRead + 1
               /\ toBack[nRead + 1].what = "username"
    <3>1. i \notin 1 .. Len(out)
      BY <1>4, <2>3 DEF Echoes
    <3>2. i - Len(out) \in 1 .. Len(tokens) /\ i = Len(out) + (i - Len(out))
      BY <1>4, <3>1
    <3>3. tokens[i - Len(out)] = "echo"
      <4>1. out'[Len(out) + (i - Len(out))] = tokens[i - Len(out)]
        BY <1>4, <3>2
      <4> QED
        BY <3>2, <4>1
    <3> HIDE DEF A, B
    <3> QED
      BY <1>1, <3>2, <3>3 DEF GuestShown
  <2>4. B \in SUBSET (A \cup {Len(out) + 1})
    BY <2>3
  <2>5. ASSUME ~(B \subseteq A) PROVE nRead + 1 \in C \ NamesRead
    BY <1>3, <2>3, <2>5 DEF NamesRead
  <2>6. Cardinality(A) <= Cardinality(NamesRead)
    BY DEF DialogueInv, EchoInv
  <2> HIDE DEF A, B, C
  <2>7. /\ Cardinality(NamesRead) \in Nat /\ Cardinality(C) \in Nat
        /\ Cardinality(NamesRead) <= Cardinality(C)
        /\ \A x \in C \ NamesRead : Cardinality(NamesRead) + 1 <= Cardinality(C)
    BY <2>2, Larger
  <2>8. CASE B \subseteq A
    <3>1. Cardinality(B) <= Cardinality(A) /\ Cardinality(B) \in Nat /\ Cardinality(A) \in Nat
      BY <2>2, <2>8, Larger
    <3> QED
      BY <2>1, <2>6, <2>7, <3>1
  <2>9. CASE ~(B \subseteq A)
    <3>1. /\ Cardinality(B) <= Cardinality(A) + 1
          /\ Cardinality(B) \in Nat /\ Cardinality(A) \in Nat
      BY <2>2, <2>4, OneMore
    <3>2. Cardinality(NamesRead) + 1 <= Cardinality(C)
      BY <2>5, <2>7, <2>9
    <3> QED
      BY <2>1, <2>6, <2>7, <3>1, <3>2
  <2> QED
    BY <2>8, <2>9
<1>11. EchoInv'
  BY <1>2, <1>7, <1>9, <1>10 DEF DialogueInv, EchoInv
<1> QED
  BY <1>6, <1>8, <1>11 DEF DialogueInv

LEMMA BackendPrompts ==
  ASSUME TypeOK, PromptInv, BackendPacket
  PROVE  PromptInv'
<1>1. PICK last \in nBack + 1 .. Len(out) :
        /\ nBack' = last
        /\ inputingLogin' \in BOOLEAN /\ inputingPassword' \in BOOLEAN
        /\ inputingLogin' => inputingLogin \/ \E i \in nBack + 1 .. last : out[i] = "login"
        /\ inputingPassword' =>
             inputingPassword \/ \E i \in nBack + 1 .. last : out[i] = "password"
  BY PacketShown
<1>2. /\ UNCHANGED <<out, toBack, backend_buffer>>
      /\ inputingLogin \in BOOLEAN /\ inputingPassword \in BOOLEAN
      /\ nBack \in Nat /\ last \in Nat /\ nBack <= last
  BY DEF BackendPacket, guestVars, TypeOK
<1> DEFINE Seen(token) == {i \in 1 .. nBack : out[i] = token}
           Now(token) == {i \in 1 .. last : out[i] = token}
<1>3. \A token \in {"login", "password"} :
        /\ Cardinality(Seen(token)) \in Nat /\ Cardinality(Now(token)) \in Nat
        /\ Cardinality(Seen(token)) <= Cardinality(Now(token))
        /\ (\E i \in nBack + 1 .. last : out[i] = token) =>
             Cardinality(Seen(token)) + 1 <= Cardinality(Now(token))
  BY <1>2, PromptsGrow
<1>4. \A token : Prompts(token) = Cardinality(Seen(token))
                 /\ Prompts(token)' = Cardinality(Now(token))
  BY <1>1, <1>2 DEF Prompts
<1> HIDE DEF Seen, Now
<1>5. /\ Count(Written', {"username"}) = Count(Written, {"username"})
      /\ Count(Written', {"password", "wrong"}) = Count(Written, {"password", "wrong"})
  BY <1>2 DEF Written
<1>6. Count(Written, {"username"}) \in Nat /\ Count(Written, {"password", "wrong"}) \in Nat
  <2>1. Written \in Seq(Item)
    BY Concatenation DEF Written, TypeOK
  <2>2. \A W : Count(Written, W) \in Nat
    <3>1. Len(Written) \in Nat /\ DOMAIN Written = 1 .. Len(Written)
      BY <2>1, LenProperties
    <3> QED
      BY <3>1, NumbersFinite DEF Count
  <2> QED
    BY <2>2
<1>7. Count(Written, {"username"}) + One(inputingLogin') <= Cardinality(Now("login"))
  BY <1>1, <1>2, <1>3, <1>4, <1>6 DEF PromptInv, One
<1>8. Count(Written, {"password", "wrong"}) + One(inputingPassword') <= Cardinality(Now("password"))
  BY <1>1, <1>2, <1>3, <1>4, <1>6 DEF PromptInv, One
<1>9. PromptInv' <=>
        /\ Count(Written', {"username"}) + One(inputingLogin') <= Prompts("login")'
        /\ Count(Written', {"password", "wrong"}) + One(inputingPassword') <= Prompts("password")'
  BY DEF PromptInv, Count, One
<1> QED
  BY <1>4, <1>5, <1>7, <1>8, <1>9

\* What is not shown of a packet is counted among the echos.
LEMMA HiddenAreEchoes ==
  ASSUME NEW a \in Nat, NEW b \in Nat, a <= b, NEW shown \in SUBSET (a + 1 .. b),
         \A i \in (a + 1 .. b) \ shown : out[i] = "echo"
  PROVE  /\ Cardinality(Echoes(a)) \in Nat /\ Cardinality(Echoes(b)) \in Nat
         /\ Cardinality(shown) \in Nat
         /\ b - a - Cardinality(shown) <= Cardinality(Echoes(b)) - Cardinality(Echoes(a))
<1> DEFINE packet == a + 1 .. b
           hidden == packet \ shown
           E == Echoes(a) \cup hidden
<1>1. /\ IsFiniteSet(packet) /\ Cardinality(packet) = b - a
  <2>1. a + 1 \in Int /\ b \in Int /\ (a + 1 > b => b - a = 0) /\ b - (a + 1) + 1 = b - a
    OBVIOUS
  <2>2. /\ IsFiniteSet(packet)
        /\ Cardinality(packet) = IF a + 1 > b THEN 0 ELSE b - (a + 1) + 1
    BY <2>1, FS_Interval
  <2> QED
    BY <2>1, <2>2
<1>2. IsFiniteSet(shown) /\ IsFiniteSet(hidden)
      /\ Cardinality(hidden) = Cardinality(packet) - Cardinality(packet \cap shown)
  BY <1>1, FS_Subset, FS_Difference
<1>3. packet \cap shown = shown
  OBVIOUS
<1>4. Echoes(a) \in SUBSET (1 .. a) /\ Echoes(b) \in SUBSET (1 .. b)
  BY DEF Echoes
<1>5. IsFiniteSet(Echoes(a)) /\ IsFiniteSet(Echoes(b))
  BY <1>4, NumbersFinite
<1>6. Echoes(a) \cap hidden = {}
  BY DEF Echoes
<1>7. E \in SUBSET Echoes(b)
  <2>1. ASSUME NEW i \in hidden PROVE i \in 1 .. b /\ out[i] = "echo"
    OBVIOUS
  <2>2. Echoes(a) \subseteq Echoes(b)
    BY DEF Echoes
  <2>3. hidden \subseteq Echoes(b)
    BY <2>1 DEF Echoes
  <2> QED
    BY <2>2, <2>3
<1> HIDE DEF packet, hidden
<1>8. /\ Cardinality(E) = Cardinality(Echoes(a)) + Cardinality(hidden) - Cardinality({})
  BY <1>2, <1>5, <1>6, FS_Union
<1>9. Cardinality({}) = 0
  BY FS_EmptySet
<1> HIDE DEF E
<1>10. Cardinality(E) <= Cardinality(Echoes(b))
  BY <1>5, <1>7, FS_Subset
<1>11. /\ Cardinality(Echoes(a)) \in Nat /\ Cardinality(Echoes(b)) \in Nat
       /\ Cardinality(shown) \in Nat /\ Cardinality(hidden) \in Nat
  BY <1>2, <1>5, FS_CardinalityType
<1>12. Cardinality(hidden) = b - a - Cardinality(shown)
  BY <1>1, <1>2, <1>3
<1> QED
  BY <1>8, <1>9, <1>10, <1>11, <1>12

LEMMA BackendShown ==
  ASSUME TypeOK, ShownInv, EchoInv, BackendPacket
  PROVE  ShownInv' /\ EchoInv'
<1>1. PICK last \in nBack + 1 .. Len(out) : \E shown \in SUBSET (nBack + 1 .. last) :
        /\ nBack' = last
        /\ \A i \in (nBack + 1 .. last) \ shown : out[i] = "echo"
        /\ toFront' = IF front = "lost" THEN toFront ELSE toFront \o InOrder(shown)
  BY PacketShown
<1>2. PICK shown \in SUBSET (nBack + 1 .. last) :
        /\ nBack' = last
        /\ \A i \in (nBack + 1 .. last) \ shown : out[i] = "echo"
        /\ toFront' = IF front = "lost" THEN toFront ELSE toFront \o InOrder(shown)
  BY <1>1
<1>3. /\ UNCHANGED <<front, out, nRead, toBack>>
      /\ nBack \in Nat /\ last \in Nat /\ nBack < last /\ Len(out) \in Nat
      /\ toFront \in Seq(1 .. Len(out))
  BY DEF BackendPacket, guestVars, TypeOK
<1>4. /\ Cardinality(Echoes(Len(out))') <= Cardinality(NamesRead')
  BY <1>3 DEF EchoInv, Echoes, NamesRead
<1>5. CASE front = "lost"
  <2>1. toFront' = toFront
    BY <1>2, <1>5
  <2>2. \A i \in 1 .. Len(toFront) : toFront[i] \in Nat
    BY <1>3
  <2>3. ShownInv'
    BY <1>2, <1>3, <2>1, <2>2 DEF ShownInv
  <2> QED
    BY <1>3, <1>4, <1>5, <2>3 DEF EchoInv
<1>6. CASE front # "lost"
  <2> DEFINE new == InOrder(shown)
             c == Cardinality(shown)
             m == Len(toFront)
             all == toFront \o new
  <2>1. /\ new \in Seq(1 .. last) /\ Len(new) = c /\ c \in Nat
        /\ \A k \in 1 .. c : new[k] \in shown
        /\ \A k, l \in 1 .. c : k < l => new[k] < new[l]
        /\ \A i \in shown : \E k \in 1 .. c : new[k] = i
    <3>1. /\ shown \in SUBSET Nat /\ IsFiniteSet(shown) /\ c \in Nat
          /\ new \in Seq(1 .. last) /\ Len(new) = c
          /\ \A k \in 1 .. c : new[k] \in shown
      BY <1>3, ShownInOrder
    <3>2. /\ \A k, l \in 1 .. c : k < l => new[k] < new[l]
          /\ \A i \in shown : \E k \in 1 .. c : new[k] = i
      BY <3>1, InOrderProperties
    <3> QED
      BY <3>1, <3>2
  <2> HIDE DEF new, c
  <2>2. new \in Seq(1 .. Len(out))
    <3>1. (1 .. last) \subseteq (1 .. Len(out))
      BY <1>3
    <3> QED
      BY <2>1, <3>1, SeqMonotonic
  <2>3. /\ Len(all) = m + c /\ m \in Nat
        /\ \A i \in 1 .. m : all[i] = toFront[i]
        /\ \A i \in 1 .. c : all[m + i] = new[i]
        /\ \A i \in 1 .. m + c :
             \/ i \in 1 .. m
             \/ i - m \in 1 .. c /\ i = m + (i - m)
    <3>1. toFront \in Seq(1 .. Len(out)) /\ Len(new) = c
      BY <1>3, <2>1
    <3>2. /\ Len(all) = m + Len(new) /\ m \in Nat
          /\ \A i \in 1 .. m : all[i] = toFront[i]
          /\ \A i \in 1 .. Len(new) : all[m + i] = new[i]
          /\ \A i \in 1 .. m + Len(new) :
               \/ i \in 1 .. m
               \/ i - m \in 1 .. Len(new) /\ i = m + (i - m)
      <4> DEFINE D == 1 .. Len(out)
      <4>1. toFront \in Seq(D) /\ new \in Seq(D)
        BY <2>2, <3>1
      <4> HIDE DEF D
      <4> QED
        BY <4>1, Concatenation
    <3> HIDE DEF all, m
    <3> QED
      BY <3>1, <3>2
  <2>4. toFront' = all
    BY <1>2, <1>6 DEF new
  <2> HIDE DEF all, m
  <2>5. ASSUME NEW i \in 1 .. m PROVE all[i] = toFront[i] /\ all[i] \in Nat /\ all[i] <= nBack
    BY <1>3, <2>3 DEF ShownInv, m
  <2>6. ASSUME NEW i \in 1 .. m + c, i \notin 1 .. m
        PROVE  i - m \in 1 .. c /\ all[i] = new[i - m] /\ all[i] \in nBack + 1 .. last
    <3>1. i - m \in 1 .. c /\ i = m + (i - m)
      BY <2>3, <2>6
    <3>2. all[m + (i - m)] = new[i - m] /\ new[i - m] \in shown
      BY <2>1, <2>3, <3>1
    <3> QED
      BY <3>1, <3>2
  <2>7. \A i \in 1 .. m + c : all[i] <= last
    BY <1>3, <2>5, <2>6
  <2>8. ASSUME NEW i \in 1 .. m + c, NEW j \in 1 .. m + c, i < j
        PROVE  all[i] < all[j]
    <3>1. CASE j \in 1 .. m
      <4>1. i \in 1 .. m
        BY <2>1, <2>3, <2>8, <3>1
      <4> QED
        BY <2>5, <2>8, <3>1, <4>1 DEF ShownInv, m
    <3>2. CASE j \notin 1 .. m /\ i \in 1 .. m
      BY <1>3, <2>5, <2>6, <3>2
    <3>3. CASE j \notin 1 .. m /\ i \notin 1 .. m
      <4>1. i - m \in 1 .. c /\ j - m \in 1 .. c /\ all[i] = new[i - m] /\ all[j] = new[j - m]
        BY <2>6, <3>3
      <4>2. i - m < j - m
        BY <2>1, <2>3, <2>8
      <4> QED
        BY <2>1, <4>1, <4>2
    <3> QED
      BY <3>1, <3>2, <3>3
  <2>9. ShownInv'
    BY <1>2, <2>3, <2>4, <2>7, <2>8 DEF ShownInv
  <2>10. ASSUME NEW i \in 1 .. last
         PROVE  out[i] = "echo" \/ \E k \in 1 .. m + c : all[k] = i
    <3>1. CASE i \in 1 .. nBack
      <4>1. out[i] = "echo" \/ \E k \in 1 .. m : toFront[k] = i
        BY <1>6, <3>1 DEF EchoInv, m
      <4>2. ASSUME NEW k \in 1 .. m, toFront[k] = i PROVE k \in 1 .. m + c /\ all[k] = i
        BY <2>1, <2>3, <4>2
      <4> QED
        BY <4>1, <4>2
    <3>2. CASE i \notin 1 .. nBack
      <4>1. i \in nBack + 1 .. last
        BY <1>3, <3>2
      <4>2. CASE i \in shown
        <5>1. PICK k \in 1 .. c : new[k] = i
          BY <2>1, <4>2
        <5>2. m + k \in 1 .. m + c /\ all[m + k] = i
          BY <2>1, <2>3, <5>1
        <5> QED
          BY <5>2
      <4> QED
        BY <1>2, <4>1, <4>2
    <3> QED
      BY <3>1, <3>2
  <2>11. last - (m + c) <= Cardinality(Echoes(last))
    <3>1. /\ Cardinality(Echoes(nBack)) \in Nat /\ Cardinality(Echoes(last)) \in Nat
          /\ last - nBack - c <= Cardinality(Echoes(last)) - Cardinality(Echoes(nBack))
      <4>1. nBack <= last /\ \A i \in (nBack + 1 .. last) \ shown : out[i] = "echo"
        BY <1>2, <1>3
      <4> QED
        BY <1>3, <4>1, HiddenAreEchoes DEF c
    <3>2. nBack - m <= Cardinality(Echoes(nBack))
      BY <1>6 DEF EchoInv, m
    <3> QED
      BY <1>3, <2>1, <2>3, <3>1, <3>2
  <2>12. Echoes(nBack)' = Echoes(last)
    BY <1>2, <1>3 DEF Echoes
  <2>13. EchoInv'
    BY <1>2, <1>3, <1>4, <2>3, <2>4, <2>10, <2>11, <2>12 DEF EchoInv
  <2> QED
    BY <2>9, <2>13
<1> QED
  BY <1>5, <1>6

LEMMA BackendDialogue ==
  ASSUME TypeOK, DialogueInv, BackendPacket
  PROVE  DialogueInv'
<1>1. UNCHANGED <<toBack, backend_buffer, nFront, authDone, guest>>
  BY DEF BackendPacket, guestVars
<1>2. ShellInv' /\ WrittenInv'
  BY <1>1 DEF DialogueInv, ShellInv, WrittenInv, Written
<1> QED
  BY <1>2, BackendPrompts, BackendShown DEF DialogueInv

LEMMA StillDialogue ==
  ASSUME TypeOK, DialogueInv, StillStep
  PROVE  DialogueInv'
<1>1. /\ UNCHANGED <<authDone, inputingLogin, inputingPassword, backend_buffer, nFront,
                     toBack, toFront, nBack, guest, nRead, out>>
      /\ (front' # "lost" => front # "lost")
  BY StillSteps DEF handlerVars, promptVars, streamVars, guestVars
<1>2. Written' = Written /\ Prompts("login")' = Prompts("login")
      /\ Prompts("password")' = Prompts("password")
      /\ Echoes(nBack)' = Echoes(nBack) /\ Echoes(Len(out))' = Echoes(Len(out))
      /\ NamesRead' = NamesRead
  BY <1>1 DEF Written, Prompts, Echoes, NamesRead
<1>3. PromptInv'
  BY <1>1, <1>2 DEF DialogueInv, PromptInv, Count, One
<1>4. ShellInv' /\ WrittenInv' /\ ShownInv'
  BY <1>1, <1>2 DEF DialogueInv, ShellInv, WrittenInv, ShownInv
<1>5. EchoInv'
  BY <1>1, <1>2 DEF DialogueInv, EchoInv
<1> QED
  BY <1>3, <1>4, <1>5 DEF DialogueInv

LEMMA DialogueInit == Init => DialogueInv
<1> SUFFICES ASSUME Init PROVE DialogueInv
  OBVIOUS
<1>1. /\ toBack = <<>> /\ backend_buffer = <<>> /\ toFront = <<>> /\ out = <<>>
      /\ nBack = 0 /\ nRead = 0 /\ nFront = 0 /\ guest = "start"
      /\ inputingLogin = FALSE /\ inputingPassword = FALSE
  BY DEF Init
<1>2. Written = <<>> /\ Len(<<>>) = 0 /\ DOMAIN <<>> = {} /\ 1 .. 0 = {}
  BY <1>1 DEF Written
<1>3. Cardinality({}) = 0
  BY FS_EmptySet
<1>4. /\ \A whats : Count(Written, whats) = 0
      /\ \A token : Prompts(token) = 0
      /\ Cardinality(Echoes(nBack)) = 0 /\ Cardinality(Echoes(Len(out))) = 0
      /\ Cardinality(NamesRead) = 0
  <2>1. \A whats : {i \in DOMAIN Written : Written[i].what \in whats} = {}
    BY <1>2
  <2>2. \A token : {i \in 1 .. nBack : out[i] = token} = {}
    BY <1>1, <1>2
  <2>3. Echoes(nBack) = {} /\ Echoes(Len(out)) = {} /\ NamesRead = {}
    BY <1>1, <1>2 DEF Echoes, NamesRead
  <2> QED
    BY <1>3, <2>1, <2>2, <2>3 DEF Count, Prompts
<1>5. PromptInv
  BY <1>1, <1>4 DEF PromptInv, One
<1>6. ShellInv /\ WrittenInv /\ ShownInv
  BY <1>1, <1>2 DEF ShellInv, WrittenInv, ShownInv
<1>7. EchoInv
  BY <1>1, <1>2, <1>4 DEF EchoInv
<1> QED
  BY <1>5, <1>6, <1>7 DEF DialogueInv

LEMMA TelnetDialogueInv == Spec => []DialogueInv
<1>1. TypeOK /\ DialogueInv /\ [Next]_vars => DialogueInv'
  BY StepsOfTheSession, StillDialogue, BackendDialogue, FrontendDialogue, GuestDialogue
<1> QED
  BY DialogueInit, <1>1, TelnetTypeOK, PTL DEF Spec

-----------------------------------------------------------------------------
(* What the invariants are for.                                            *)

\* addPacket, sendBackend and sendFrontend, however both streams are cut into
\* packets and whenever the guest comes: the handler keeps them in order, and
\* takes nothing out but echos of names it sent.
THEOREM TelnetStreamsKeepTheirOrder == Spec => []StreamsKeepTheirOrder
<1>1. ASSUME TypeOK, DialogueInv PROVE StreamsKeepTheirOrder
  <2>1. \A i, j \in DOMAIN Written :
          i < j => \/ Written[i].n < Written[j].n
                   \/ Written[i].n = Written[j].n /\ Written[j].what \in Substituted
    BY <1>1, WrittenTyped DEF DialogueInv, WrittenInv
  <2>2. \A i, j \in DOMAIN toFront : i < j => toFront[i] < toFront[j]
    <3>1. DOMAIN toFront = 1 .. Len(toFront)
      BY <1>1, LenProperties DEF TypeOK
    <3> QED
      BY <1>1, <3>1 DEF DialogueInv, ShownInv
  <2>3. ASSUME front # "lost", NEW i \in 1 .. nBack, ~Contains(toFront, i)
        PROVE  out[i] = "echo"
    BY <1>1, <2>3 DEF DialogueInv, EchoInv, Contains
  <2>4. ASSUME front # "lost" PROVE nBack - Len(toFront) <= Count(toBack, {"username"})
    <3>0. /\ nBack \in Nat /\ Len(out) \in Nat /\ nBack <= Len(out)
          /\ nRead \in Nat /\ Len(toBack) \in Nat /\ nRead <= Len(toBack)
          /\ Len(toFront) \in Nat
      BY <1>1 DEF TypeOK
    <3> DEFINE Names == {i \in DOMAIN toBack : toBack[i].what \in {"username"}}
    <3>1. nBack - Len(toFront) <= Cardinality(Echoes(nBack))
      BY <1>1, <2>4 DEF DialogueInv, EchoInv
    <3>2. /\ Cardinality(Echoes(nBack)) \in Nat /\ Cardinality(Echoes(Len(out))) \in Nat
          /\ Cardinality(Echoes(nBack)) <= Cardinality(Echoes(Len(out)))
      <4>1. Echoes(nBack) \in SUBSET Echoes(Len(out))
        BY <3>0 DEF Echoes
      <4>2. IsFiniteSet(Echoes(Len(out)))
        BY <3>0, NumbersFinite DEF Echoes
      <4> QED
        BY <4>1, <4>2, Larger
    <3>3. Cardinality(Echoes(Len(out))) <= Cardinality(NamesRead)
      BY <1>1 DEF DialogueInv, EchoInv
    <3>4. /\ Cardinality(NamesRead) \in Nat /\ Cardinality(Names) \in Nat
          /\ Cardinality(NamesRead) <= Cardinality(Names)
      <4>1. DOMAIN toBack = 1 .. Len(toBack)
        BY <1>1, WrittenTyped
      <4>2. NamesRead \in SUBSET Names
        <5>1. \A i \in 1 .. nRead : i \in 1 .. Len(toBack)
          BY <3>0
        <5> QED
          BY <4>1, <5>1 DEF NamesRead
      <4>3. IsFiniteSet(Names)
        BY <3>0, <4>1, NumbersFinite
      <4> QED
        BY <4>2, <4>3, Larger
    <3>5. Count(toBack, {"username"}) = Cardinality(Names)
      BY DEF Count
    <3> HIDE DEF Names
    <3> QED
      BY <3>0, <3>1, <3>2, <3>3, <3>4, <3>5
  <2> QED
    BY <2>1, <2>2, <2>3, <2>4 DEF StreamsKeepTheirOrder
<1> QED
  BY <1>1, TelnetTypeOK, TelnetDialogueInv, PTL

\* setProcessingStateBackend and the two process...Input: every name and every
\* password the handler sends answers a prompt of its own.
THEOREM TelnetAnswersWerePromptedFor == Spec => []AnswersWerePromptedFor
<1>1. ASSUME TypeOK, DialogueInv PROVE AnswersWerePromptedFor
  <2>1. \A whats : Count(Written, whats) \in Nat
    <3>1. DOMAIN Written = 1 .. Len(Written) /\ Len(Written) \in Nat
      BY <1>1, WrittenTyped
    <3> QED
      BY <3>1, NumbersFinite DEF Count
  <2>2. \A token : Prompts(token) \in Nat
    <3>1. nBack \in Nat
      BY <1>1 DEF TypeOK
    <3> QED
      BY <3>1, NumbersFinite DEF Prompts
  <2>3. inputingLogin \in BOOLEAN /\ inputingPassword \in BOOLEAN
    BY <1>1 DEF TypeOK
  <2> QED
    BY <1>1, <2>1, <2>2, <2>3 DEF DialogueInv, PromptInv, AnswersWerePromptedFor, One
<1> QED
  BY <1>1, TelnetTypeOK, TelnetDialogueInv, PTL

-----------------------------------------------------------------------------
(* What opens the guest.                                                   *)

\* How often the guest has asked for a password.
AllAsked == Cardinality({i \in DOMAIN out : out[i] = "password"})

Unread == nRead + 1 .. Len(Written)
Raw == {"line", "bad"}

\* While the handler interferes and the guest waits for a password: a line of
\* the attacker's own that came after the handler saw the question is behind
\* one that the handler put in a line's place; and when the handler has seen
\* the question, it is waiting for the answer, or has sent it.
OpenInv ==
  /\ \A i \in 1 .. Len(Written) : Written[i].asked <= Prompts("password")
  /\ Spoofs /\ guest = "password" =>
       /\ \A i \in Unread : Written[i].what \in Raw /\ Written[i].asked >= AllAsked =>
            \E j \in Unread : j < i /\ Written[j].what \in Substituted
       /\ Prompts("password") = AllAsked =>
            inputingPassword \/ \E j \in Unread : Written[j].what \in Substituted

LEMMA AskedAndSeen ==
  ASSUME TypeOK
  PROVE  /\ Prompts("password") \in Nat /\ AllAsked \in Nat
         /\ Prompts("password") <= AllAsked
         /\ \A i \in 1 .. Len(Written) : Written[i].asked \in Nat
<1>1. nBack \in Nat /\ Len(out) \in Nat /\ nBack <= Len(out) /\ DOMAIN out = 1 .. Len(out)
  BY LenProperties DEF TypeOK
<1>2. \A i \in 1 .. Len(Written) : Written[i].asked \in Nat
  <2>1. \A i \in 1 .. Len(Written) : Written[i] \in Item
    BY WrittenTyped
  <2> QED
    BY <2>1 DEF Item
<1> QED
  BY <1>1, <1>2, PromptsGrow DEF Prompts, AllAsked

LEMMA OpenInit == Init => OpenInv
<1> SUFFICES ASSUME Init PROVE OpenInv
  OBVIOUS
<1>1. Written = <<>> /\ guest = "start"
  BY DEF Init, Written
<1>2. Len(Written) = 0 /\ 1 .. 0 = {}
  BY <1>1
<1> QED
  BY <1>1, <1>2 DEF OpenInv

LEMMA FrontendOpen ==
  ASSUME TypeOK, OpenInv, NEW kind \in FrontKinds, FrontendPacket(kind)
  PROVE  OpenInv'
<1>1. PICK items :
        /\ Answers(items) /\ sendBackend(items)
        /\ UNCHANGED <<spoof, nBack, guestVars>>
  BY FrontendSends
<1>2. items \in Seq(Item) /\ Answer(items)
  BY <1>1 DEF Answers, Answer
<1> DEFINE m == Len(Written)
           l == Len(items)
<1>3. Written \in Seq(Item) /\ Written' = Written \o items
  BY <1>1, <1>2, SendBackendAppends
<1>4. /\ m \in Nat /\ l \in Nat /\ Len(Written') = m + l
      /\ \A i \in 1 .. m : Written'[i] = Written[i]
      /\ \A i \in 1 .. l : Written'[m + i] = items[i]
      /\ \A i \in 1 .. m + l :
           i \in 1 .. m \/ (i - m \in 1 .. l /\ i = m + (i - m))
  BY <1>2, <1>3, Concatenation
<1>5. /\ Prompts("password")' = Prompts("password") /\ AllAsked' = AllAsked
      /\ UNCHANGED <<guest, nRead, spoof>>
  BY <1>1 DEF Prompts, AllAsked, guestVars
<1>6. nRead \in Nat /\ nRead <= m
  BY WrittenTyped DEF TypeOK
<1>7. \A i \in 1 .. l : items[i].asked = Prompts("password")
  BY <1>2 DEF Answer
<1>8. Spoofs' => Spoofs
  BY <1>1, <1>5 DEF Spoofs, Answers
<1> HIDE DEF m, l
<1>9. ASSUME NEW i \in 1 .. m + l, i \notin 1 .. m
      PROVE  i - m \in 1 .. l /\ Written'[i] = items[i - m]
  <2>1. i - m \in 1 .. l /\ i = m + (i - m)
    BY <1>4, <1>9
  <2>2. Written'[m + (i - m)] = items[i - m]
    BY <1>4, <2>1
  <2> QED
    BY <2>1, <2>2
<1>10. \A i \in 1 .. m + l : Written'[i].asked <= Prompts("password")
  BY <1>4, <1>7, <1>9, AskedAndSeen DEF OpenInv, m
<1>11. ASSUME Spoofs', guest' = "password", NEW i \in Unread',
              Written'[i].what \in Raw, Written'[i].asked >= AllAsked
       PROVE  \E j \in Unread' : j < i /\ Written'[j].what \in Substituted
  <2>1. \A j \in Unread : j \in Unread' /\ Written'[j] = Written[j]
    BY <1>4, <1>5, <1>6 DEF Unread, m
  <2>2. i \in nRead + 1 .. m + l
    BY <1>4, <1>5 DEF Unread
  <2>3. CASE i \in 1 .. m
    <3>1. i \in Unread /\ Written'[i] = Written[i]
      BY <1>4, <1>6, <2>2, <2>3 DEF Unread, m
    <3>2. \E j \in Unread : j < i /\ Written[j].what \in Substituted
      BY <1>5, <1>8, <1>11, <3>1 DEF OpenInv
    <3> QED
      BY <2>1, <3>2
  <2>4. CASE i \notin 1 .. m
    <3>1. i - m \in 1 .. l /\ Written'[i] = items[i - m]
      BY <1>4, <1>6, <1>9, <2>2, <2>4
    <3>2. ~inputingPassword
      BY <1>1, <1>8, <1>11, <3>1 DEF Answers, Raw, l
    <3>3. Prompts("password") = AllAsked
      BY <1>7, <1>11, <3>1, AskedAndSeen
    <3>4. PICK j \in Unread : Written[j].what \in Substituted
      BY <1>5, <1>8, <1>11, <3>2, <3>3 DEF OpenInv
    <3>5. j < i
      BY <1>4, <1>6, <2>2, <2>4 DEF Unread, m
    <3> QED
      BY <2>1, <3>4, <3>5
  <2> QED
    BY <2>3, <2>4
<1>12. ASSUME Spoofs', guest' = "password", Prompts("password") = AllAsked
       PROVE  inputingPassword' \/ \E j \in Unread' : Written'[j].what \in Substituted
  <2>1. \A j \in Unread : j \in Unread' /\ Written'[j] = Written[j]
    BY <1>4, <1>5, <1>6 DEF Unread, m
  <2>2. inputingPassword \/ \E j \in Unread : Written[j].what \in Substituted
    BY <1>5, <1>8, <1>12 DEF OpenInv
  <2>3. CASE inputingPassword /\ ~inputingPassword'
    <3>1. PICK k \in 1 .. l : items[k].what \in Substituted
      BY <1>1, <2>3 DEF Answers, l
    <3>2. m + k \in Unread' /\ Written'[m + k] = items[k]
      BY <1>4, <1>5, <1>6 DEF Unread
    <3> QED
      BY <3>1, <3>2
  <2> QED
    BY <2>1, <2>2, <2>3
<1>13. OpenInv' <=>
         /\ \A i \in 1 .. Len(Written') : Written'[i].asked <= Prompts("password")'
         /\ Spoofs' /\ guest' = "password" =>
              /\ \A i \in Unread' : Written'[i].what \in Raw /\ Written'[i].asked >= AllAsked' =>
                   \E j \in Unread' : j < i /\ Written'[j].what \in Substituted
              /\ Prompts("password")' = AllAsked' =>
                   inputingPassword' \/ \E j \in Unread' : Written'[j].what \in Substituted
  BY DEF OpenInv
<1> QED
  BY <1>4, <1>5, <1>10, <1>11, <1>12, <1>13

LEMMA BackendOpen ==
  ASSUME TypeOK, OpenInv, BackendPacket
  PROVE  OpenInv'
<1>1. PICK last \in nBack + 1 .. Len(out) :
        /\ nBack' = last
        /\ Spoofs => inputingPassword' =
             (inputingPassword \/ \E i \in nBack + 1 .. last : out[i] = "password")
  BY DEF BackendPacket
<1>2. UNCHANGED <<out, toBack, backend_buffer, spoof, authDone, guest, nRead>>
  BY DEF BackendPacket, guestVars
<1>3. nBack \in Nat /\ last \in Nat /\ nBack <= last /\ last <= Len(out) /\ Len(out) \in Nat
      /\ inputingPassword \in BOOLEAN
  BY DEF TypeOK
<1>4. /\ Written' = Written /\ Unread' = Unread /\ AllAsked' = AllAsked
      /\ Spoofs' = Spoofs
  BY <1>2 DEF Written, Unread, AllAsked, Spoofs
<1>5. /\ Prompts("password")' \in Nat /\ Prompts("password") <= Prompts("password")'
      /\ (\E i \in nBack + 1 .. last : out[i] = "password") =>
           Prompts("password") + 1 <= Prompts("password")'
      /\ ~(\E i \in nBack + 1 .. last : out[i] = "password") =>
           Prompts("password")' = Prompts("password")
  <2>1. Prompts("password")' = Cardinality({i \in 1 .. last : out[i] = "password"})
    BY <1>1, <1>2 DEF Prompts
  <2>2. ASSUME ~(\E i \in nBack + 1 .. last : out[i] = "password")
        PROVE  {i \in 1 .. last : out[i] = "password"} = {i \in 1 .. nBack : out[i] = "password"}
    BY <1>3, <2>2
  <2> DEFINE A(token) == {i \in 1 .. nBack : out[i] = token}
             B(token) == {i \in 1 .. last : out[i] = token}
  <2>3. \A token \in {"login", "password"} :
          /\ Cardinality(A(token)) \in Nat /\ Cardinality(B(token)) \in Nat
          /\ Cardinality(A(token)) <= Cardinality(B(token))
          /\ (\E i \in nBack + 1 .. last : out[i] = token) =>
               Cardinality(A(token)) + 1 <= Cardinality(B(token))
    <3>1. nBack \in Nat /\ last \in Nat /\ nBack <= last
      BY <1>3
    <3> QED
      BY <3>1, PromptsGrow
  <2>4. /\ Prompts("password") = Cardinality(A("password"))
        /\ Prompts("password")' = Cardinality(B("password"))
    BY <2>1 DEF Prompts
  <2>5. ~(\E i \in nBack + 1 .. last : out[i] = "password") => A("password") = B("password")
    BY <2>2
  <2> HIDE DEF A, B
  <2> QED
    BY <2>3, <2>4, <2>5
<1>6. \A i \in 1 .. Len(Written) : Written[i].asked <= Prompts("password")'
  BY <1>5, AskedAndSeen DEF OpenInv
<1>7. ASSUME Spoofs, guest = "password", Prompts("password")' = AllAsked
      PROVE  inputingPassword' \/ \E j \in Unread : Written[j].what \in Substituted
  <2>1. CASE \E i \in nBack + 1 .. last : out[i] = "password"
    BY <1>1, <1>7, <2>1
  <2>2. CASE ~ \E i \in nBack + 1 .. last : out[i] = "password"
    <3>1. inputingPassword' = inputingPassword
      BY <1>1, <1>3, <1>7, <2>2
    <3>2. Prompts("password") = AllAsked
      BY <1>5, <1>7, <2>2
    <3> QED
      BY <1>7, <3>1, <3>2 DEF OpenInv
  <2> QED
    BY <2>1, <2>2
<1>8. guest' = guest
  BY <1>2
<1>9. Spoofs /\ guest = "password" =>
        \A i \in Unread : Written[i].what \in Raw /\ Written[i].asked >= AllAsked =>
          \E j \in Unread : j < i /\ Written[j].what \in Substituted
  BY DEF OpenInv
<1> HIDE DEF Raw
<1> QED
  BY <1>4, <1>6, <1>7, <1>8, <1>9 DEF OpenInv

\* The guest asks for a password once more.
LEMMA AskedOnceMore ==
  ASSUME TypeOK, NEW before \in Seq(Token), AsksPassword(before)
  PROVE  AllAsked' \in Nat /\ AllAsked + 1 <= AllAsked'
<1> DEFINE Longer(tail) == out \o (before \o tail)
<1>1. \E tail \in {<<"password">>, <<"will", "password">>} : out' = Longer(tail)
  BY DEF AsksPassword, Shows
<1>2. ASSUME NEW tail \in {<<"password">>, <<"will", "password">>}, out' = Longer(tail)
      PROVE  AllAsked' \in Nat /\ AllAsked + 1 <= AllAsked'
  <2>1. tail \in Seq(Token) /\ Len(tail) \in 1 .. 2 /\ tail[Len(tail)] = "password"
    <3>1. CASE tail = <<"password">>
      BY <3>1, TokenSequences DEF Token
    <3>2. CASE tail = <<"will", "password">>
      BY <3>2, TokenSequences DEF Token
    <3> QED
      BY <1>2, <3>1, <3>2
  <2> DEFINE shown == before \o tail
  <2>2. /\ shown \in Seq(Token) /\ Len(before) \in Nat
        /\ Len(shown) = Len(before) + Len(tail)
        /\ \A k \in 1 .. Len(tail) : shown[Len(before) + k] = tail[k]
    BY <2>1, Concatenation
  <2> HIDE DEF shown
  <2>3. /\ Len(shown) \in Nat /\ Len(shown) >= 1
        /\ shown[Len(shown)] = "password" /\ out \in Seq(Token)
    <3>1. Len(tail) \in 1 .. Len(tail)
      BY <2>1
    <3> QED
      BY <2>1, <2>2, <3>1 DEF TypeOK
  <2> HIDE DEF shown
  <2>4. out' = out \o shown
    BY <1>2 DEF shown
  <2>5. /\ Len(out) \in Nat /\ Len(out') = Len(out) + Len(shown)
        /\ out'[Len(out) + Len(shown)] = "password"
        /\ \A i \in 1 .. Len(out) : out'[i] = out[i]
        /\ DOMAIN out' = 1 .. Len(out') /\ DOMAIN out = 1 .. Len(out)
    <3>1. out \o shown \in Seq(Token)
      BY <2>2, <2>3, Concatenation
    <3> QED
      BY <2>2, <2>3, <2>4, <3>1, Concatenation, LenProperties
  <2> DEFINE first == Len(out)
             last == Len(out')
             A == {i \in 1 .. first : out'[i] = "password"}
             B == {i \in 1 .. last : out'[i] = "password"}
  <2>6. AllAsked = Cardinality(A) /\ AllAsked' = Cardinality(B)
    <3>1. {i \in DOMAIN out : out[i] = "password"} = A
      BY <2>5
    <3> QED
      BY <2>5, <3>1 DEF AllAsked
  <2>7. first \in Nat /\ last \in Nat /\ first < last /\ out'[last] = "password"
    BY <2>3, <2>5
  <2> HIDE DEF first, last
  <2>8. A \in SUBSET B /\ last \in B \ A
    BY <2>7
  <2>9. IsFiniteSet(B)
    BY <2>7, NumbersFinite
  <2> HIDE DEF A, B
  <2>10. Cardinality(A) \in Nat /\ Cardinality(B) \in Nat /\ Cardinality(A) + 1 <= Cardinality(B)
    BY <2>8, <2>9, Larger
  <2> QED
    BY <2>6, <2>10
<1> QED
  BY <1>1, <1>2

LEMMA GuestOpen ==
  ASSUME TypeOK, OpenInv, GuestStarts \/ GuestReadsPart \/ GuestReadsLine
  PROVE  OpenInv'
<1>1. /\ UNCHANGED <<inputingPassword, spoof, authDone, backend_buffer, toBack, nBack>>
      /\ \E tokens : GuestShown(tokens)
  BY GuestSteps DEF handlerVars, promptVars, streamVars
<1>2. Written' = Written /\ Spoofs' = Spoofs
  BY <1>1 DEF Written, Spoofs
<1>3. Prompts("password")' = Prompts("password")
  <2>1. PICK tokens : tokens \in Seq(Token) /\ out' = out \o tokens
    BY <1>1 DEF GuestShown
  <2>2. \A i \in 1 .. Len(out) : out'[i] = out[i]
    BY <2>1, Concatenation DEF TypeOK
  <2>3. \A i \in 1 .. nBack : out'[i] = out[i]
    BY <2>2 DEF TypeOK
  <2> QED
    BY <1>1, <2>3 DEF Prompts
<1>4. \/ guest' # "password"
      \/ AllAsked' \in Nat /\ AllAsked + 1 <= AllAsked'
      \/ /\ guest = "password" /\ guest' = "password" /\ UNCHANGED out
         /\ nRead' = nRead + 1 /\ nRead < Len(toBack)
         /\ toBack[nRead + 1].what \notin Lines
  <2>1. CASE GuestStarts
    <3>1. <<>> \in Seq(Token)
      OBVIOUS
    <3> QED
      BY <2>1, <3>1, AskedOnceMore DEF GuestStarts
  <2>2. CASE GuestReadsPart
    BY <2>2 DEF GuestReadsPart
  <2>3. CASE GuestReadsLine
    <3>1. \/ guest' # "password"
          \/ \E a \in {"echo", "text"} : AsksPassword(<<a>>)
      BY <2>3 DEF GuestReadsLine
    <3>2. \A a \in {"echo", "text"} : <<a>> \in Seq(Token)
      BY TokenSequences DEF Token
    <3> QED
      BY <3>1, <3>2, AskedOnceMore
  <2> QED
    BY <2>1, <2>2, <2>3
<1>5. CASE guest' # "password"
  BY <1>2, <1>3, <1>5 DEF OpenInv
<1>6. CASE AllAsked' \in Nat /\ AllAsked + 1 <= AllAsked'
  <2>1. Prompts("password") < AllAsked'
    BY <1>6, AskedAndSeen
  <2>2. \A i \in Unread' : i \in 1 .. Len(Written)
    <3>1. nRead' \in 0 .. Len(toBack)
      BY GuestSteps
    <3>2. nRead' \in Nat /\ Len(Written) \in Nat
      BY <3>1, WrittenTyped
    <3>3. Unread' = nRead' + 1 .. Len(Written)
      BY <1>2 DEF Unread
    <3> SUFFICES ASSUME NEW i \in Unread' PROVE i \in 1 .. Len(Written)
      OBVIOUS
    <3>4. \A a, b \in Nat : \A k \in a + 1 .. b : k \in 1 .. b
      OBVIOUS
    <3>5. \A k \in nRead' + 1 .. Len(Written) : k \in 1 .. Len(Written)
      BY <3>2, <3>4
    <3> QED
      BY <3>3, <3>5
  <2>3. \A i \in 1 .. Len(Written) : ~(Written[i].asked >= AllAsked')
    BY <1>6, <2>1, AskedAndSeen DEF OpenInv
  <2> QED
    BY <1>2, <1>3, <1>6, <2>1, <2>2, <2>3, AskedAndSeen DEF OpenInv
<1>7. CASE /\ guest = "password" /\ guest' = "password" /\ UNCHANGED out
           /\ nRead' = nRead + 1 /\ nRead < Len(toBack)
           /\ toBack[nRead + 1].what \notin Lines
  <2>1. AllAsked' = AllAsked
    BY <1>7 DEF AllAsked
  <2>2. nRead \in Nat /\ Len(toBack) \in Nat /\ nRead + 1 \in 1 .. Len(toBack)
    BY <1>7 DEF TypeOK
  <2>3. Written[nRead + 1].what \notin Substituted /\ Len(Written) \in Nat
    BY <1>7, <2>2, WrittenTyped DEF Lines
  <2>4. /\ \A j \in Unread : j \in Unread' \/ j = nRead + 1
        /\ Unread' \subseteq Unread
    BY <1>2, <1>7, <2>2, <2>3 DEF Unread
  <2>5. \A j \in Unread : Written[j].what \in Substituted => j \in Unread'
    BY <2>3, <2>4
  <2> QED
    BY <1>1, <1>2, <1>3, <1>7, <2>1, <2>4, <2>5 DEF OpenInv
<1> QED
  BY <1>4, <1>5, <1>6, <1>7

LEMMA StillOpen ==
  ASSUME TypeOK, OpenInv, StillStep
  PROVE  OpenInv'
<1>1. UNCHANGED <<inputingPassword, spoof, authDone, backend_buffer, toBack, nBack, guest,
                  nRead, out>>
  BY StillSteps DEF handlerVars, promptVars, streamVars, guestVars
<1>2. /\ Written' = Written /\ Unread' = Unread /\ AllAsked' = AllAsked
      /\ Prompts("password")' = Prompts("password") /\ Spoofs' = Spoofs
  BY <1>1 DEF Written, Unread, AllAsked, Prompts, Spoofs
<1> QED
  BY <1>1, <1>2 DEF OpenInv

LEMMA TelnetOpenInv == Spec => []OpenInv
<1>1. TypeOK /\ OpenInv /\ [Next]_vars => OpenInv'
  BY StepsOfTheSession, StillOpen, BackendOpen, FrontendOpen, GuestOpen
<1> QED
  BY OpenInit, <1>1, TelnetTypeOK, PTL DEF Spec

\* Only a line at the password prompt opens the guest.
LEMMA OpensByLine ==
  ASSUME TypeOK, [Next]_vars, guest # "shell", guest' = "shell"
  PROVE  /\ guest = "password" /\ nRead' = nRead + 1 /\ nRead + 1 \in 1 .. Len(toBack)
         /\ toBack[nRead + 1].what \in Lines
         /\ toBack[nRead + 1].what \in Substituted => toBack[nRead + 1].what = "password"
         /\ UNCHANGED toBack
<1>1. GuestReadsLine
  <2>1. ASSUME UNCHANGED guest PROVE FALSE
    BY <2>1
  <2>2. ASSUME StillStep PROVE FALSE
    BY <2>1, <2>2, StillSteps DEF guestVars
  <2>3. ASSUME BackendPacket PROVE FALSE
    BY <2>1, <2>3 DEF BackendPacket, guestVars
  <2>4. ASSUME NEW kind \in FrontKinds, FrontendPacket(kind) PROVE FALSE
    BY <2>1, <2>4, FrontendSends DEF guestVars
  <2>5. ASSUME GuestStarts \/ GuestReadsPart PROVE FALSE
    BY <2>1, <2>5 DEF GuestStarts, GuestReadsPart, AsksPassword
  <2> QED
    BY <2>2, <2>3, <2>4, <2>5, StepsOfTheSession
<1>2. UNCHANGED toBack
  BY <1>1, GuestSteps DEF streamVars
<1>3. nRead \in Nat /\ Len(toBack) \in Nat
  BY DEF TypeOK
<1>4. /\ nRead' = nRead + 1 /\ nRead < Len(toBack) /\ toBack[nRead + 1].what \in Lines
      /\ guest = "password"
  BY <1>1 DEF GuestReadsLine, AsksPassword
<1>5. ASSUME toBack[nRead + 1].what \in Substituted, toBack[nRead + 1].what # "password"
      PROVE  FALSE
  BY <1>1, <1>4, <1>5 DEF GuestReadsLine
<1> QED
  BY <1>2, <1>3, <1>4, <1>5

\* processPasswordInput, whatever the attacker types and whenever the guest
\* asks: a login the honeypot refused does not open the guest's shell, but for
\* lines that came before their question was seen and the three bytes that
\* are sent ahead.
THEOREM TelnetOnlyAcceptedLoginsOpenTheGuest == Spec => OnlyAcceptedLoginsOpenTheGuest
<1> DEFINE Opened ==
      spoof /\ guest # "shell" /\ guest' = "shell" /\ ~authDone =>
        LET line == toBack[nRead']
            asked == Cardinality({i \in DOMAIN out : out[i] = "password"})
        IN  \/ line.what = "short"
            \/ line.what \in {"line", "bad"} /\ line.asked < asked
<1>1. ASSUME TypeOK, DialogueInv, OpenInv, [Next]_vars PROVE Opened
  <2> SUFFICES ASSUME spoof, guest # "shell", guest' = "shell", ~authDone
               PROVE  \/ toBack[nRead + 1].what = "short"
                      \/ toBack[nRead + 1].what \in Raw /\ toBack[nRead + 1].asked < AllAsked
    BY <1>1, OpensByLine DEF AllAsked, Raw
  <2> DEFINE i == nRead + 1
  <2>1. /\ guest = "password" /\ i \in 1 .. Len(toBack) /\ toBack[i].what \in Lines
        /\ toBack[i].what \in Substituted => toBack[i].what = "password"
    BY <1>1, OpensByLine
  <2>2. i \in 1 .. Len(Written) /\ Written[i] = toBack[i] /\ Len(Written) \in Nat
    BY <1>1, <2>1, WrittenTyped
  <2>3. toBack[i].what # "password"
    BY <1>1, <2>2 DEF DialogueInv, ShellInv
  <2>4. CASE toBack[i].what \in Raw
    <3>1. i \in Unread /\ \A j \in Unread : ~(j < i)
      BY <1>1, <2>2 DEF Unread, TypeOK
    <3>2. ~(Written[i].asked >= AllAsked)
      BY <1>1, <2>1, <2>2, <2>4, <3>1 DEF OpenInv, Spoofs
    <3> QED
      BY <1>1, <2>2, <2>4, <3>2, AskedAndSeen
  <2> QED
    BY <2>1, <2>3, <2>4 DEF Lines, Raw
<1> QED
  BY <1>1, TelnetTypeOK, TelnetDialogueInv, TelnetOpenInv, PTL
  DEF Spec, OnlyAcceptedLoginsOpenTheGuest
=============================================================================
