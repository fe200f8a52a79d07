--------------------------- MODULE AbuseIpdbProofs ----------------------------
(***************************************************************************)
(* The timers of the AbuseIPDB plugin, the types of what it keeps and what *)
(* it reports, for any addresses, tolerances, windows and schedules, any   *)
(* number of logins, requests and threads, and any time.                   *)
(***************************************************************************)
EXTENDS AbuseIpdb, FiniteSetTheorems, SequenceTheorems, WellFoundedInduction, TLAPS

-----------------------------------------------------------------------------
(* The plugin is awake only with a clean-up to come: what makes it wake up *)
(* or start schedules one, what uses one up when awake schedules the next, *)
(* and what puts recall away without that puts the plugin to sleep.        *)
LEMMA CleaningInit == Init => CleaningGoesOn
BY DEF Init, CleaningGoesOn

(* Handlers that touch neither the timers nor what the plugin is up to.    *)
LEMMA TimersUntouched ==
  ASSUME CleaningGoesOn, UNCHANGED <<proc, sleeping, recall, orphans>>
  PROVE  CleaningGoesOn'
BY DEF CleaningGoesOn

LEMMA ScheduledGoesOn ==
  ASSUME NEW held, Schedule(held)
  PROVE  CleaningGoesOn'
BY DEF Schedule, Call, CleaningGoesOn

LEMMA LoginAndAnswers ==
  ASSUME CleaningGoesOn,
         (\E ip \in Ip : Login(ip)) \/ Answered \/ RateLimited \/ RetriesLater \/ Retries
  PROVE  CleaningGoesOn'
<1>1. CASE RateLimited
  BY <1>1 DEF RateLimited, CleaningGoesOn
<1>2. CASE (\E ip \in Ip : Login(ip)) \/ Answered \/ RetriesLater \/ Retries
  <2>1. UNCHANGED <<proc, sleeping, recall, orphans>>
    BY <1>2 DEF Login, Answered, RetriesLater, Retries, timerVars
  <2> QED BY <2>1, TimersUntouched
<1> QED BY <1>1, <1>2

LEMMA Timers ==
  ASSUME CleaningGoesOn,
         \/ \E i \in DOMAIN wakeups : wakeup(i)
         \/ CleanupCall
         \/ \E i \in DOMAIN orphans : OrphanCall(i)
  PROVE  CleaningGoesOn'
<1>1. CASE \E i \in DOMAIN wakeups : wakeup(i)
  BY <1>1, ScheduledGoesOn DEF wakeup
<1>2. CASE CleanupCall
  <2>1. CASE sleeping
    BY <1>2, <2>1 DEF CleanupCall, CleaningGoesOn
  <2>2. CASE ~sleeping
    BY <1>2, <2>2 DEF CleanupCall, Call, CleaningGoesOn
  <2> QED BY <2>1, <2>2
<1>3. ASSUME NEW i \in DOMAIN orphans, OrphanCall(i) PROVE CleaningGoesOn'
  <2>1. CASE sleeping
    BY <1>3, <2>1 DEF OrphanCall, CleaningGoesOn
  <2>2. CASE ~sleeping
    BY <1>3, <2>2, ScheduledGoesOn DEF OrphanCall
  <2> QED BY <2>1, <2>2
<1> QED BY <1>1, <1>2, <1>3

LEMMA Threads ==
  ASSUME CleaningGoesOn, NEW i \in DOMAIN writers, Thread(i)
  PROVE  CleaningGoesOn'
<1>1. UNCHANGED <<proc, sleeping, recall, orphans>>
  BY DEF Thread, SeesFree, GivesUp, Opens, Writes, PickleRaises, ThreadStep, timerVars
<1> QED BY <1>1, TimersUntouched

LEMMA Process ==
  ASSUME CleaningGoesOn,
         \/ Stop \/ Exits \/ Crash \/ StartFails
         \/ \E tolerance \in Tolerances : Start(tolerance)
  PROVE  CleaningGoesOn'
<1>1. CASE Stop \/ Exits \/ Crash \/ StartFails
  BY <1>1 DEF Stop, Exits, Crash, Gone, StartFails, CleaningGoesOn
<1>2. ASSUME NEW tolerance \in Tolerances, Start(tolerance) PROVE CleaningGoesOn'
  BY <1>2 DEF Start, Call, CleaningGoesOn
<1> QED BY <1>1, <1>2

LEMMA CleaningNext == CleaningGoesOn /\ [Next]_vars => CleaningGoesOn'
<1> SUFFICES ASSUME CleaningGoesOn, [Next]_vars PROVE CleaningGoesOn'
  OBVIOUS
<1>1. CASE Tick \/ UNCHANGED vars
  <2>1. UNCHANGED <<proc, sleeping, recall, orphans>>
    BY <1>1 DEF Tick, vars, timerVars
  <2> QED BY <2>1, TimersUntouched
<1> QED BY <1>1, LoginAndAnswers, Timers, Threads, Process DEF Next

(* cleanup_and_dump_state and wakeup (abuseipdb.py): however rate limits,  *)
(* stops, crashes and restarts fall between the timers, a plugin that is   *)
(* awake has a clean-up to come.                                           *)
THEOREM AbuseCleaningGoesOn == Spec => []CleaningGoesOn
BY CleaningInit, CleaningNext, PTL DEF Spec

-----------------------------------------------------------------------------
(* Sequences: what is left of one, and when one is within another.         *)

LEMMA Suffix ==
  ASSUME NEW S, NEW q \in Seq(S), NEW m \in 1 .. Len(q) + 1
  PROVE  /\ SubSeq(q, m, Len(q)) \in Seq(S)
         /\ Len(SubSeq(q, m, Len(q))) = Len(q) - m + 1
         /\ \A i \in 1 .. Len(q) - m + 1 :
              SubSeq(q, m, Len(q))[i] = q[m + i - 1] /\ m + i - 1 \in 1 .. Len(q)
<1> DEFINE n == Len(q)
<1>1. n \in Nat /\ m \in Nat /\ m >= 1 /\ m <= n + 1
  OBVIOUS
<1>2. \A i \in m .. n : q[i] \in S
  OBVIOUS
<1>3. n = Len(q)
  OBVIOUS
<1> HIDE DEF n
<1>4. /\ SubSeq(q, m, n) \in Seq(S)
      /\ Len(SubSeq(q, m, n)) = IF m <= n THEN n - m + 1 ELSE 0
      /\ \A i \in 1 .. n - m + 1 : SubSeq(q, m, n)[i] = q[m + i - 1]
  BY <1>1, <1>2, SubSeqProperties
<1>5. Len(SubSeq(q, m, n)) = n - m + 1
  BY <1>1, <1>4
<1>6. \A i \in 1 .. n - m + 1 : m + i - 1 \in 1 .. n
  BY <1>1
<1> QED BY <1>3, <1>4, <1>5, <1>6

LEMMA LeastNatural ==
  ASSUME NEW T \in SUBSET Nat, T # {}
  PROVE  Min(T) \in T /\ \A y \in T : Min(T) <= y
<1> DEFINE R == {ss \in Nat \X Nat : ss[1] < ss[2]}
<1>1. IsWellFoundedOn(R, Nat)
  BY NatLessThanWellFounded DEF OpToRel
<1> HIDE DEF R
<1>2. PICK x \in T : \A y \in T : <<y, x>> \notin R
  BY <1>1, WFMin
<1>3. ASSUME NEW y \in T PROVE x <= y
  <2>1. x \in Nat /\ y \in Nat /\ <<y, x>> \notin R
    BY <1>2
  <2>2. ~(y < x)
    BY <2>1 DEF R
  <2> QED BY <2>1, <2>2
<1> QED BY <1>3 DEF Min

(* popleft leaves an end of the deque, whose first time is in the window.  *)
LEMMA PopExpiredLeaves ==
  ASSUME NEW q \in Seq(Nat), NEW t
  PROVE  \E m \in 1 .. Len(q) + 1 :
           /\ PopExpired(q, t) = SubSeq(q, m, Len(q))
           /\ m <= Len(q) => q[m] + Window >= t
<1> DEFINE T == {i \in DOMAIN q : q[i] + Window >= t} \cup {Len(q) + 1}
           m == Min(T)
<1>1. T \subseteq 1 .. Len(q) + 1 /\ T # {} /\ T \in SUBSET Nat
  OBVIOUS
<1>2. PopExpired(q, t) = SubSeq(q, m, Len(q))
  BY DEF PopExpired
<1>3. \A i \in T : i # Len(q) + 1 => q[i] + Window >= t
  OBVIOUS
<1> HIDE DEF T
<1>4. m \in T
  BY <1>1, LeastNatural
<1> HIDE DEF m
<1>5. m \in 1 .. Len(q) + 1 /\ Len(q) \in Nat
  BY <1>1, <1>4
<1>6. m <= Len(q) => q[m] + Window >= t
  <2>1. m <= Len(q) => m # Len(q) + 1
    BY <1>5
  <2> QED BY <1>3, <1>4, <2>1
<1> QED BY <1>2, <1>5, <1>6

LEMMA RecentLeaves ==
  ASSUME NEW q \in Seq(Nat), NEW max \in Nat
  PROVE  \E m \in 1 .. Len(q) + 1 :
           Recent(q, max) = SubSeq(q, m, Len(q)) /\ Len(q) - m + 1 <= max
<1> DEFINE m == 1 + (IF Len(q) > max THEN Len(q) - max ELSE 0)
<1>1. m \in 1 .. Len(q) + 1 /\ Len(q) - m + 1 <= max
  OBVIOUS
<1>2. Recent(q, max) = SubSeq(q, m, Len(q))
  BY DEF Recent
<1> QED BY <1>1, <1>2

(* The times of q are times of s, each of its own login and in their order. *)
Chooses(h, q, s) ==
  /\ h \in [1 .. Len(q) -> 1 .. Len(s)]
  /\ \A i, j \in 1 .. Len(q) : i < j => h[i] < h[j]
  /\ \A i \in 1 .. Len(q) : q[i] = s[h[i]]
Within(q, s) == \E h : Chooses(h, q, s)

LEMMA NothingWithin == ASSUME NEW s PROVE Within(<<>>, s)
<1> DEFINE h == [i \in 1 .. Len(<<>>) |-> i]
<1>1. 1 .. Len(<<>>) = {}
  OBVIOUS
<1>2. h \in [1 .. Len(<<>>) -> 1 .. Len(s)]
  BY <1>1
<1>3. Chooses(h, <<>>, s)
  BY <1>1, <1>2 DEF Chooses
<1> QED BY <1>3 DEF Within

LEMMA SuffixWithin ==
  ASSUME NEW S, NEW q \in Seq(S), NEW s, Within(q, s), NEW m \in 1 .. Len(q) + 1
  PROVE  Within(SubSeq(q, m, Len(q)), s)
<1> DEFINE r == SubSeq(q, m, Len(q))
<1>1. PICK h : Chooses(h, q, s)
  BY DEF Within
<1>2. /\ Len(r) = Len(q) - m + 1
      /\ \A i \in 1 .. Len(r) : r[i] = q[m + i - 1] /\ m + i - 1 \in 1 .. Len(q)
  BY Suffix
<1> DEFINE g == [i \in 1 .. Len(r) |-> h[m + i - 1]]
<1> HIDE DEF r
<1>3. \A i \in 1 .. Len(r) : h[m + i - 1] \in 1 .. Len(s)
  BY <1>1, <1>2 DEF Chooses
<1>4. g \in [1 .. Len(r) -> 1 .. Len(s)]
  BY <1>3
<1>5. \A i, j \in 1 .. Len(r) : i < j => g[i] < g[j]
  <2> TAKE i, j \in 1 .. Len(r)
  <2> HAVE i < j
  <2>1. m + i - 1 \in 1 .. Len(q) /\ m + j - 1 \in 1 .. Len(q) /\ m + i - 1 < m + j - 1
    BY <1>2
  <2>2. h[m + i - 1] < h[m + j - 1]
    BY <1>1, <2>1 DEF Chooses
  <2> QED BY <2>2
<1>6. \A i \in 1 .. Len(r) : r[i] = s[g[i]]
  BY <1>1, <1>2 DEF Chooses
<1> HIDE DEF g
<1>7. Chooses(g, r, s)
  BY <1>4, <1>5, <1>6 DEF Chooses
<1>8. Within(r, s)
  BY <1>7 DEF Within
<1> QED BY <1>8 DEF r

LEMMA LaterWithin ==
  ASSUME NEW S, NEW q \in Seq(S), NEW s \in Seq(S), Within(q, s), NEW x \in S
  PROVE  Within(q, Append(s, x)) /\ Within(Append(q, x), Append(s, x))
<1> DEFINE s2 == Append(s, x)
           q2 == Append(q, x)
<1>1. PICK h : Chooses(h, q, s)
  BY DEF Within
<1>2. /\ Len(s2) = Len(s) + 1 /\ Len(q2) = Len(q) + 1
      /\ Len(s) \in Nat /\ Len(q) \in Nat
      /\ \A i \in 1 .. Len(s) : s2[i] = s[i] /\ i \in 1 .. Len(s2)
      /\ \A i \in 1 .. Len(q) : q2[i] = q[i] /\ i \in 1 .. Len(q2)
      /\ s2[Len(s) + 1] = x /\ q2[Len(q) + 1] = x
  OBVIOUS
<1> HIDE DEF s2, q2
<1>3. \A i \in 1 .. Len(q) : h[i] \in 1 .. Len(s)
  BY <1>1 DEF Chooses
<1>4. Chooses(h, q, s2)
  <2>1. h \in [1 .. Len(q) -> 1 .. Len(s2)]
    BY <1>1, <1>2 DEF Chooses
  <2> QED BY <1>1, <1>2, <1>3, <2>1 DEF Chooses
<1> DEFINE g == [i \in 1 .. Len(q2) |-> IF i <= Len(q) THEN h[i] ELSE Len(s) + 1]
<1>5. g \in [1 .. Len(q2) -> 1 .. Len(s2)]
  <2>1. ASSUME NEW i \in 1 .. Len(q2)
        PROVE  (IF i <= Len(q) THEN h[i] ELSE Len(s) + 1) \in 1 .. Len(s2)
    <3>1. CASE i <= Len(q)
      <4>1. i \in 1 .. Len(q)
        BY <1>2, <3>1
      <4> QED BY <1>2, <1>3, <3>1, <4>1
    <3>2. CASE ~(i <= Len(q))
      BY <1>2, <3>2
    <3> QED BY <3>1, <3>2
  <2> QED BY <2>1
<1>6. /\ \A i \in 1 .. Len(q) : g[i] = h[i]
      /\ g[Len(q) + 1] = Len(s) + 1
      /\ \A i \in 1 .. Len(q2) : i \in 1 .. Len(q) \/ i = Len(q) + 1
  <2>1. \A i \in 1 .. Len(q) : i \in 1 .. Len(q2) /\ i <= Len(q)
    BY <1>2
  <2>2. Len(q) + 1 \in 1 .. Len(q2) /\ ~(Len(q) + 1 <= Len(q))
    BY <1>2
  <2>3. \A i \in 1 .. Len(q2) : i \in 1 .. Len(q) \/ i = Len(q) + 1
    BY <1>2
  <2> QED BY <2>1, <2>2, <2>3
<1> HIDE DEF g
<1>7. \A i, j \in 1 .. Len(q2) : i < j => g[i] < g[j]
  <2> TAKE i, j \in 1 .. Len(q2)
  <2> HAVE i < j
  <2>1. i \in 1 .. Len(q)
    BY <1>2, <1>6
  <2>2. CASE j \in 1 .. Len(q)
    BY <1>1, <1>6, <2>1, <2>2 DEF Chooses
  <2>3. CASE j = Len(q) + 1
    <3>1. h[i] \in 1 .. Len(s) /\ g[i] = h[i] /\ g[j] = Len(s) + 1
      BY <1>3, <1>6, <2>1, <2>3
    <3> QED BY <1>2, <3>1
  <2> QED BY <1>6, <2>2, <2>3
<1>8. \A i \in 1 .. Len(q2) : q2[i] = s2[g[i]]
  <2> TAKE i \in 1 .. Len(q2)
  <2>1. CASE i \in 1 .. Len(q)
    BY <1>1, <1>2, <1>3, <1>6, <2>1 DEF Chooses
  <2>2. CASE i = Len(q) + 1
    BY <1>2, <1>6, <2>2
  <2> QED BY <1>6, <2>1, <2>2
<1>9. Chooses(g, q2, s2)
  BY <1>5, <1>7, <1>8 DEF Chooses
<1>10. Within(q, s2) /\ Within(q2, s2)
  BY <1>4, <1>9 DEF Within
<1> QED BY <1>10 DEF s2, q2

(* Times that never decrease stay so in what is within them.               *)
Sorted(s) == \A i, j \in 1 .. Len(s) : i < j => s[i] <= s[j]

LEMMA WithinSorted ==
  ASSUME NEW q \in Seq(Nat), NEW s \in Seq(Nat), Within(q, s), Sorted(s)
  PROVE  Sorted(q)
<1>1. PICK h : Chooses(h, q, s)
  BY DEF Within
<1>2. ASSUME NEW i \in 1 .. Len(q), NEW j \in 1 .. Len(q), i < j PROVE q[i] <= q[j]
  <2>1. h[i] \in 1 .. Len(s) /\ h[j] \in 1 .. Len(s) /\ h[i] < h[j]
    BY <1>1, <1>2 DEF Chooses
  <2>2. q[i] = s[h[i]] /\ q[j] = s[h[j]]
    BY <1>1 DEF Chooses
  <2> QED BY <2>1, <2>2 DEF Sorted
<1> QED BY <1>2 DEF Sorted

(* Among times that never decrease, popleft takes every expired one.       *)
LEMMA PopExpiredTakesAll ==
  ASSUME NEW q \in Seq(Nat), NEW t \in Nat, Sorted(q)
  PROVE  \A i \in 1 .. Len(PopExpired(q, t)) : PopExpired(q, t)[i] + Window >= t
<1>1. PICK m \in 1 .. Len(q) + 1 :
        /\ PopExpired(q, t) = SubSeq(q, m, Len(q))
        /\ m <= Len(q) => q[m] + Window >= t
  BY PopExpiredLeaves
<1> DEFINE r == PopExpired(q, t)
<1>2. /\ Len(r) = Len(q) - m + 1
      /\ \A i \in 1 .. Len(r) : r[i] = q[m + i - 1] /\ m + i - 1 \in 1 .. Len(q)
  BY <1>1, Suffix
<1> HIDE DEF r
<1>3. ASSUME NEW i \in 1 .. Len(r) PROVE r[i] + Window >= t
  <2>1. m \in 1 .. Len(q) /\ m + i - 1 \in 1 .. Len(q) /\ (m = m + i - 1 \/ m < m + i - 1)
    BY <1>2
  <2>2. q[m] <= q[m + i - 1]
    <3>1. CASE m = m + i - 1
      BY <2>1, <3>1
    <3>2. CASE m < m + i - 1
      BY <2>1, <3>2 DEF Sorted
    <3> QED BY <2>1, <3>1, <3>2
  <2>3. q[m] + Window >= t
    BY <1>1, <2>1
  <2>4. q[m] \in Nat /\ q[m + i - 1] \in Nat /\ Window \in Nat
    <3>1. \A k \in 1 .. Len(q) : q[k] \in Nat
      OBVIOUS
    <3> QED BY <2>1, <3>1, AbuseIpdbAssumption
  <2>5. r[i] = q[m + i - 1]
    BY <1>2
  <2> QED BY <2>2, <2>3, <2>4, <2>5
<1> QED BY <1>3 DEF r

(* Times in the window, each of its own login: so many logins were in it.  *)
LEMMA WithinCounts ==
  ASSUME NEW q \in Seq(Nat), NEW s \in Seq(Nat), Within(q, s), NEW t,
         \A i \in 1 .. Len(q) : q[i] + Window >= t
  PROVE  Len(q) <= Cardinality({i \in DOMAIN s : s[i] + Window >= t})
<1> DEFINE W == {i \in DOMAIN s : s[i] + Window >= t}
           D == 1 .. Len(q)
<1>1. PICK h : Chooses(h, q, s)
  BY DEF Within
<1>2. DOMAIN s = 1 .. Len(s) /\ Len(s) \in Nat /\ Len(q) \in Nat
  OBVIOUS
<1>3. IsFiniteSet(W)
  <2>1. IsFiniteSet(1 .. Len(s))
    BY <1>2, FS_Interval
  <2>2. W \in SUBSET (1 .. Len(s))
    BY <1>2
  <2> HIDE DEF W
  <2> QED BY <2>1, <2>2, FS_Subset
<1>4. Cardinality(D) = Len(q)
  <2> DEFINE n == Len(q)
  <2>1. 1 \in Int /\ n \in Int /\ n \in Nat
    BY <1>2
  <2> HIDE DEF n
  <2>2. Cardinality(1 .. n) = IF 1 > n THEN 0 ELSE n - 1 + 1
    BY <2>1, FS_Interval
  <2>3. Cardinality(1 .. n) = n
    BY <2>1, <2>2
  <2> QED BY <2>3 DEF n
<1>5. h \in Injection(D, W)
  <2>1. \A i \in D : h[i] \in W
    BY <1>1, <1>2 DEF Chooses
  <2>2. h \in [D -> W]
    BY <1>1, <2>1 DEF Chooses
  <2>3. \A i, j \in D : h[i] = h[j] => i = j
    <3> TAKE i, j \in D
    <3> HAVE h[i] = h[j]
    <3>1. h[i] \in Nat /\ h[j] \in Nat /\ i \in Nat /\ j \in Nat
      BY <1>1, <1>2 DEF Chooses
    <3>2. ~(i < j) /\ ~(j < i)
      BY <1>1, <3>1 DEF Chooses
    <3> QED BY <3>1, <3>2
  <2> HIDE DEF D, W
  <2> QED BY <2>2, <2>3 DEF Injection, IsInjective
<1> HIDE DEF D, W
<1>6. Cardinality(D) <= Cardinality(W)
  BY <1>3, <1>5, FS_Injection
<1> QED BY <1>4, <1>6 DEF W

-----------------------------------------------------------------------------
(* Entries and books: what is known of an address is within what the       *)
(* plugin was told of it.                                                  *)
Sound(e, s) ==
  /\ e \in Entry
  /\ ~e.reported => Len(e.times) <= e.max /\ Within(e.times, s)
SoundBook(book, past) ==
  /\ book \in [Ip -> Entry]
  /\ \A ip \in Ip : Sound(book[ip], past[ip])
SoundDump(dump, past) ==
  /\ dump \in Dump
  /\ dump.until \in 0 .. MaxTime
  /\ SoundBook(dump.book, past)

LEMMA AbsentSound == ASSUME NEW s PROVE Sound(Absent, s)
<1>1. <<>> \in Seq(Nat) /\ Len(<<>>) = 0
  OBVIOUS
<1>2. Absent \in Entry /\ Absent.times = <<>> /\ Absent.max = 0
  BY <1>1 DEF Absent, Entry
<1> QED BY <1>1, <1>2, NothingWithin DEF Sound

LEMMA ReportedSound ==
  ASSUME NEW s, NEW t \in Nat
  PROVE  Sound(Reported(t), s) /\ Reported(t).reported
<1>1. <<t>> \in Seq(Nat) /\ <<>> \in Seq(Nat)
  OBVIOUS
<1>2. Reported(t) \in Entry /\ Reported(t).reported
  BY <1>1 DEF Absent, Entry, Reported
<1> QED BY <1>2 DEF Sound

LEMMA DequeSound ==
  ASSUME NEW q \in Seq(Nat), NEW s, Within(q, s), NEW max \in Nat
  PROVE  /\ Sound(Deque(q, max), s)
         /\ ~Deque(q, max).reported
<1>1. PICK m \in 1 .. Len(q) + 1 :
        Recent(q, max) = SubSeq(q, m, Len(q)) /\ Len(q) - m + 1 <= max
  BY RecentLeaves
<1>2. /\ Recent(q, max) \in Seq(Nat) /\ Len(Recent(q, max)) <= max
      /\ Within(Recent(q, max), s)
  BY <1>1, Suffix, SuffixWithin
<1>3. /\ Deque(q, max) \in Entry /\ ~Deque(q, max).reported
      /\ Deque(q, max).times = Recent(q, max) /\ Deque(q, max).max = max
  BY <1>2 DEF Deque, Entry
<1> QED BY <1>2, <1>3 DEF Sound

LEMMA CleanSound ==
  ASSUME NEW e, NEW s, Sound(e, s), NEW t
  PROVE  /\ Sound(clean_expired_timestamps(e, t), s)
         /\ clean_expired_timestamps(e, t).reported = e.reported
         /\ e.reported => clean_expired_timestamps(e, t) = e
         /\ ~e.reported => clean_expired_timestamps(e, t).times = PopExpired(e.times, t)
<1>1. e \in Entry
  BY DEF Sound
<1>2. CASE e.reported
  BY <1>2 DEF clean_expired_timestamps
<1>3. CASE ~e.reported
  <2>1. e.times \in Seq(Nat) /\ Len(e.times) <= e.max /\ Within(e.times, s) /\ e.max \in Nat
    BY <1>1, <1>3 DEF Sound, Entry
  <2>2. PICK m \in 1 .. Len(e.times) + 1 :
          PopExpired(e.times, t) = SubSeq(e.times, m, Len(e.times))
    BY <2>1, PopExpiredLeaves
  <2>3. /\ PopExpired(e.times, t) \in Seq(Nat)
        /\ Len(PopExpired(e.times, t)) <= e.max
        /\ Within(PopExpired(e.times, t), s)
    <3>1. /\ PopExpired(e.times, t) \in Seq(Nat)
          /\ Len(PopExpired(e.times, t)) = Len(e.times) - m + 1
      BY <2>1, <2>2, Suffix
    <3>2. Within(PopExpired(e.times, t), s)
      BY <2>1, <2>2, SuffixWithin
    <3>3. Len(e.times) - m + 1 <= e.max
      BY <2>1
    <3> QED BY <3>1, <3>2, <3>3
  <2>4. clean_expired_timestamps(e, t) = [e EXCEPT !.times = PopExpired(e.times, t)]
    BY <1>3 DEF clean_expired_timestamps
  <2>5. /\ clean_expired_timestamps(e, t) \in Entry
        /\ clean_expired_timestamps(e, t).reported = e.reported
        /\ clean_expired_timestamps(e, t).times = PopExpired(e.times, t)
        /\ clean_expired_timestamps(e, t).max = e.max
    BY <1>1, <2>3, <2>4 DEF Entry
  <2> QED BY <1>3, <2>3, <2>5 DEF Sound
<1> QED BY <1>2, <1>3

LEMMA CleanedSound ==
  ASSUME NEW book, NEW past, SoundBook(book, past), NEW t, NEW tolerance
  PROVE  /\ SoundBook(Cleaned(book, t, tolerance), past)
         /\ \A ip \in Ip : Cleaned(book, t, tolerance)[ip].reported
                             => Cleaned(book, t, tolerance)[ip] = book[ip]
<1>1. ASSUME NEW ip \in Ip
      PROVE  /\ Sound(Cleaned(book, t, tolerance)[ip], past[ip])
             /\ Cleaned(book, t, tolerance)[ip].reported
                  => Cleaned(book, t, tolerance)[ip] = book[ip]
  <2>1. Sound(book[ip], past[ip])
    BY DEF SoundBook
  <2>2. \/ Cleaned(book, t, tolerance)[ip] = Absent
        \/ Cleaned(book, t, tolerance)[ip] = clean_expired_timestamps(book[ip], t)
    BY DEF Cleaned
  <2>3. ~Absent.reported
    BY DEF Absent
  <2>4. CASE Cleaned(book, t, tolerance)[ip] = Absent
    BY <2>3, <2>4, AbsentSound
  <2>5. CASE Cleaned(book, t, tolerance)[ip] = clean_expired_timestamps(book[ip], t)
    BY <2>1, <2>5, CleanSound
  <2> QED BY <2>2, <2>4, <2>5
<1>2. Cleaned(book, t, tolerance) \in [Ip -> Entry]
  <2> DEFINE f(ip) == IF can_rereport(book[ip], t, tolerance) THEN Absent
                      ELSE clean_expired_timestamps(book[ip], t)
  <2>1. Cleaned(book, t, tolerance) = [ip \in Ip |-> f(ip)]
    BY DEF Cleaned
  <2>2. \A ip \in Ip : f(ip) = Cleaned(book, t, tolerance)[ip]
    BY <2>1
  <2> HIDE DEF f
  <2>3. \A ip \in Ip : f(ip) \in Entry
    BY <1>1, <2>2 DEF Sound
  <2> QED BY <2>1, <2>3
<1> QED BY <1>1, <1>2 DEF SoundBook

LEMMA ResizedSound ==
  ASSUME NEW book, NEW past, SoundBook(book, past), NEW max \in Nat
  PROVE  SoundBook([ip \in Ip |-> Resized(book[ip], max)], past)
<1>1. ASSUME NEW ip \in Ip PROVE Sound(Resized(book[ip], max), past[ip])
  <2>1. Sound(book[ip], past[ip])
    BY DEF SoundBook
  <2>2. CASE book[ip].reported \/ ~Known(book[ip])
    BY <2>1, <2>2 DEF Resized
  <2>3. CASE ~(book[ip].reported \/ ~Known(book[ip]))
    <3>1. book[ip].times \in Seq(Nat) /\ Within(book[ip].times, past[ip])
      BY <2>1, <2>3 DEF Sound, Entry
    <3>2. Resized(book[ip], max) = Deque(book[ip].times, max)
      BY <2>3 DEF Resized
    <3> QED BY <3>1, <3>2, DequeSound
  <2> QED BY <2>2, <2>3
<1>2. \A ip \in Ip : Resized(book[ip], max) \in Entry
  BY <1>1 DEF Sound
<1> QED BY <1>1, <1>2 DEF SoundBook

(* What is known stays within what was told when more is told.             *)
LEMMA SoundGrows ==
  ASSUME NEW e, NEW s \in Seq(Nat), Sound(e, s), NEW x \in Nat
  PROVE  Sound(e, Append(s, x))
<1>1. CASE e.reported
  BY <1>1 DEF Sound
<1>2. CASE ~e.reported
  <2>1. e.times \in Seq(Nat) /\ Within(e.times, s)
    BY <1>2 DEF Sound, Entry
  <2>2. Within(e.times, Append(s, x))
    BY <2>1, LaterWithin
  <2> QED BY <1>2, <2>2 DEF Sound
<1> QED BY <1>1, <1>2

LEMMA BookGrows ==
  ASSUME NEW past \in [Ip -> Seq(Nat)], NEW a \in Ip, NEW x \in Nat,
         NEW book, SoundBook(book, past)
  PROVE  SoundBook(book, [past EXCEPT ![a] = Append(@, x)])
<1> DEFINE past2 == [past EXCEPT ![a] = Append(@, x)]
<1>1. ASSUME NEW ip \in Ip PROVE Sound(book[ip], past2[ip])
  <2>1. Sound(book[ip], past[ip]) /\ past[ip] \in Seq(Nat)
    BY DEF SoundBook
  <2>2. past2[ip] = past[ip] \/ past2[ip] = Append(past[ip], x)
    OBVIOUS
  <2> QED BY <2>1, <2>2, SoundGrows
<1> QED BY <1>1 DEF SoundBook

-----------------------------------------------------------------------------
(* The state keeps its types, and every book there is, be it the plugin's, *)
(* one a thread is to write or one in the file, stays within what was told. *)
Writer == [pc : {"wait", "free", "open"}, dump : Dump]
ClockOK ==
  /\ now \in 1 .. MaxTime
  /\ proc \in {"down", "up", "failed", "stopping"}
  /\ attempts \in Tolerances
  /\ sleeping \in BOOLEAN /\ sleep_until \in 0 .. MaxTime
TimersOK ==
  /\ wakeups \in Seq(Nat) /\ orphans \in Seq(Nat)
  /\ recall \in [at : {"none", "pending", "spent"}, due : Nat]
HttpOK ==
  requests \in Nat /\ retrying \in Nat /\ requests + retrying <= MaxRequests
PastOK ==
  /\ seen \in [Ip -> Seq(1 .. MaxTime)]
  /\ \A ip \in Ip : Sorted(seen[ip]) /\ \A i \in 1 .. Len(seen[ip]) : seen[ip][i] <= now
WritersOK ==
  /\ writers \in Seq(Writer) /\ writing \in BOOLEAN
  /\ \A i \in 1 .. Len(writers) : SoundDump(writers[i].dump, seen)
FileOK ==
  /\ file \in File
  /\ file.is = "whole" => SoundDump(file.dump, seen)
BookOK == SoundBook(logbook, seen)
AbuseInv == ClockOK /\ TimersOK /\ HttpOK /\ PastOK /\ WritersOK /\ FileOK /\ BookOK

LEMMA Bounds ==
  /\ MaxTime \in Nat \ {0} /\ MaxRequests \in Nat /\ Window \in Nat /\ Sched \in Nat
  /\ Tolerances \subseteq Nat /\ RetryAfter \subseteq Nat
BY AbuseIpdbAssumption

LEMMA AbuseInvImplies == AbuseInv => TypeOK
<1> SUFFICES ASSUME AbuseInv PROVE TypeOK
  OBVIOUS
<1>1. /\ logbook \in [Ip -> Entry]
      /\ \A ip \in Ip : ~logbook[ip].reported => Len(logbook[ip].times) <= logbook[ip].max
  BY DEF AbuseInv, BookOK, SoundBook, Sound
<1>2. seen \in [Ip -> Seq(1 .. MaxTime)]
  BY DEF AbuseInv, PastOK
<1> QED BY <1>1, <1>2
        DEF TypeOK, AbuseInv, ClockOK, TimersOK, HttpOK, WritersOK, FileOK, Writer

LEMMA PastNat == ASSUME PastOK PROVE seen \in [Ip -> Seq(Nat)]
<1>1. 1 .. MaxTime \subseteq Nat
  BY Bounds
<1>2. ASSUME NEW q \in Seq(1 .. MaxTime) PROVE q \in Seq(Nat)
  BY <1>1, SeqMonotonic
<1> QED BY <1>2 DEF PastOK

LEMMA AbsentBook == ASSUME NEW past PROVE SoundBook([ip \in Ip |-> Absent], past)
<1>1. Absent \in Entry
  BY AbsentSound DEF Sound
<1> QED BY <1>1, AbsentSound DEF SoundBook

LEMMA NoLogins ==
  ASSUME NEW S
  PROVE  /\ <<>> \in Seq(S) /\ Len(<<>>) = 0 /\ Sorted(<<>>)
         /\ \A i \in 1 .. Len(<<>>) : FALSE
BY DEF Sorted

LEMMA AbuseInit == Init => AbuseInv
<1> SUFFICES ASSUME Init PROVE AbuseInv
  OBVIOUS
<1>1. ClockOK
  <2>1. 1 \in 1 .. MaxTime /\ 0 \in 0 .. MaxTime
    BY Bounds
  <2> QED BY <2>1 DEF Init, ClockOK
<1>2. TimersOK
  BY NoLogins DEF Init, TimersOK, NoCall
<1>3. HttpOK
  BY Bounds DEF Init, HttpOK
<1>4. PastOK
  BY NoLogins DEF Init, PastOK
<1>5. WritersOK
  BY NoLogins DEF Init, WritersOK
<1>6. FileOK
  BY DEF Init, FileOK, File
<1>7. BookOK
  BY AbsentBook DEF Init, BookOK
<1> QED BY <1>1, <1>2, <1>3, <1>4, <1>5, <1>6, <1>7 DEF AbuseInv

-----------------------------------------------------------------------------
(* What the helpers of the actions keep.                                   *)

LEMMA RemoveAtKeeps ==
  ASSUME NEW S, NEW q \in Seq(S), NEW k \in 1 .. Len(q)
  PROVE  /\ RemoveAt(q, k) \in Seq(S)
         /\ \A i \in 1 .. Len(RemoveAt(q, k)) :
              \E j \in 1 .. Len(q) : RemoveAt(q, k)[i] = q[j]
<1> DEFINE a == SubSeq(q, 1, k - 1)
           n == Len(q)
<1>1. n \in Nat /\ k \in 1 .. n /\ 1 \in Int /\ k - 1 \in Int /\ k + 1 \in 1 .. n + 1
      /\ \A i \in 1 .. k - 1 : q[i] \in S /\ i \in 1 .. n
  OBVIOUS
<1>2. /\ a \in Seq(S) /\ Len(a) = k - 1
      /\ \A i \in 1 .. k - 1 : a[i] = q[i]
  <2>1. /\ a \in Seq(S) /\ Len(a) = IF 1 <= k - 1 THEN k - 1 - 1 + 1 ELSE 0
        /\ \A i \in 1 .. k - 1 - 1 + 1 : a[i] = q[1 + i - 1]
    BY <1>1, SubSeqProperties
  <2> QED BY <1>1, <2>1
<1> DEFINE b == SubSeq(q, k + 1, n)
<1>3. /\ b \in Seq(S) /\ Len(b) = n - k
      /\ \A i \in 1 .. n - k : b[i] = q[k + i] /\ k + i \in 1 .. n
  <2>1. /\ b \in Seq(S) /\ Len(b) = n - (k + 1) + 1
        /\ \A i \in 1 .. n - (k + 1) + 1 :
             b[i] = q[k + 1 + i - 1] /\ k + 1 + i - 1 \in 1 .. n
    BY <1>1, Suffix
  <2>2. n - (k + 1) + 1 = n - k
    BY <1>1
  <2>3. \A i \in 1 .. n - k : k + 1 + i - 1 = k + i
    BY <1>1
  <2> HIDE DEF b, n
  <2> QED BY <2>1, <2>2, <2>3
<1>4. RemoveAt(q, k) = a \o b
  BY DEF RemoveAt
<1> HIDE DEF a, b, n
<1>5. /\ a \o b \in Seq(S) /\ Len(a \o b) = k - 1 + (n - k)
      /\ \A i \in 1 .. k - 1 : (a \o b)[i] = a[i]
      /\ \A i \in k .. k - 1 + (n - k) : (a \o b)[i] = b[i - (k - 1)]
  <2>1. /\ a \o b \in Seq(S) /\ Len(a \o b) = Len(a) + Len(b)
        /\ \A i \in 1 .. Len(a) + Len(b) :
             (a \o b)[i] = IF i <= Len(a) THEN a[i] ELSE b[i - Len(a)]
    BY <1>2, <1>3, ConcatProperties
  <2>2. \A i \in 1 .. k - 1 : i \in 1 .. Len(a) + Len(b) /\ i <= Len(a)
    BY <1>1, <1>2, <1>3
  <2>3. \A i \in k .. k - 1 + (n - k) : i \in 1 .. Len(a) + Len(b) /\ ~(i <= Len(a))
    BY <1>1, <1>2, <1>3
  <2> QED BY <1>2, <1>3, <2>1, <2>2, <2>3
<1>6. ASSUME NEW i \in 1 .. Len(a \o b) PROVE \E j \in 1 .. n : (a \o b)[i] = q[j]
  <2>1. CASE i \in 1 .. k - 1
    BY <1>1, <1>2, <1>5, <2>1
  <2>2. CASE i \in k .. k - 1 + (n - k)
    <3>1. i - (k - 1) \in 1 .. n - k /\ i + 1 = k + (i - (k - 1))
      BY <1>1, <2>2
    <3> QED BY <1>3, <1>5, <2>2, <3>1
  <2> QED BY <1>1, <1>5, <2>1, <2>2
<1> QED BY <1>4, <1>5, <1>6 DEF n

LEMMA DumpedKeeps ==
  ASSUME WritersOK, NEW book, SoundBook(book, seen), NEW asleep \in BOOLEAN,
         NEW until \in 0 .. MaxTime, NEW tolerance \in Nat,
         Dumped(book, asleep, until, tolerance), UNCHANGED <<writing, seen>>
  PROVE  WritersOK'
<1> DEFINE dump == [sleeping |-> asleep, until |-> until, tolerated |-> tolerance, book |-> book]
           w == [pc |-> "wait", dump |-> dump]
<1>1. until \in Nat /\ book \in [Ip -> Entry]
  BY Bounds DEF SoundBook
<1>2. dump \in Dump /\ SoundDump(dump, seen)
  BY <1>1 DEF Dump, SoundDump
<1> HIDE DEF dump
<1>3. w \in Writer /\ w.dump = dump
  BY <1>2 DEF Writer
<1>4. writers' = Append(writers, w)
  BY DEF Dumped, dump
<1> HIDE DEF w
<1>5. /\ writers' \in Seq(Writer) /\ Len(writers') = Len(writers) + 1
      /\ \A i \in 1 .. Len(writers) : writers'[i] = writers[i]
      /\ writers'[Len(writers) + 1] = w
  BY <1>3, <1>4 DEF WritersOK
<1>6. Len(writers) \in Nat
  BY DEF WritersOK
<1>7. \A i \in 1 .. Len(writers') : i \in 1 .. Len(writers) \/ i = Len(writers) + 1
  BY <1>5, <1>6
<1>8. ASSUME NEW i \in 1 .. Len(writers') PROVE SoundDump(writers'[i].dump, seen)
  <2>1. CASE i \in 1 .. Len(writers)
    BY <1>5, <2>1 DEF WritersOK
  <2>2. CASE i = Len(writers) + 1
    BY <1>2, <1>3, <1>5, <2>2
  <2> QED BY <1>7, <2>1, <2>2
<1> QED BY <1>5, <1>8 DEF WritersOK

LEMMA AttemptsNat == ASSUME ClockOK PROVE attempts \in Nat /\ now \in Nat
BY Bounds DEF ClockOK

LEMMA CleanupKeeps ==
  ASSUME ClockOK, WritersOK, BookOK, NEW asleep \in BOOLEAN, NEW until \in 0 .. MaxTime,
         Cleanup(asleep, until), UNCHANGED <<writing, seen>>
  PROVE  /\ WritersOK' /\ BookOK'
         /\ \A ip \in Ip : logbook'[ip].reported => logbook'[ip] = logbook[ip]
<1> DEFINE book == Cleaned(logbook, IF asleep THEN until ELSE now, attempts)
<1>1. logbook' = book /\ Dumped(book, asleep, until, attempts)
  BY DEF Cleanup
<1>2. SoundBook(book, seen) /\ \A ip \in Ip : book[ip].reported => book[ip] = logbook[ip]
  BY CleanedSound DEF BookOK
<1> HIDE DEF book
<1>3. WritersOK'
  BY <1>1, <1>2, AttemptsNat, DumpedKeeps
<1> QED BY <1>1, <1>2, <1>3 DEF BookOK

LEMMA CancelKeeps ==
  ASSUME ClockOK, TimersOK, WritersOK, BookOK, NEW asleep \in BOOLEAN,
         NEW until \in 0 .. MaxTime,
         CancelAndCleanup(asleep, until), UNCHANGED <<writing, seen>>
  PROVE  /\ WritersOK' /\ BookOK'
         /\ \A ip \in Ip : logbook'[ip].reported => logbook'[ip] = logbook[ip]
         /\ recall' \in [at : {"none", "pending", "spent"}, due : Nat]
<1>1. CASE recall.at = "spent"
  <2>1. UNCHANGED <<logbook, writers, recall>>
    BY <1>1 DEF CancelAndCleanup
  <2> QED BY <2>1 DEF WritersOK, BookOK, TimersOK
<1>2. CASE recall.at # "spent"
  <2>1. /\ Cleanup(asleep, until)
        /\ recall' = recall \/ recall' = [recall EXCEPT !.at = "spent"]
    BY <1>2 DEF CancelAndCleanup
  <2>2. recall' \in [at : {"none", "pending", "spent"}, due : Nat]
    BY <2>1 DEF TimersOK
  <2> QED BY <2>1, <2>2, CleanupKeeps
<1> QED BY <1>1, <1>2

LEMMA ScheduleKeeps ==
  ASSUME ClockOK, TimersOK, NEW held \in Seq(Nat), Schedule(held)
  PROVE  /\ recall' \in [at : {"none", "pending", "spent"}, due : Nat]
         /\ orphans' \in Seq(Nat)
<1>1. now + Sched \in Nat /\ recall.due \in Nat
  BY AttemptsNat, Bounds DEF TimersOK
<1>2. recall' = [at |-> "pending", due |-> now + Sched]
  BY DEF Schedule, Call
<1>3. orphans' = held \/ orphans' = Append(held, recall.due)
  BY DEF Schedule
<1> QED BY <1>1, <1>2, <1>3

(* The books outlive what the plugin is not told.                          *)
LEMMA SameBooks ==
  ASSUME UNCHANGED <<logbook, writers, writing, file, seen>>, WritersOK, FileOK, BookOK
  PROVE  WritersOK' /\ FileOK' /\ BookOK'
BY DEF WritersOK, FileOK, BookOK

LEMMA SamePast ==
  ASSUME UNCHANGED <<seen, now>>, PastOK
  PROVE  PastOK'
BY DEF PastOK

-----------------------------------------------------------------------------
(* A login.                                                                *)

LEMMA PastGrows ==
  ASSUME ClockOK, PastOK, NEW a \in Ip, seen' = [seen EXCEPT ![a] = Append(@, now)],
         UNCHANGED now
  PROVE  PastOK'
<1>1. ASSUME NEW q \in Seq(1 .. MaxTime), Sorted(q), \A i \in 1 .. Len(q) : q[i] <= now
      PROVE  /\ Append(q, now) \in Seq(1 .. MaxTime) /\ Sorted(Append(q, now))
             /\ \A i \in 1 .. Len(Append(q, now)) : Append(q, now)[i] <= now
  <2> DEFINE r == Append(q, now)
  <2>1. /\ r \in Seq(1 .. MaxTime) /\ Len(r) = Len(q) + 1 /\ Len(q) \in Nat
        /\ \A i \in 1 .. Len(q) : r[i] = q[i]
        /\ r[Len(q) + 1] = now
    BY DEF ClockOK
  <2> HIDE DEF r
  <2>2. \A i \in 1 .. Len(r) : i \in 1 .. Len(q) \/ i = Len(q) + 1
    BY <2>1
  <2>3. \A i \in 1 .. Len(r) : r[i] <= now
    <3> TAKE i \in 1 .. Len(r)
    <3>1. CASE i \in 1 .. Len(q)
      BY <1>1, <2>1, <3>1
    <3>2. CASE i = Len(q) + 1
      BY <2>1, <3>2, AttemptsNat
    <3> QED BY <2>2, <3>1, <3>2
  <2>4. Sorted(r)
    <3>1. ASSUME NEW i \in 1 .. Len(r), NEW j \in 1 .. Len(r), i < j PROVE r[i] <= r[j]
      <4>1. i \in 1 .. Len(q)
        BY <2>1, <2>2, <3>1
      <4>2. CASE j \in 1 .. Len(q)
        BY <1>1, <2>1, <3>1, <4>1, <4>2 DEF Sorted
      <4>3. CASE j = Len(q) + 1
        BY <2>1, <2>3, <4>3
      <4> QED BY <2>2, <4>2, <4>3
    <3> QED BY <3>1 DEF Sorted
  <2>5. /\ r \in Seq(1 .. MaxTime) /\ Sorted(r) /\ \A i \in 1 .. Len(r) : r[i] <= now
    BY <2>1, <2>3, <2>4
  <2> QED BY <2>5 DEF r
<1>2. ASSUME NEW ip \in Ip
      PROVE  /\ seen'[ip] \in Seq(1 .. MaxTime) /\ Sorted(seen'[ip])
             /\ \A i \in 1 .. Len(seen'[ip]) : seen'[ip][i] <= now
  <2>1. /\ seen[ip] \in Seq(1 .. MaxTime) /\ Sorted(seen[ip])
        /\ \A i \in 1 .. Len(seen[ip]) : seen[ip][i] <= now
    BY DEF PastOK
  <2>2. seen'[ip] = seen[ip] \/ seen'[ip] = Append(seen[ip], now)
    BY DEF PastOK
  <2>3. CASE seen'[ip] = seen[ip]
    BY <2>1, <2>3
  <2>4. CASE seen'[ip] = Append(seen[ip], now)
    BY <1>1, <2>1, <2>4
  <2> QED BY <2>2, <2>3, <2>4
<1>3. seen' \in [Ip -> Seq(1 .. MaxTime)]
  BY <1>2 DEF PastOK
<1> QED BY <1>2, <1>3 DEF PastOK

LEMMA BooksGrow ==
  ASSUME ClockOK, PastOK, WritersOK, FileOK, BookOK,
         NEW a \in Ip, seen' = [seen EXCEPT ![a] = Append(@, now)],
         UNCHANGED <<writers, writing, file>>
  PROVE  WritersOK' /\ FileOK' /\ SoundBook(logbook, seen')
<1>1. seen \in [Ip -> Seq(Nat)] /\ now \in Nat
  BY PastNat, AttemptsNat
<1>2. ASSUME NEW book, SoundBook(book, seen) PROVE SoundBook(book, seen')
  <2>1. SoundBook(book, [seen EXCEPT ![a] = Append(@, now)])
    BY <1>1, <1>2, BookGrows
  <2> QED BY <2>1
<1>3. \A dump : SoundDump(dump, seen) => SoundDump(dump, seen')
  BY <1>2 DEF SoundDump
<1>4. WritersOK'
  BY <1>3 DEF WritersOK
<1>5. FileOK'
  BY <1>3 DEF FileOK
<1> QED BY <1>2, <1>4, <1>5 DEF BookOK

LEMMA LoginKeeps ==
  ASSUME AbuseInv, NEW a \in Ip, Login(a)
  PROVE  /\ BookOK' /\ HttpOK'
         /\ \A ip \in Ip : logbook'[ip].reported /\ logbook'[ip] # logbook[ip] =>
              Cardinality({i \in DOMAIN seen'[ip] : seen'[ip][i] + Window >= now}) >= attempts
<1> DEFINE e == logbook[a]
           s == seen[a]
<1> USE DEF AbuseInv
<1>1. /\ seen' = [seen EXCEPT ![a] = Append(@, now)]
      /\ UNCHANGED <<now, attempts, retrying, writers, writing, file>>
      /\ (attempts <= 1 /\ Intolerant(a)) \/ Tolerant(a)
      /\ requests + retrying < MaxRequests
  BY DEF Login, dumpVars
<1>2. /\ now \in Nat /\ attempts \in Nat /\ s \in Seq(Nat) /\ seen'[a] = Append(s, now)
      /\ Window \in Nat /\ Append(s, now) \in Seq(Nat)
  BY <1>1, AttemptsNat, PastNat, Bounds
<1>3. /\ SoundBook(logbook, seen') /\ PastOK'
  BY <1>1, BooksGrow, PastGrows
<1>4. Sound(e, s) /\ Sound(e, seen'[a])
  BY <1>3 DEF BookOK, SoundBook

<1> DEFINE InTime == {i \in DOMAIN seen'[a] : seen'[a][i] + Window >= now}
<1>5. Within(<<now>>, seen'[a])
  <2>1. Within(Append(<<>>, now), Append(s, now)) /\ Append(<<>>, now) = <<now>>
    <3>1. <<>> \in Seq(Nat) /\ Within(<<>>, s) /\ Append(<<>>, now) = <<now>>
      BY NothingWithin
    <3> HIDE DEF s
    <3>2. Within(Append(<<>>, now), Append(s, now))
      BY <1>2, <3>1, LaterWithin
    <3> QED BY <3>1, <3>2
  <2> QED BY <1>2, <2>1
<1>12. Cardinality(InTime) \in Nat
  <2>1. DOMAIN seen'[a] = 1 .. Len(seen'[a]) /\ Len(seen'[a]) \in Nat
    BY <1>2
  <2>2. IsFiniteSet(1 .. Len(seen'[a]))
    BY <2>1, FS_Interval
  <2>3. InTime \in SUBSET (1 .. Len(seen'[a]))
    BY <2>1
  <2> HIDE DEF InTime
  <2> QED BY <2>2, <2>3, FS_Subset, FS_CardinalityType
<1>6. Cardinality(InTime) >= 1
  <2>1. <<now>> \in Seq(Nat) /\ Len(<<now>>) = 1
        /\ \A i \in 1 .. Len(<<now>>) : <<now>>[i] + Window >= now
    BY <1>2
  <2>2. Len(<<now>>) <= Cardinality(InTime)
    BY <1>2, <1>5, <2>1, WithinCounts
  <2> HIDE DEF InTime
  <2> QED BY <1>12, <2>1, <2>2
<1> HIDE DEF s
<1>7. ASSUME NEW x, logbook' = [logbook EXCEPT ![a] = x], Sound(x, seen'[a]),
             x.reported => Cardinality(InTime) >= attempts,
             requests' = requests \/ requests' = requests + 1
      PROVE  /\ BookOK' /\ HttpOK'
             /\ \A ip \in Ip : logbook'[ip].reported /\ logbook'[ip] # logbook[ip] =>
                  Cardinality({i \in DOMAIN seen'[ip] : seen'[ip][i] + Window >= now}) >= attempts
  <2>1. HttpOK'
    BY <1>1, <1>7, Bounds DEF HttpOK
  <2>2. x \in Entry /\ logbook \in [Ip -> Entry]
    BY <1>7 DEF Sound, BookOK, SoundBook
  <2>3. logbook' \in [Ip -> Entry]
        /\ \A ip \in Ip : logbook'[ip] = IF ip = a THEN x ELSE logbook[ip]
    BY <1>7, <2>2
  <2>4. BookOK'
    BY <1>3, <1>7, <2>3 DEF BookOK, SoundBook
  <2>5. \A ip \in Ip : logbook'[ip].reported /\ logbook'[ip] # logbook[ip] =>
          Cardinality({i \in DOMAIN seen'[ip] : seen'[ip][i] + Window >= now}) >= attempts
    BY <1>7, <2>3
  <2> QED BY <2>1, <2>4, <2>5
<1>8. ASSUME UNCHANGED <<logbook, requests>>
      PROVE  /\ BookOK' /\ HttpOK'
             /\ \A ip \in Ip : logbook'[ip].reported /\ logbook'[ip] # logbook[ip] =>
                  Cardinality({i \in DOMAIN seen'[ip] : seen'[ip][i] + Window >= now}) >= attempts
  BY <1>1, <1>3, <1>8 DEF BookOK, HttpOK
<1>9. Sound(Reported(now), seen'[a])
  BY <1>2, ReportedSound
<1>10. CASE attempts <= 1 /\ Intolerant(a)
  <2>1. CASE logbook' = [logbook EXCEPT ![a] = Reported(now)] /\ requests' = requests + 1
    <3>1. Cardinality(InTime) >= attempts
      <4>1. attempts <= 1
        BY <1>10
      <4> HIDE DEF InTime
      <4> QED BY <1>2, <1>6, <1>12, <4>1
    <3> HIDE DEF InTime
    <3> QED BY <1>7, <1>9, <2>1, <3>1
  <2>2. CASE UNCHANGED <<logbook, requests>>
    BY <1>8, <2>2
  <2> QED BY <1>10, <2>1, <2>2 DEF Intolerant
<1>11. CASE Tolerant(a)
  <2> DEFINE d == Deque(Append(e.times, now), e.max)
             later == clean_expired_timestamps(d, now)
  <2>1. CASE /\ ~e.reported
             /\ IF Len(later.times) >= attempts
                THEN logbook' = [logbook EXCEPT ![a] = Reported(now)] /\ requests' = requests + 1
                ELSE logbook' = [logbook EXCEPT ![a] = later] /\ UNCHANGED requests
    <3>1. e.times \in Seq(Nat) /\ e.max \in Nat /\ Within(e.times, s)
      BY <1>4, <2>1 DEF Sound, Entry
    <3>2. Append(e.times, now) \in Seq(Nat) /\ Within(Append(e.times, now), seen'[a])
      BY <1>2, <3>1, LaterWithin
    <3>3. Sound(d, seen'[a]) /\ ~d.reported
      BY <3>1, <3>2, DequeSound
    <3>4. d.times \in Seq(Nat) /\ Within(d.times, seen'[a])
      BY <3>3 DEF Sound, Entry
    <3>5. Sound(later, seen'[a]) /\ ~later.reported /\ later.times = PopExpired(d.times, now)
      BY <3>3, CleanSound
    <3>6. later.times \in Seq(Nat) /\ Within(later.times, seen'[a])
      BY <3>5 DEF Sound, Entry
    <3>7. Sorted(d.times)
      <4>1. Sorted(seen'[a]) /\ seen'[a] \in Seq(Nat)
        BY <1>2, <1>3 DEF PastOK
      <4> HIDE DEF d
      <4> QED BY <3>4, <4>1, WithinSorted
    <3> HIDE DEF d, later, e
    <3>8. \A i \in 1 .. Len(later.times) : later.times[i] + Window >= now
      BY <1>2, <3>4, <3>5, <3>7, PopExpiredTakesAll
    <3>9. Len(later.times) <= Cardinality(InTime)
      <4>1. seen'[a] \in Seq(Nat)
        BY <1>2
      <4> QED BY <3>6, <3>8, <4>1, WithinCounts
    <3>10. Len(later.times) \in Nat
      BY <3>6
    <3>11. CASE Len(later.times) >= attempts
      <4>1. Cardinality(InTime) >= attempts
        <5> HIDE DEF InTime
        <5> QED BY <1>2, <1>12, <3>9, <3>10, <3>11
      <4> HIDE DEF InTime
      <4> QED BY <1>7, <1>9, <2>1, <3>11, <4>1
    <3>12. CASE ~(Len(later.times) >= attempts)
      <4> HIDE DEF InTime
      <4> QED BY <1>7, <2>1, <3>5, <3>12
    <3> QED BY <3>11, <3>12
  <2>2. CASE logbook' = [logbook EXCEPT ![a] = Deque(<<now>>, attempts)] /\ UNCHANGED requests
    <3>1. <<now>> \in Seq(Nat)
      BY <1>2
    <3>2. Sound(Deque(<<now>>, attempts), seen'[a]) /\ ~Deque(<<now>>, attempts).reported
      BY <1>2, <1>5, <3>1, DequeSound
    <3> HIDE DEF InTime
    <3> QED BY <1>7, <2>2, <3>2
  <2>3. CASE UNCHANGED <<logbook, requests>>
    BY <1>8, <2>3
  <2> QED BY <1>11, <2>1, <2>2, <2>3 DEF Tolerant
<1> QED BY <1>1, <1>10, <1>11

-----------------------------------------------------------------------------
(* The steps.                                                              *)

(* What ReportsAreDeserved says of a step.                                 *)
Deserved ==
  \A ip \in Ip :
    proc = "up" /\ logbook'[ip].reported /\ logbook'[ip] # logbook[ip] =>
      Cardinality({i \in DOMAIN seen'[ip] : seen'[ip][i] + Window >= now}) >= attempts

LEMMA StepLogin ==
  ASSUME AbuseInv, NEW a \in Ip, Login(a) PROVE AbuseInv' /\ Deserved
<1>1. /\ seen' = [seen EXCEPT ![a] = Append(@, now)]
      /\ UNCHANGED <<now, proc, attempts, sleeping, sleep_until, wakeups, recall, orphans,
                     writers, writing, file>>
  BY DEF Login, timerVars, dumpVars
<1>2. PastOK' /\ WritersOK' /\ FileOK'
  BY <1>1, PastGrows, BooksGrow DEF AbuseInv
<1>3. ClockOK' /\ TimersOK'
  BY <1>1 DEF AbuseInv, ClockOK, TimersOK
<1> QED BY <1>2, <1>3, LoginKeeps DEF AbuseInv, Deserved

LEMMA StepAnswers ==
  ASSUME AbuseInv, Answered \/ RetriesLater \/ Retries PROVE AbuseInv' /\ Deserved
<1>1. UNCHANGED <<now, proc, attempts, logbook, sleeping, sleep_until, wakeups, recall, orphans,
                  writers, writing, file, seen>>
  BY DEF Answered, RetriesLater, Retries, timerVars, dumpVars
<1>2. HttpOK'
  BY Bounds DEF AbuseInv, HttpOK, Answered, RetriesLater, Retries
<1>3. ClockOK' /\ TimersOK'
  BY <1>1 DEF AbuseInv, ClockOK, TimersOK
<1> QED BY <1>1, <1>2, <1>3, SameBooks, SamePast DEF AbuseInv, Deserved

LEMMA StepRateLimited ==
  ASSUME AbuseInv, RateLimited PROVE AbuseInv' /\ Deserved
<1>1. PICK retry \in RetryAfter :
        /\ now + retry <= MaxTime
        /\ sleeping' = TRUE /\ sleep_until' = now + retry
        /\ wakeups' = Append(wakeups, now + retry)
        /\ CancelAndCleanup(TRUE, now + retry)
  BY DEF RateLimited
<1>2. /\ requests > 0 /\ requests' = requests - 1
      /\ UNCHANGED <<now, proc, attempts, orphans, retrying, writing, file, seen>>
  BY DEF RateLimited
<1>3. now + retry \in 0 .. MaxTime /\ now + retry \in Nat /\ TRUE \in BOOLEAN
  BY <1>1, Bounds, AttemptsNat DEF AbuseInv
<1>4. /\ WritersOK' /\ BookOK'
      /\ \A ip \in Ip : logbook'[ip].reported => logbook'[ip] = logbook[ip]
      /\ recall' \in [at : {"none", "pending", "spent"}, due : Nat]
  BY <1>1, <1>2, <1>3, CancelKeeps DEF AbuseInv
<1>5. ClockOK'
  BY <1>1, <1>2, <1>3 DEF AbuseInv, ClockOK
<1>6. TimersOK'
  BY <1>1, <1>2, <1>3, <1>4 DEF AbuseInv, TimersOK
<1>7. HttpOK'
  BY <1>2, Bounds DEF AbuseInv, HttpOK
<1>8. FileOK' /\ PastOK'
  BY <1>2 DEF AbuseInv, FileOK, PastOK
<1> QED BY <1>4, <1>5, <1>6, <1>7, <1>8 DEF AbuseInv, Deserved

LEMMA StepWakeup ==
  ASSUME AbuseInv, NEW i \in DOMAIN wakeups, wakeup(i) PROVE AbuseInv' /\ Deserved
<1>1. /\ UNCHANGED <<now, proc, attempts, logbook, requests, retrying, writers, writing, file,
                     seen>>
      /\ sleeping' = FALSE /\ sleep_until' = 0
      /\ wakeups' = RemoveAt(wakeups, i)
      /\ Schedule(orphans)
  BY DEF wakeup, httpVars, dumpVars
<1>2. i \in 1 .. Len(wakeups) /\ wakeups \in Seq(Nat) /\ orphans \in Seq(Nat)
  BY DEF AbuseInv, TimersOK
<1>3. TimersOK'
  BY <1>1, <1>2, RemoveAtKeeps, ScheduleKeeps DEF AbuseInv, TimersOK
<1>4. 0 \in 0 .. MaxTime
  BY Bounds
<1>5. ClockOK' /\ HttpOK'
  BY <1>1, <1>4 DEF AbuseInv, ClockOK, HttpOK
<1> QED BY <1>1, <1>3, <1>5, SameBooks, SamePast DEF AbuseInv, Deserved

LEMMA StepCleanup ==
  ASSUME AbuseInv, CleanupCall \/ \E i \in DOMAIN orphans : OrphanCall(i)
  PROVE  AbuseInv' /\ Deserved
<1>1. /\ UNCHANGED <<now, proc, attempts, sleeping, sleep_until, wakeups, requests, retrying,
                     writing, file, seen>>
      /\ Cleanup(sleeping, sleep_until)
  BY DEF CleanupCall, OrphanCall, httpVars
<1>2. sleeping \in BOOLEAN /\ sleep_until \in 0 .. MaxTime
  BY DEF AbuseInv, ClockOK
<1>3. /\ WritersOK' /\ BookOK'
      /\ \A ip \in Ip : logbook'[ip].reported => logbook'[ip] = logbook[ip]
  BY <1>1, <1>2, CleanupKeeps DEF AbuseInv
<1>4. ClockOK' /\ HttpOK' /\ FileOK' /\ PastOK'
  BY <1>1 DEF AbuseInv, ClockOK, HttpOK, FileOK, PastOK
<1>5. TimersOK'
  <2>1. CASE CleanupCall
    <3>1. now + Sched \in Nat
      BY AttemptsNat, Bounds DEF AbuseInv
    <3>2. UNCHANGED <<wakeups, orphans>>
          /\ (recall' = [recall EXCEPT !.at = "spent"] \/ recall' = Call(now + Sched))
      BY <2>1 DEF CleanupCall
    <3> QED BY <3>1, <3>2 DEF AbuseInv, TimersOK, Call
  <2>2. ASSUME NEW i \in DOMAIN orphans, OrphanCall(i) PROVE TimersOK'
    <3>1. i \in 1 .. Len(orphans) /\ orphans \in Seq(Nat)
      BY DEF AbuseInv, TimersOK
    <3>2. RemoveAt(orphans, i) \in Seq(Nat)
      BY <3>1, RemoveAtKeeps
    <3>3. CASE sleeping
      BY <1>1, <2>2, <3>2, <3>3 DEF OrphanCall, AbuseInv, TimersOK
    <3>4. CASE ~sleeping
      BY <1>1, <2>2, <3>2, <3>4, ScheduleKeeps DEF OrphanCall, AbuseInv, TimersOK
    <3> QED BY <3>3, <3>4
  <2> QED BY <2>1, <2>2
<1> QED BY <1>3, <1>4, <1>5 DEF AbuseInv, Deserved

LEMMA StepStop ==
  ASSUME AbuseInv, Stop PROVE AbuseInv' /\ Deserved
<1>1. /\ UNCHANGED <<now, attempts, sleeping, sleep_until, wakeups, orphans, requests, retrying,
                     writing, file, seen>>
      /\ proc' = "stopping"
      /\ CancelAndCleanup(sleeping, sleep_until)
  BY DEF Stop, httpVars
<1>2. sleeping \in BOOLEAN /\ sleep_until \in 0 .. MaxTime
  BY DEF AbuseInv, ClockOK
<1>3. /\ WritersOK' /\ BookOK'
      /\ \A ip \in Ip : logbook'[ip].reported => logbook'[ip] = logbook[ip]
      /\ recall' \in [at : {"none", "pending", "spent"}, due : Nat]
  BY <1>1, <1>2, CancelKeeps DEF AbuseInv
<1>4. ClockOK' /\ HttpOK' /\ FileOK' /\ PastOK'
  BY <1>1 DEF AbuseInv, ClockOK, HttpOK, FileOK, PastOK
<1>5. TimersOK'
  BY <1>1, <1>3 DEF AbuseInv, TimersOK
<1> QED BY <1>3, <1>4, <1>5 DEF AbuseInv, Deserved

LEMMA StepGone ==
  ASSUME AbuseInv, Exits \/ Crash PROVE AbuseInv' /\ Deserved
<1>1. Gone
  BY DEF Exits, Crash
<1>2. ClockOK' /\ HttpOK' /\ FileOK' /\ PastOK'
  <2>1. 0 \in 0 .. MaxTime
    BY Bounds
  <2>2. ClockOK'
    BY <1>1, <2>1 DEF Gone, AbuseInv, ClockOK
  <2>3. HttpOK'
    <3>1. requests' = 0 /\ retrying' = 0 /\ 0 + 0 <= MaxRequests
      BY <1>1, Bounds DEF Gone
    <3> QED BY <3>1 DEF HttpOK
  <2>4. FileOK' /\ PastOK'
    <3>1. UNCHANGED <<now, file, seen>>
      BY <1>1 DEF Gone
    <3> QED BY <3>1 DEF AbuseInv, FileOK, PastOK
  <2> QED BY <2>2, <2>3, <2>4
<1>3. TimersOK'
  BY <1>1, NoLogins DEF Gone, TimersOK, NoCall
<1>4. WritersOK'
  <2>1. writers' = <<>> /\ writing' = FALSE
    BY <1>1 DEF Gone
  <2> QED BY <2>1, NoLogins DEF WritersOK
<1>5. BookOK'
  BY <1>1, AbsentBook DEF Gone, BookOK
<1>6. \A ip \in Ip : ~logbook'[ip].reported
  BY <1>1 DEF Gone, Absent
<1> QED BY <1>2, <1>3, <1>4, <1>5, <1>6 DEF AbuseInv, Deserved

LEMMA StepIdle ==
  ASSUME AbuseInv, StartFails \/ Tick \/ UNCHANGED vars PROVE AbuseInv' /\ Deserved
<1>1. UNCHANGED <<attempts, logbook, sleeping, sleep_until, wakeups, recall, orphans, requests,
                  retrying, writers, writing, file, seen>>
  BY DEF StartFails, Tick, vars, timerVars, httpVars, dumpVars
<1>2. /\ proc' \in {"down", "up", "failed", "stopping"}
      /\ now' \in 1 .. MaxTime /\ now \in Nat /\ now' \in Nat /\ now <= now'
  BY Bounds DEF StartFails, Tick, vars, AbuseInv, ClockOK
<1>3. ClockOK' /\ TimersOK' /\ HttpOK'
  BY <1>1, <1>2 DEF AbuseInv, ClockOK, TimersOK, HttpOK
<1>4. PastOK'
  <2>1. ASSUME NEW ip \in Ip, NEW i \in 1 .. Len(seen[ip]) PROVE seen[ip][i] <= now'
    <3>1. seen[ip] \in Seq(Nat) /\ seen[ip][i] <= now
      BY PastNat DEF AbuseInv, PastOK
    <3>2. seen[ip][i] \in Nat
      BY <3>1
    <3> QED BY <1>2, <3>1, <3>2
  <2> QED BY <1>1, <2>1 DEF AbuseInv, PastOK
<1> QED BY <1>1, <1>3, <1>4, SameBooks DEF AbuseInv, Deserved

LEMMA StepThread ==
  ASSUME AbuseInv, NEW i \in DOMAIN writers, Thread(i) PROVE AbuseInv' /\ Deserved
<1>1. UNCHANGED <<now, proc, attempts, logbook, sleeping, sleep_until, wakeups, recall, orphans,
                  requests, retrying, seen>>
  BY DEF Thread, SeesFree, GivesUp, Opens, Writes, PickleRaises, ThreadStep, timerVars, httpVars
<1>2. ClockOK' /\ TimersOK' /\ HttpOK' /\ PastOK' /\ BookOK' /\ Deserved
  BY <1>1 DEF AbuseInv, ClockOK, TimersOK, HttpOK, PastOK, BookOK, Deserved
<1>3. /\ writers \in Seq(Writer) /\ i \in 1 .. Len(writers) /\ writing \in BOOLEAN
      /\ \A j \in 1 .. Len(writers) : SoundDump(writers[j].dump, seen)
      /\ seen' = seen
  BY <1>1 DEF AbuseInv, WritersOK
<1>4. ASSUME writers' = RemoveAt(writers, i), writing' \in BOOLEAN PROVE WritersOK'
  <2>1. /\ writers' \in Seq(Writer)
        /\ \A k \in 1 .. Len(writers') : \E j \in 1 .. Len(writers) : writers'[k] = writers[j]
    BY <1>3, <1>4, RemoveAtKeeps
  <2> QED BY <1>3, <1>4, <2>1 DEF WritersOK
<1>5. ASSUME NEW pc \in {"free", "open"}, writers' = [writers EXCEPT ![i].pc = pc],
             writing' \in BOOLEAN
      PROVE  WritersOK'
  <2> DEFINE w == [writers[i] EXCEPT !.pc = pc]
  <2>1. writers[i] \in Writer
    BY <1>3
  <2>2. w \in Writer /\ w.dump = writers[i].dump
    BY <2>1 DEF Writer
  <2>3. writers' = [writers EXCEPT ![i] = w]
    BY <1>5
  <2> HIDE DEF w
  <2>4. /\ writers' \in Seq(Writer) /\ Len(writers') = Len(writers)
        /\ \A j \in 1 .. Len(writers) : writers'[j] = IF j = i THEN w ELSE writers[j]
    BY <1>3, <2>2, <2>3, ExceptSeq
  <2> QED BY <1>3, <1>5, <2>2, <2>4 DEF WritersOK
<1>6. CASE SeesFree(i) \/ GivesUp(i)
  <2>1. UNCHANGED <<writing, file>>
    BY <1>6 DEF SeesFree, GivesUp
  <2>2. WritersOK'
    BY <1>3, <1>4, <1>5, <1>6, <2>1 DEF SeesFree, GivesUp
  <2>3. FileOK'
    BY <1>1, <2>1 DEF AbuseInv, FileOK
  <2> QED BY <1>2, <2>2, <2>3 DEF AbuseInv
<1>7. CASE Opens(i)
  <2>1. WritersOK'
    BY <1>5, <1>7 DEF Opens
  <2>2. FileOK'
    BY <1>7 DEF Opens, FileOK, File
  <2> QED BY <1>2, <2>1, <2>2 DEF AbuseInv
<1>8. CASE PickleRaises(i)
  <2>1. WritersOK'
    BY <1>3, <1>4, <1>8 DEF PickleRaises
  <2>2. FileOK'
    BY <1>8 DEF PickleRaises, FileOK, File
  <2> QED BY <1>2, <2>1, <2>2 DEF AbuseInv
<1>9. CASE Writes(i)
  <2> DEFINE dump == writers[i].dump
             mixed(late) == [ip \in Ip |-> IF ip \in late THEN logbook[ip] ELSE dump.book[ip]]
  <2>1. WritersOK'
    BY <1>4, <1>9 DEF Writes
  <2>2. SoundDump(dump, seen) /\ SoundBook(logbook, seen) /\ dump \in Dump
    BY <1>3 DEF AbuseInv, BookOK, SoundDump
  <2>3. ASSUME file' = [is |-> "torn"] PROVE FileOK'
    <3>1. file' \in File /\ file'.is # "whole"
      BY <2>3 DEF File
    <3> QED BY <3>1 DEF FileOK
  <2>4. ASSUME NEW late, file' = [is |-> "whole", dump |-> [dump EXCEPT !.book = mixed(late)]]
        PROVE  FileOK'
    <3> DEFINE d == [dump EXCEPT !.book = mixed(late)]
    <3>1. SoundBook(mixed(late), seen)
      BY <2>2 DEF SoundDump, SoundBook
    <3>2. mixed(late) \in [Ip -> Entry]
      BY <3>1 DEF SoundBook
    <3> HIDE DEF mixed
    <3>3. d \in Dump /\ d.until = dump.until /\ d.book = mixed(late)
      BY <2>2, <3>2 DEF Dump
    <3>4. SoundDump(d, seen)
      BY <2>2, <3>1, <3>3 DEF SoundDump
    <3>5. file' = [is |-> "whole", dump |-> d]
      BY <2>4
    <3> HIDE DEF d
    <3>6. file' \in File
      BY <3>3, <3>5 DEF File
    <3> QED BY <1>3, <3>4, <3>5, <3>6 DEF FileOK
  <2>5. \/ file' = [is |-> "torn"]
        \/ \E late : file' = [is |-> "whole", dump |-> [dump EXCEPT !.book = mixed(late)]]
    BY <1>9 DEF Writes
  <2> HIDE DEF dump, mixed
  <2>6. FileOK'
    BY <2>3, <2>4, <2>5
  <2> QED BY <1>2, <2>1, <2>6 DEF AbuseInv
<1> QED BY <1>6, <1>7, <1>8, <1>9 DEF Thread

LEMMA StepStart ==
  ASSUME AbuseInv, NEW tolerance \in Tolerances, Start(tolerance) PROVE AbuseInv' /\ Deserved
<1> DEFINE dump == IF Loads THEN file.dump
                   ELSE [sleeping |-> FALSE, until |-> 0, tolerated |-> tolerance, book |-> logbook]
           asleep == dump.sleeping /\ dump.until > now
           until == IF asleep THEN dump.until ELSE 0
           book == Cleaned(dump.book, IF asleep THEN until ELSE now, tolerance)
<1>1. /\ proc = "down" /\ proc' = "up" /\ attempts' = tolerance
      /\ sleeping' = asleep /\ sleep_until' = until
      /\ wakeups' = (IF asleep THEN <<until>> ELSE <<>>)
      /\ Dumped(book, asleep, until, tolerance)
      /\ recall' = (IF asleep THEN NoCall ELSE Call(now + Sched))
      /\ logbook' = book \/ logbook' = [ip \in Ip |-> Resized(book[ip], tolerance)]
      /\ UNCHANGED <<now, orphans, requests, retrying, writing, file, seen>>
  BY DEF Start, httpVars
<1>2. tolerance \in Nat /\ now \in Nat /\ now + Sched \in Nat /\ 0 \in 0 .. MaxTime
      /\ (0 .. MaxTime) \subseteq Nat
  BY Bounds, AttemptsNat DEF AbuseInv
<1>3. /\ dump.sleeping \in BOOLEAN /\ dump.until \in 0 .. MaxTime
      /\ SoundBook(dump.book, seen)
  <2>1. CASE Loads
    BY <2>1 DEF Loads, AbuseInv, FileOK, SoundDump, Dump
  <2>2. CASE ~Loads
    BY <1>2, <2>2 DEF AbuseInv, BookOK
  <2> QED BY <2>1, <2>2
<1> HIDE DEF dump
<1>4. asleep \in BOOLEAN /\ until \in 0 .. MaxTime
  BY <1>2, <1>3
<1> HIDE DEF asleep, until
<1>5. SoundBook(book, seen)
  BY <1>3, CleanedSound
<1> HIDE DEF book
<1>6. WritersOK'
  BY <1>1, <1>2, <1>4, <1>5, DumpedKeeps DEF AbuseInv
<1>7. BookOK'
  <2>1. SoundBook(logbook', seen)
    BY <1>1, <1>2, <1>5, ResizedSound
  <2> QED BY <1>1, <2>1 DEF BookOK
<1>8. ClockOK'
  BY <1>1, <1>4 DEF AbuseInv, ClockOK
<1>9. TimersOK'
  <2>1. wakeups' \in Seq(Nat)
    <3>1. <<until>> \in Seq(Nat) /\ <<>> \in Seq(Nat)
      BY <1>2, <1>4
    <3> QED BY <1>1, <3>1
  <2>2. recall' \in [at : {"none", "pending", "spent"}, due : Nat]
    BY <1>1, <1>2 DEF NoCall, Call
  <2> QED BY <1>1, <2>1, <2>2 DEF AbuseInv, TimersOK
<1>10. HttpOK' /\ FileOK' /\ PastOK'
  BY <1>1 DEF AbuseInv, HttpOK, FileOK, PastOK
<1>11. Deserved
  BY <1>1 DEF Deserved
<1> QED BY <1>6, <1>7, <1>8, <1>9, <1>10, <1>11 DEF AbuseInv

LEMMA AbuseNext == AbuseInv /\ [Next]_vars => AbuseInv' /\ Deserved
<1> SUFFICES ASSUME AbuseInv, [Next]_vars PROVE AbuseInv' /\ Deserved
  OBVIOUS
<1>1. CASE \E ip \in Ip : Login(ip)
  BY <1>1, StepLogin
<1>2. CASE Answered \/ RateLimited \/ RetriesLater \/ Retries
  BY <1>2, StepAnswers, StepRateLimited
<1>3. CASE (\E i \in DOMAIN wakeups : wakeup(i)) \/ CleanupCall
           \/ (\E i \in DOMAIN orphans : OrphanCall(i))
  BY <1>3, StepWakeup, StepCleanup
<1>4. CASE \E i \in DOMAIN writers : Thread(i)
  BY <1>4, StepThread
<1>5. CASE Stop \/ Exits \/ Crash \/ (\E tolerance \in Tolerances : Start(tolerance))
  BY <1>5, StepStop, StepGone, StepStart
<1>6. CASE StartFails \/ Tick \/ UNCHANGED vars
  BY <1>6, StepIdle
<1> QED BY <1>1, <1>2, <1>3, <1>4, <1>5, <1>6 DEF Next

(* LogBook and Reporter (abuseipdb.py): every variable keeps its type, and *)
(* no deque, be it loaded from the dump file, cut to a new length or       *)
(* appended to, ever holds more than its maxlen.                           *)
THEOREM AbuseTypeOK == Spec => []TypeOK
<1>1. Init => AbuseInv
  BY AbuseInit
<1>2. AbuseInv /\ [Next]_vars => AbuseInv'
  BY AbuseNext
<1> QED BY <1>1, <1>2, AbuseInvImplies, PTL DEF Spec

(* tolerant_observer, intolerant_observer and start (abuseipdb.py): an     *)
(* address is reported only when it logged in tolerance_attempts times     *)
(* within the tolerance_window.  What a login finds in the book may have   *)
(* come through clean-ups, a dump written while logins went on, a restart  *)
(* and a change of the tolerance: it is still times of logins, each of its *)
(* own and in their order, and popleft leaves only those in the window.    *)
THEOREM AbuseReportsAreDeserved == Spec => ReportsAreDeserved
<1>1. Init => AbuseInv
  BY AbuseInit
<1>2. AbuseInv /\ [Next]_vars => AbuseInv'
  BY AbuseNext
<1>3. AbuseInv /\ [Next]_vars =>
        [\A ip \in Ip :
           proc = "up" /\ logbook'[ip].reported /\ logbook'[ip] # logbook[ip] =>
             Cardinality({i \in DOMAIN seen'[ip] : seen'[ip][i] + Window >= now}) >= attempts]_vars
  BY AbuseNext DEF Deserved
<1> QED BY <1>1, <1>2, <1>3, PTL DEF Spec, ReportsAreDeserved
=============================================================================
