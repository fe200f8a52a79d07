-------------------------- MODULE PoolServiceProofs --------------------------
(***************************************************************************)
(* Theorems about PoolService, for every value of its constants.           *)
(* When recycle_period does not end inside the first iteration of a pool   *)
(* (~Overlap), there is one chain of producer iterations, the pool that is *)
(* recycled is started again, no two guests have the same address, the     *)
(* guest that request_vm has chosen is still one to serve when it is       *)
(* written to, the list is bounded, and a number leads to another guest    *)
(* only after a restart or after the numbers have come round.  In a pool   *)
(* that is never recycled and whose numbers have not come round, the       *)
(* holders of every guest are counted.                                     *)
(***************************************************************************)
EXTENDS PoolService, FiniteSetTheorems, SequenceTheorems, TLAPS

-----------------------------------------------------------------------------
(* Type correctness.                                                       *)

\* A guest somebody holds remembers the state reuse_vm would give it back:
\* without this the state reuse_vm assigns could be None.
PrevKnown == \A d \in Dom : heap[d].connected >= 1 => heap[d].prev # "none"

TypeInv == TypeOK /\ PrevKnown

\* Two heaps that agree on what PrevKnown reads.
SameHolding(h, k) ==
  \A d \in Dom : k[d].connected = h[d].connected /\ k[d].prev = h[d].prev

\* The record of no guest is a Guest record with no client.
LEMMA BlankIsGuest == Blank \in Guest /\ Blank.connected = 0
  BY DEF Blank, Guest, State

\* The records a chain can be reset to are Producer records.
LEMMA ProducersTyped ==
  /\ NoProducer \in Producer
  /\ Deferred \in Producer
  /\ [NoProducer EXCEPT !.pc = "dead"] \in Producer
  <1>1. NoProducer \in Producer BY DEF NoProducer, Producer, Phase
  <1>2. Deferred \in Producer BY DEF Deferred, Producer, Phase
  <1>3. [NoProducer EXCEPT !.pc = "dead"] \in Producer
    <2>1. "dead" \in Phase BY DEF Phase
    <2>2. QED BY <1>1, <2>1 DEF Producer
  <1>4. QED BY <1>1, <1>2, <1>3

\* Writing one field of a chain leaves the producers well typed.
LEMMA SetPc ==
  ASSUME NEW f \in [Gen -> Producer], NEW p \in Gen, NEW ph \in Phase
  PROVE  [f EXCEPT ![p].pc = ph] \in [Gen -> Producer]
  BY DEF Producer

LEMMA SetOn ==
  ASSUME NEW f \in [Gen -> Producer], NEW p \in Gen, NEW t \in {"thread", "reactor"}
  PROVE  [f EXCEPT ![p].on = t] \in [Gen -> Producer]
  BY DEF Producer

LEMMA SetTodo ==
  ASSUME NEW f \in [Gen -> Producer], NEW p \in Gen, NEW S \in SUBSET Dom
  PROVE  [f EXCEPT ![p].todo = S] \in [Gen -> Producer]
  BY DEF Producer

LEMMA SetN ==
  ASSUME NEW f \in [Gen -> Producer], NEW p \in Gen, NEW k \in Int
  PROVE  [f EXCEPT ![p].n = k] \in [Gen -> Producer]
  BY DEF Producer

LEMMA SetIp ==
  ASSUME NEW f \in [Gen -> Producer], NEW p \in Gen, NEW ip \in GuestIp \cup {"no ip"}
  PROVE  [f EXCEPT ![p].ip = ip] \in [Gen -> Producer]
  BY DEF Producer

\* Two and three fields at once.
LEMMA SetCreated ==
  ASSUME NEW f \in [Gen -> Producer], NEW p \in Gen, NEW ph \in Phase
  PROVE  [f EXCEPT ![p].pc = ph, ![p].n = @ - 1, ![p].ip = "no ip"]
           \in [Gen -> Producer]
  <1> DEFINE g == [f EXCEPT ![p].pc = ph]
             h == [g EXCEPT ![p].n = @ - 1]
  <1>1. g \in [Gen -> Producer]
    BY SetPc
  <1> HIDE DEF g
  <1>2. g[p].n - 1 \in Int
    <2>1. g[p] \in Producer
      BY <1>1
    <2>2. g[p].n \in Int
      BY <2>1 DEF Producer
    <2>3. QED
      BY <2>2
  <1>3. h \in [Gen -> Producer]
    BY <1>1, <1>2, SetN
  <1> HIDE DEF h
  <1>4. [h EXCEPT ![p].ip = "no ip"] \in [Gen -> Producer]
    BY <1>3, SetIp
  <1>5. QED
    BY <1>4 DEF g, h

LEMMA SetPcTodoN ==
  ASSUME NEW f \in [Gen -> Producer], NEW p \in Gen, NEW ph \in Phase,
         NEW S \in SUBSET Dom
  PROVE  [f EXCEPT ![p].pc = ph, ![p].n = 0, ![p].todo = S] \in [Gen -> Producer]
  <1> DEFINE g == [f EXCEPT ![p].pc = ph]
             h == [g EXCEPT ![p].n = 0]
  <1>1. g \in [Gen -> Producer]
    BY SetPc
  <1> HIDE DEF g
  <1>2. h \in [Gen -> Producer]
    BY <1>1, SetN
  <1> HIDE DEF h
  <1>3. [h EXCEPT ![p].todo = S] \in [Gen -> Producer]
    BY <1>2, SetTodo
  <1>4. QED
    BY <1>3 DEF g, h

LEMMA SetPcTodo ==
  ASSUME NEW f \in [Gen -> Producer], NEW p \in Gen, NEW ph \in Phase,
         NEW S \in SUBSET Dom
  PROVE  [f EXCEPT ![p].pc = ph, ![p].todo = S] \in [Gen -> Producer]
  BY DEF Producer

LEMMA SetPcN ==
  ASSUME NEW f \in [Gen -> Producer], NEW p \in Gen, NEW ph \in Phase,
         NEW k \in Int
  PROVE  [f EXCEPT ![p].pc = ph, ![p].n = k] \in [Gen -> Producer]
  BY DEF Producer

LEMMA SetPcIp ==
  ASSUME NEW f \in [Gen -> Producer], NEW p \in Gen, NEW ph \in Phase,
         NEW ip \in GuestIp
  PROVE  [f EXCEPT ![p].pc = ph, ![p].ip = ip] \in [Gen -> Producer]
  BY DEF Producer

LEMMA SetPcOn ==
  ASSUME NEW f \in [Gen -> Producer], NEW p \in Gen, NEW ph \in Phase,
         NEW t \in {"thread", "reactor"}
  PROVE  [f EXCEPT ![p].pc = ph, ![p].on = t] \in [Gen -> Producer]
  BY DEF Producer

LEMMA DropTodo ==
  ASSUME NEW f \in [Gen -> Producer], NEW p \in Gen, NEW d
  PROVE  [f EXCEPT ![p].todo = @ \ {d}] \in [Gen -> Producer]
  <1>1. f[p].todo \ {d} \in SUBSET Dom
    BY DEF Producer
  <1>2. QED
    BY <1>1, SetTodo

\* Writing the state of one guest, or of a set of guests, keeps the heap well
\* typed and touches no counter.
LEMMA SetState ==
  ASSUME NEW h \in [Dom -> Guest], NEW d \in Dom, NEW s \in State
  PROVE  /\ [h EXCEPT ![d].state = s] \in [Dom -> Guest]
         /\ SameHolding(h, [h EXCEPT ![d].state = s])
  BY DEF Guest, SameHolding

LEMMA SetStates ==
  ASSUME NEW h \in [Dom -> Guest], NEW s \in State, NEW k,
         k = [d \in Dom |-> k[d]],
         \A d \in Dom : k[d] \in {h[d], [h[d] EXCEPT !.state = s]}
  PROVE  k \in [Dom -> Guest] /\ SameHolding(h, k)
  <1>1. ASSUME NEW d \in Dom
        PROVE  /\ k[d] \in Guest
               /\ k[d].connected = h[d].connected /\ k[d].prev = h[d].prev
    <2>1. CASE k[d] = h[d]
      BY <2>1
    <2>2. CASE k[d] = [h[d] EXCEPT !.state = s]
      <3>1. h[d] \in Guest
        OBVIOUS
      <3>2. /\ [h[d] EXCEPT !.state = s] \in Guest
            /\ [h[d] EXCEPT !.state = s].connected = h[d].connected
            /\ [h[d] EXCEPT !.state = s].prev = h[d].prev
        BY <3>1 DEF Guest
      <3>3. QED
        BY <2>2, <3>2
    <2>3. QED
      BY <2>1, <2>2
  <1>2. k \in [Dom -> Guest]
    BY <1>1
  <1>3. QED
    BY <1>1, <1>2 DEF SameHolding

\* A new guest is a guest, with no client.
LEMMA NewGuest ==
  ASSUME NEW g \in Guest, NEW nr \in Nat, NEW s \in State,
         NEW ip \in GuestIp \cup {"no ip"}
  PROVE  /\ [g EXCEPT !.nr = nr, !.state = s, !.ip = ip] \in Guest
         /\ [g EXCEPT !.nr = nr, !.state = s, !.ip = ip].connected = g.connected
  BY DEF Guest

\* PrevKnown depends on connected and prev alone.
LEMMA PrevKnownKept ==
  ASSUME PrevKnown, SameHolding(heap, heap')
  PROVE  PrevKnown'
  BY DEF PrevKnown, SameHolding

\* The pool size is a number.
LEMMA PoolSizeInt == ASSUME guests \in Seq(Dom) PROVE PoolSize \in Int
  <1>1. /\ IsFiniteSet(DOMAIN guests)
    BY FS_Interval
  <1>2. IsFiniteSet({i \in DOMAIN guests : heap[guests[i]].state # "destroyed"})
    BY <1>1, FS_Subset
  <1>3. QED
    BY <1>2, FS_CardinalityType DEF PoolSize

\* The initial state is well typed.
LEMMA InitTypeInv == ASSUME Init PROVE TypeInv
  <1>1. heap \in [Dom -> Guest]
    BY BlankIsGuest DEF Init
  <1>2. prod \in [Gen -> Producer]
    BY ProducersTyped DEF Init
  <1>3. call \in Call
    BY DEF Init, Idle, Call
  <1>4. lease \in [Client -> Lease]
    BY DEF Init, NoLease, Lease
  <1>5. guests \in Seq(Dom)
    BY DEF Init
  <1>6. made \in Nat
    BY DEF Init
  <1>7. conf \in Config
    <2>1. conf = DefaultConfig BY DEF Init
    <2>2. QED BY <2>1, PoolAssumption
  <1>8. pending \subseteq Gen /\ alive \subseteq Dom /\ loopCall \in Gen \cup {0}
    BY DEF Init
  <1>9. anyUp \in BOOLEAN /\ ready \in BOOLEAN /\ recycling \in BOOLEAN
    BY PoolAssumption DEF Init
  <1>10. PrevKnown
    BY BlankIsGuest DEF PrevKnown, Init
  <1>11. QED
    BY <1>1, <1>2, <1>3, <1>4, <1>5, <1>6, <1>7, <1>8, <1>9, <1>10 DEF TypeInv, TypeOK

\* No phase of a producer iteration breaks the types.
LEMMA ProducerTypeInv ==
  ASSUME TypeInv, NEW p \in Gen, ProducerStep(p)
  PROVE  TypeInv'
  <1> USE DEF TypeInv, TypeOK
  <1>1. CASE EnterLoop(p)
    <2>1. "mark" \in Phase /\ "health" \in Phase
      BY DEF Phase
    <2>2. prod' = [prod EXCEPT ![p].pc = IF PoolSize > 1 THEN "mark" ELSE "health"]
      BY <1>1 DEF EnterLoop, Goto
    <2>3. prod' \in [Gen -> Producer]
      BY <2>1, <2>2, SetPc
    <2>4. pending' \subseteq Gen
      BY <1>1 DEF EnterLoop
    <2>8. UNCHANGED <<heap, guests, made, anyUp, conf,
                        loopCall, recycling, call, ready, alive, lease>>
      BY <1>1 DEF EnterLoop, listVars, loopVars, qemuVars
    <2>9. QED
      BY <2>1, <2>2, <2>3, <2>4, <2>8 DEF PrevKnown
  <1>2. CASE MarkTimedOut(p)
    <2>1. "collect" \in Phase /\ "unavailable" \in State
      BY DEF Phase, State
    <2>2. prod' \in [Gen -> Producer]
      BY <1>2, <2>1, SetPc DEF MarkTimedOut, Goto
    <2>3. heap' \in [Dom -> Guest] /\ SameHolding(heap, heap')
      <3>1. PICK timedOut \in SUBSET InStates({"used"}) :
              heap' = [d \in Dom |-> IF d \in timedOut
                                     THEN [heap[d] EXCEPT !.state = "unavailable"]
                                     ELSE heap[d]]
        BY <1>2 DEF MarkTimedOut
      <3>2. /\ heap' = [d \in Dom |-> heap'[d]]
            /\ \A d \in Dom : heap'[d] \in {heap[d], [heap[d] EXCEPT !.state = "unavailable"]}
        BY <3>1
      <3>3. QED
        BY <2>1, <3>2, SetStates
    <2>4. PrevKnown'
      BY <2>3, PrevKnownKept
    <2>8. UNCHANGED <<guests, made, anyUp, conf, pending,
                        loopCall, recycling, call, ready, alive, lease>>
      BY <1>2 DEF MarkTimedOut, listVars, loopVars, qemuVars
    <2>9. QED
      BY <2>1, <2>2, <2>3, <2>4, <2>8 DEF PrevKnown
  <1>3. CASE CollectUnavailable(p)
    <2>1. "destroy" \in Phase
      BY DEF Phase
    <2>2. InStates({"unavailable"}) \in SUBSET Dom
      BY DEF InStates, Listed
    <2>3. prod' \in [Gen -> Producer]
      BY <1>3, <2>1, <2>2, SetPcTodo DEF CollectUnavailable
    <2>8. UNCHANGED <<heap, guests, made, anyUp, conf, pending,
                        loopCall, recycling, call, ready, alive, lease>>
      BY <1>3 DEF CollectUnavailable, listVars, loopVars, qemuVars
    <2>9. QED
      BY <2>1, <2>2, <2>3, <2>8 DEF PrevKnown
  <1>4. ASSUME NEW d \in Dom, DestroyGuest(p, d) PROVE TypeInv'
    <2>1. "destroyed" \in State
      BY DEF State
    <2>2. prod' \in [Gen -> Producer]
      BY <1>4, DropTodo DEF DestroyGuest
    <2>3. heap' \in [Dom -> Guest] /\ SameHolding(heap, heap')
      BY <1>4, <2>1, SetState DEF DestroyGuest
    <2>4. PrevKnown'
      BY <2>3, PrevKnownKept
    <2>5. alive' \subseteq Dom
      BY <1>4 DEF DestroyGuest
    <2>8. UNCHANGED <<guests, made, anyUp, conf, pending,
                        loopCall, recycling, call, ready, lease>>
      BY <1>4 DEF DestroyGuest, listVars, loopVars, qemuVars
    <2>9. QED
      BY <2>1, <2>2, <2>3, <2>4, <2>5, <2>8 DEF PrevKnown
  <1>5. CASE DestroyedAll(p)
    <2>1. "health" \in Phase
      BY DEF Phase
    <2>2. prod' \in [Gen -> Producer]
      BY <1>5, <2>1, SetPc DEF DestroyedAll, Goto
    <2>8. UNCHANGED <<heap, guests, made, anyUp, conf, pending,
                        loopCall, recycling, call, ready, alive, lease>>
      BY <1>5 DEF DestroyedAll, listVars, loopVars, qemuVars
    <2>9. QED
      BY <2>1, <2>2, <2>8 DEF PrevKnown
  <1>6. CASE CheckHealth(p)
    <2>1. "remove" \in Phase /\ "unavailable" \in State
      BY DEF Phase, State
    <2>2. prod' \in [Gen -> Producer]
      BY <1>6, <2>1, SetPc DEF CheckHealth, Goto
    <2>3. heap' \in [Dom -> Guest] /\ SameHolding(heap, heap')
      <3>1. PICK up \in SUBSET alive :
              heap' = [d \in Dom |->
                         IF /\ d \in InStates({"available", "using", "used"})
                            /\ ~HasConnectivity(heap[d].ip, up)
                         THEN [heap[d] EXCEPT !.state = "unavailable"]
                         ELSE heap[d]]
        BY <1>6 DEF CheckHealth
      <3>2. /\ heap' = [d \in Dom |-> heap'[d]]
            /\ \A d \in Dom : heap'[d] \in {heap[d], [heap[d] EXCEPT !.state = "unavailable"]}
        BY <3>1
      <3>3. QED
        BY <2>1, <3>2, SetStates
    <2>4. PrevKnown'
      BY <2>3, PrevKnownKept
    <2>8. UNCHANGED <<guests, made, anyUp, conf, pending,
                        loopCall, recycling, call, ready, alive, lease>>
      BY <1>6 DEF CheckHealth, listVars, loopVars, qemuVars
    <2>9. QED
      BY <2>1, <2>2, <2>3, <2>4, <2>8 DEF PrevKnown
  <1>7. CASE RemoveDestroyed(p)
    <2>1. PICK i \in DOMAIN guests :
            /\ guests' = RemoveAt(guests, i)
            /\ heap' = IF guests[i] \in alive THEN heap
                       ELSE [heap EXCEPT ![guests[i]] = Blank]
      BY <1>7 DEF RemoveDestroyed
    <2>2. guests' \in Seq(Dom)
      BY <2>1 DEF RemoveAt
    <2>3. heap' \in [Dom -> Guest] /\ PrevKnown'
      BY <2>1, BlankIsGuest DEF PrevKnown
    <2>8. UNCHANGED <<made, anyUp, conf, prod, pending,
                        loopCall, recycling, call, ready, alive, lease>>
      BY <1>7 DEF RemoveDestroyed, listVars, loopVars, qemuVars
    <2>9. QED
      BY <2>1, <2>2, <2>3, <2>8 DEF PrevKnown
  <1>8. CASE CountMissing(p)
    <2>1. "create" \in Phase
      BY DEF Phase
    <2>2. conf.max - PoolSize \in Int
      BY PoolSizeInt DEF Config
    <2>3. prod' \in [Gen -> Producer]
      BY <1>8, <2>1, <2>2, SetPcN DEF CountMissing
    <2>8. UNCHANGED <<heap, guests, made, anyUp, conf, pending,
                        loopCall, recycling, call, ready, alive, lease>>
      BY <1>8 DEF CountMissing, listVars, loopVars, qemuVars
    <2>9. QED
      BY <2>1, <2>2, <2>3, <2>8 DEF PrevKnown
  <1>9. CASE BeginCreate(p)
    <2>1. "qemu" \in Phase
      BY DEF Phase
    <2>2. ASSUME FreeIps # {} /\ ready PROVE prod' \in [Gen -> Producer]
      <3> DEFINE ip == CHOOSE i \in FreeIps : TRUE
      <3>1. ip \in GuestIp
        BY <2>2 DEF FreeIps
      <3>2. prod' = [prod EXCEPT ![p].pc = "qemu", ![p].ip = ip]
        BY <1>9, <2>2 DEF BeginCreate
      <3> HIDE DEF ip
      <3>3. QED
        BY <2>1, <3>1, <3>2, SetPcIp
    <2>3. ASSUME ~(FreeIps # {} /\ ready) PROVE prod' \in [Gen -> Producer]
      BY <1>9, <2>3, ProducersTyped DEF BeginCreate, Die
    <2>4. prod' \in [Gen -> Producer]
      BY <2>2, <2>3
    <2>8. UNCHANGED <<heap, guests, made, anyUp, conf, pending,
                        loopCall, recycling, call, ready, alive, lease>>
      BY <1>9 DEF BeginCreate, listVars, loopVars, qemuVars
    <2>9. QED
      BY <2>1, <2>2, <2>3, <2>4, <2>8 DEF PrevKnown
  <1>10. CASE FinishCreate(p)
    <2>1. NewDom \in Dom
      BY <1>10 DEF FinishCreate, NewDom, Fresh
    <2>2. guests' \in Seq(Dom) /\ alive' \subseteq Dom
      <3>1. guests' = Append(guests, NewDom) /\ alive' = alive \cup {NewDom}
        BY <1>10 DEF FinishCreate
      <3>2. QED
        BY <2>1, <3>1
    <2>3. made' \in Nat
      <3>1. made' = made + 1
        BY <1>10 DEF FinishCreate
      <3>2. QED
        BY <3>1
    <2>4. prod' \in [Gen -> Producer]
      <3>1. "create" \in Phase
        BY DEF Phase
      <3>2. QED
        BY <1>10, <3>1, SetCreated DEF FinishCreate
    <2>5. heap' \in [Dom -> Guest] /\ PrevKnown'
      <3>1. made \in Nat /\ "created" \in State /\ prod[p].ip \in GuestIp \cup {"no ip"}
        <4>1. made \in Nat
          OBVIOUS
        <4>2. "created" \in State
          BY DEF State
        <4>3. prod[p].ip \in GuestIp \cup {"no ip"}
          BY DEF Producer
        <4>4. QED
          BY <4>1, <4>2, <4>3
      <3>2. /\ [Blank EXCEPT !.nr = made, !.state = "created", !.ip = prod[p].ip] \in Guest
            /\ [Blank EXCEPT !.nr = made, !.state = "created", !.ip = prod[p].ip].connected = 0
        BY <3>1, BlankIsGuest DEF Guest
      <3>3. heap' = [heap EXCEPT ![NewDom] =
                       [Blank EXCEPT !.nr = made, !.state = "created", !.ip = prod[p].ip]]
        BY <1>10 DEF FinishCreate
      <3>4. QED
        BY <2>1, <3>2, <3>3 DEF PrevKnown
    <2>8. UNCHANGED <<anyUp, conf, pending, loopCall,
                        recycling, call, ready, lease>>
      BY <1>10 DEF FinishCreate, listVars, loopVars, qemuVars
    <2>9. QED
      BY <2>1, <2>2, <2>3, <2>4, <2>5, <2>8 DEF PrevKnown
  <1>11. CASE FailCreate(p)
    <2>1. prod' \in [Gen -> Producer]
      BY <1>11, ProducersTyped DEF FailCreate, Die
    <2>8. UNCHANGED <<heap, guests, made, anyUp, conf, pending,
                        loopCall, recycling, call, ready, alive, lease>>
      BY <1>11 DEF FailCreate, listVars, loopVars, qemuVars
    <2>9. QED
      BY <2>1, <2>8 DEF PrevKnown
  <1>12. CASE CollectCreated(p)
    <2>1. InStates({"created"}) \in SUBSET Dom
      BY DEF InStates, Listed
    <2>2. prod' \in [Gen -> Producer]
      <3>1. "avail" \in Phase
        BY DEF Phase
      <3>2. QED
        BY <1>12, <2>1, <3>1, SetPcTodoN DEF CollectCreated
    <2>8. UNCHANGED <<heap, guests, made, anyUp, conf, pending,
                        loopCall, recycling, call, ready, alive, lease>>
      BY <1>12 DEF CollectCreated, listVars, loopVars, qemuVars
    <2>9. QED
      BY <2>1, <2>2, <2>8 DEF PrevKnown
  <1>13. ASSUME NEW d \in Dom, MarkAvailable(p, d) PROVE TypeInv'
    <2>1. "available" \in State
      BY DEF State
    <2>2. prod' \in [Gen -> Producer]
      BY <1>13, DropTodo DEF MarkAvailable
    <2>3. heap' \in [Dom -> Guest] /\ SameHolding(heap, heap')
      <3>1. heap' = [heap EXCEPT ![d].state = "available"] \/ heap' = heap
        BY <1>13 DEF MarkAvailable
      <3>2. SameHolding(heap, heap)
        BY DEF SameHolding
      <3>3. CASE heap' = heap
        BY <3>2, <3>3
      <3>4. CASE heap' = [heap EXCEPT ![d].state = "available"]
        BY <2>1, <3>4, SetState
      <3>5. QED
        BY <3>1, <3>3, <3>4
    <2>4. PrevKnown'
      BY <2>3, PrevKnownKept
    <2>5. anyUp' \in BOOLEAN
      BY <1>13 DEF MarkAvailable
    <2>8. UNCHANGED <<guests, made, conf, pending, loopCall,
                        recycling, call, ready, alive, lease>>
      BY <1>13 DEF MarkAvailable, listVars, loopVars, qemuVars
    <2>9. QED
      BY <2>1, <2>2, <2>3, <2>4, <2>5, <2>8 DEF PrevKnown
  <1>14. CASE ScheduleNext(p)
    <2>1. "asleep" \in Phase
      BY DEF Phase
    <2>2. prod' \in [Gen -> Producer]
      BY <1>14, <2>1, SetPcOn DEF ScheduleNext
    <2>3. pending' \subseteq Gen /\ loopCall' \in Gen \cup {0}
      BY <1>14 DEF ScheduleNext
    <2>8. UNCHANGED <<heap, guests, made, anyUp, conf,
                        recycling, call, ready, alive, lease>>
      BY <1>14 DEF ScheduleNext, listVars, loopVars, qemuVars
    <2>9. QED
      BY <2>1, <2>2, <2>3, <2>8 DEF PrevKnown
  <1>15. QED
    BY <1>1, <1>2, <1>3, <1>4, <1>5, <1>6, <1>7, <1>8, <1>9, <1>10, <1>11, <1>12,
       <1>13, <1>14 DEF ProducerStep

\* stop_pool keeps the types.
LEMMA StoppedTyped ==
  ASSUME TypeOK, Stopped
  PROVE  /\ pending' \subseteq Gen
         /\ prod' \in [Gen -> Producer]
         /\ ready' \in BOOLEAN
         /\ alive' \subseteq Dom
  <1>1. prod' \in [Gen -> Producer]
    BY ProducersTyped DEF TypeOK, Stopped
  <1>2. QED
    BY <1>1 DEF TypeOK, Stopped

\* The three writes of the consumers to a guest make guests.
LEMMA SetServing ==
  ASSUME NEW g \in Guest, NEW s \in State, NEW n \in Int
  PROVE  [g EXCEPT !.connected = n, !.state = s] \in Guest
  BY DEF Guest

LEMMA SetReverted ==
  ASSUME NEW g \in Guest, NEW s \in State, NEW n \in Int,
         NEW r \in State \cup {"none"}
  PROVE  [g EXCEPT !.connected = n, !.state = s, !.prev = r] \in Guest
  BY DEF Guest

LEMMA SetGranted ==
  ASSUME NEW g \in Guest, NEW s \in State, NEW n \in Int,
         NEW r \in State \cup {"none"}, NEW S \in SUBSET Ip
  PROVE  [g EXCEPT !.prev = r, !.state = s, !.connected = n, !.ips = S] \in Guest
  BY DEF Guest

\* free_vm and reuse_vm keep PrevKnown of the guest they write.
LEMMA FreedTyped ==
  ASSUME NEW g \in Guest, g.connected >= 1 => g.prev # "none"
  PROVE  /\ Freed(g) \in Guest
         /\ Freed(g).connected >= 1 => Freed(g).prev # "none"
  <1>1. "used" \in State /\ g.state \in State /\ g.connected \in Int
    BY DEF State, Guest
  <1>2. g.connected - 1 \in Int
    BY <1>1
  <1>3. Freed(g) \in Guest
    BY <1>1, <1>2, SetServing DEF Freed
  <1>4. Freed(g).connected = g.connected - 1 /\ Freed(g).prev = g.prev
    BY DEF Freed, Guest
  <1>5. QED
    BY <1>1, <1>3, <1>4

LEMMA RevertedTyped ==
  ASSUME NEW g \in Guest, g.connected >= 1 => g.prev # "none"
  PROVE  /\ Reverted(g) \in Guest
         /\ Reverted(g).connected >= 1 => Reverted(g).prev # "none"
  <1>1. CASE g.connected = 1
    <2>1. g.prev \in State
      <3>1. g.prev \in State \cup {"none"}
        BY DEF Guest
      <3>2. g.prev # "none"
        BY <1>1
      <3>3. QED
        BY <3>1, <3>2
    <2>2. [g EXCEPT !.connected = 0, !.state = g.prev, !.prev = "none"] \in Guest
      <3>1. 0 \in Int /\ "none" \in State \cup {"none"}
        OBVIOUS
      <3>2. QED
        BY <2>1, <3>1, SetReverted, Zenon
    <2>3. [g EXCEPT !.connected = 0, !.state = g.prev, !.prev = "none"].connected = 0
      BY DEF Guest
    <2>4. QED
      BY <1>1, <2>2, <2>3 DEF Reverted
  <1>2. CASE g.connected # 1
    <2>1. g.connected \in Int
      BY DEF Guest
    <2>2. Reverted(g) = [g EXCEPT !.connected = @ - 1]
      BY <1>2 DEF Reverted
    <2>3. g.connected - 1 \in Int
      BY <2>1
    <2>4. [g EXCEPT !.connected = g.connected - 1] \in Guest
      BY <2>3 DEF Guest
    <2>5. /\ [g EXCEPT !.connected = g.connected - 1].connected = g.connected - 1
          /\ [g EXCEPT !.connected = g.connected - 1].prev = g.prev
      BY DEF Guest
    <2>6. QED
      BY <2>1, <2>2, <2>4, <2>5
  <1>3. QED
    BY <1>1, <1>2

\* Neither the start and stop of the pool nor a client breaks the types.
\* A lease of an older pool is a lease still, of the same guest.
LEMMA StaleLease ==
  ASSUME NEW l \in Lease
  PROVE  /\ l.held => [l EXCEPT !.stale = TRUE] \in Lease
         /\ l.held => l.nr \in Nat /\ l.d \in Dom /\ l.stale \in BOOLEAN
         /\ [l EXCEPT !.stale = TRUE].held = l.held
         /\ l.held => [l EXCEPT !.stale = TRUE].stale
<1>1. CASE l = NoLease
  BY <1>1 DEF NoLease
<1>2. CASE l \in [held : {TRUE}, d : Dom, nr : Nat, ip : Ip, stale : BOOLEAN]
  BY <1>2 DEF Lease
<1> QED
  BY <1>1, <1>2 DEF Lease

LEMMA ReactorTypeInv ==
  ASSUME TypeInv,
         \/ RestartStop
         \/ \E p \in Gen : StartPool(p)
         \/ \E new \in Configs : SetConfigs(new)
         \/ \E c \in Client, ip \in Ip : SelectGuest(c, ip)
         \/ GrantGuest
         \/ \E c \in Client, ip \in Ip : RefuseRequest(c, ip)
         \/ \E c \in Client : FreeVm(c)
         \/ \E c \in Client : ReuseVm(c)
  PROVE  TypeInv'
  <1> USE DEF TypeInv, TypeOK
  <1>1. CASE RestartStop
    <2>1. CASE CancelRaises
      BY <1>1, <2>1 DEF RestartStop, listVars, qemuVars, PrevKnown
    <2>2. CASE ~CancelRaises
      <3>1. Stopped /\ call' = [kind |-> "restart"]
        BY <1>1, <2>2 DEF RestartStop
      <3>2. call' \in Call
        BY <3>1 DEF Call
      <3>3. /\ pending' \subseteq Gen
            /\ prod' \in [Gen -> Producer]
            /\ ready' \in BOOLEAN
            /\ alive' \subseteq Dom
        BY <3>1, StoppedTyped
      <3>4. UNCHANGED <<heap, guests, made, anyUp, conf, loopCall, lease>>
            /\ recycling' = FALSE
        BY <1>1 DEF RestartStop, listVars
      <3>5. QED
        BY <3>2, <3>3, <3>4 DEF PrevKnown
    <2>3. QED
      BY <2>1, <2>2
  <1>2. ASSUME NEW p \in Gen, StartPool(p) PROVE TypeInv'
    <2>1. heap' \in [Dom -> Guest] /\ PrevKnown'
      BY <1>2, BlankIsGuest DEF StartPool, PrevKnown
    <2>2. prod' \in [Gen -> Producer]
      BY <1>2, ProducersTyped DEF StartPool
    <2>3. made' \in Nat
      BY <1>2 DEF StartPool
    <2>4. call' \in Call
      BY <1>2 DEF StartPool, Idle, Call
    <2>5. guests' \in Seq(Dom)
      BY <1>2 DEF StartPool
    <2>6. ready' \in BOOLEAN /\ anyUp' \in BOOLEAN /\ recycling' \in BOOLEAN
      BY <1>2, PoolAssumption DEF StartPool
    <2>7. UNCHANGED <<conf, pending, loopCall>> /\ alive' \subseteq Dom
      BY <1>2 DEF StartPool
    <2>8. lease' \in [Client -> Lease]
      BY <1>2, StaleLease DEF StartPool
    <2>9. QED
      BY <2>1, <2>2, <2>3, <2>4, <2>5, <2>6, <2>7, <2>8
  <1>3. ASSUME NEW new \in Configs, SetConfigs(new) PROVE TypeInv'
    <2>1. conf' \in Config
      BY <1>3, PoolAssumption DEF SetConfigs
    <2>2. UNCHANGED <<heap, guests, made, anyUp, prod, pending, loopCall,
                      recycling, call, ready, alive, lease>>
      BY <1>3 DEF SetConfigs, listVars, loopVars, qemuVars
    <2>3. QED
      BY <2>1, <2>2 DEF PrevKnown
  <1>4. ASSUME NEW c \in Client, NEW ip \in Ip, SelectGuest(c, ip) PROVE TypeInv'
    <2>1. PICK i \in DOMAIN guests :
            call' = [kind |-> "request", c |-> c, ip |-> ip, d |-> guests[i]]
      BY <1>4 DEF SelectGuest
    <2>2. call' \in Call
      BY <2>1 DEF Call
    <2>3. UNCHANGED <<heap, guests, made, anyUp, conf, prod, pending, loopCall,
                      recycling, ready, alive, lease>>
      BY <1>4 DEF SelectGuest, listVars, loopVars, qemuVars
    <2>4. QED
      BY <2>2, <2>3 DEF PrevKnown
  <1>5. CASE GrantGuest
    <2> DEFINE g == heap[call.d]
               k == [g EXCEPT !.prev = g.state, !.state = "using",
                              !.connected = @ + 1, !.ips = @ \cup {call.ip}]
    <2>1. call.c \in Client /\ call.ip \in Ip /\ call.d \in Dom
      BY <1>5 DEF GrantGuest, Call
    <2>2. g \in Guest
      BY <2>1
    <2>3. heap' = [heap EXCEPT ![call.d] = k]
      BY <1>5 DEF GrantGuest
    <2>4. lease' = [lease EXCEPT ![call.c] = [held |-> TRUE, d |-> call.d,
                                              nr |-> g.nr, ip |-> call.ip,
                   stale |-> FALSE]]
      BY <1>5 DEF GrantGuest
    <2>5. k \in Guest /\ k.prev # "none"
      <3>1. "using" \in State /\ "none" \notin State
        BY DEF State
      <3> HIDE DEF g
      <3>2. g.state \in State /\ g.connected + 1 \in Int /\ g.ips \cup {call.ip} \in SUBSET Ip
        <4>1. g.state \in State
          BY <2>2 DEF Guest
        <4>2. g.connected \in Int
          BY <2>2 DEF Guest
        <4>3. g.ips \in SUBSET Ip
          BY <2>2 DEF Guest
        <4>4. QED
          BY <2>1, <4>1, <4>2, <4>3
      <3>3. k \in Guest
        BY <2>2, <3>1, <3>2, SetGranted
      <3>4. k.prev = g.state
        BY <2>2 DEF Guest
      <3>5. QED
        BY <3>1, <3>2, <3>3, <3>4
    <2>6. [held |-> TRUE, d |-> call.d, nr |-> g.nr, ip |-> call.ip,
                   stale |-> FALSE] \in Lease
      <3>1. g.nr \in Nat
        BY <2>2 DEF Guest
      <3> HIDE DEF g
      <3>2. QED
        BY <2>1, <3>1 DEF Lease
    <2> HIDE DEF g, k
    <2>7. heap' \in [Dom -> Guest] /\ PrevKnown'
      BY <2>1, <2>3, <2>5 DEF PrevKnown
    <2>8. lease' \in [Client -> Lease]
      BY <2>1, <2>4, <2>6
    <2>9. call' \in Call
      BY <1>5 DEF GrantGuest, Idle, Call
    <2>10. UNCHANGED <<guests, made, anyUp, conf, prod, pending, loopCall,
                       recycling, ready, alive>>
      BY <1>5 DEF GrantGuest, listVars, loopVars, qemuVars
    <2>11. QED
      BY <2>7, <2>8, <2>9, <2>10
  <1>6. ASSUME NEW c \in Client, NEW ip \in Ip, RefuseRequest(c, ip) PROVE TypeInv'
    <2>1. /\ pending' \subseteq Gen
          /\ prod' \in [Gen -> Producer]
          /\ ready' \in BOOLEAN
          /\ alive' \subseteq Dom
      <3>1. CASE anyUp /\ ~CancelRaises
        BY <1>6, <3>1, StoppedTyped DEF RefuseRequest
      <3>2. CASE ~(anyUp /\ ~CancelRaises)
        BY <1>6, <3>2 DEF RefuseRequest, qemuVars
      <3>3. QED
        BY <3>1, <3>2
    <2>2. UNCHANGED <<heap, guests, made, anyUp, conf, loopCall, recycling,
                      call, lease>>
      BY <1>6 DEF RefuseRequest, listVars
    <2>3. QED
      BY <2>1, <2>2 DEF PrevKnown
  <1>7. ASSUME NEW c \in Client, FreeVm(c) PROVE TypeInv'
    <2>1. heap' \in [Dom -> Guest] /\ PrevKnown'
      <3>1. heap' = heap
            \/ \E i \in DOMAIN guests : heap' = [heap EXCEPT ![guests[i]] = Freed(heap[guests[i]])]
        BY <1>7 DEF FreeVm, Release
      <3>2. QED
        BY <3>1, FreedTyped DEF PrevKnown
    <2>2. lease' \in [Client -> Lease]
      BY <1>7 DEF FreeVm, Release, Lease
    <2>3. UNCHANGED <<guests, made, anyUp, conf, prod, pending, loopCall,
                      recycling, call, ready, alive>>
      BY <1>7 DEF FreeVm, Release, listVars, loopVars, qemuVars
    <2>4. QED
      BY <2>1, <2>2, <2>3
  <1>8. ASSUME NEW c \in Client, ReuseVm(c) PROVE TypeInv'
    <2>1. heap' \in [Dom -> Guest] /\ PrevKnown'
      <3>1. heap' = heap
            \/ \E i \in DOMAIN guests : heap' = [heap EXCEPT ![guests[i]] = Reverted(heap[guests[i]])]
        BY <1>8 DEF ReuseVm, Release
      <3>2. QED
        BY <3>1, RevertedTyped DEF PrevKnown
    <2>2. lease' \in [Client -> Lease]
      BY <1>8 DEF ReuseVm, Release, Lease
    <2>3. UNCHANGED <<guests, made, anyUp, conf, prod, pending, loopCall,
                      recycling, call, ready, alive>>
      BY <1>8 DEF ReuseVm, Release, listVars, loopVars, qemuVars
    <2>4. QED
      BY <2>1, <2>2, <2>3
  <1>9. QED
    BY <1>1, <1>2, <1>3, <1>4, <1>5, <1>6, <1>7, <1>8

LEMMA NextTypeInv == ASSUME TypeInv, [Next]_vars PROVE TypeInv'
  <1>1. CASE Next
    BY <1>1, ProducerTypeInv, ReactorTypeInv DEF Next
  <1>2. CASE UNCHANGED vars
    BY <1>2 DEF TypeInv, TypeOK, PrevKnown, vars
  <1>3. QED
    BY <1>1, <1>2

\* The pool's variables keep their types, whatever the interleaving of the
\* producer thread and the reactor, the configuration and the faults.
THEOREM PoolTypeOK == Spec => []TypeOK
  <1>1. Init => TypeInv
    BY InitTypeInv
  <1>2. TypeInv /\ [Next]_vars => TypeInv'
    BY NextTypeInv
  <1>3. TypeInv => TypeOK
    BY DEF TypeInv
  <1>4. QED
    BY <1>1, <1>2, <1>3, PTL DEF Spec

-----------------------------------------------------------------------------
(* Chains of iterations.  When recycle_period does not end inside the first *)
(* iteration of a pool (~Overlap), the pool has one chain of producer       *)
(* iterations at a time, and therefore no two of its guests have the same   *)
(* address.                                                                 *)

\* No two chains of iterations are scheduled or running.
OneProducerChain ==
  \A p, q \in Gen : Running(p) /\ Running(q) => p = q

\* What keeps the chains apart: the one that sleeps is the one loop_next_call
\* refers to, so that stop_pool reaches it, and restart_pool begins a new one
\* only when none is left.
ChainInv ==
  /\ OneProducerChain
  /\ \A p \in Gen : At(p, "asleep") => p \in pending /\ loopCall = p
  /\ \A p \in pending : At(p, "asleep")
  /\ \A p \in Gen : At(p, "queued") => prod[p].on = "thread"
  /\ call.kind = "restart" => \A p \in Gen : ~Running(p)

\* An address chosen inside create_guest stays free until the append.
IpInv ==
  /\ GuestIpsDiffer
  /\ \A p \in Gen : At(p, "qemu") => prod[p].ip \in FreeIps

ChainTypeInv == TypeInv /\ ChainInv

\* The phases of the three records a chain can be reset to.
LEMMA ResetPhases ==
  /\ NoProducer.pc = "none"
  /\ Deferred.pc = "queued" /\ Deferred.on = "thread"
  /\ [NoProducer EXCEPT !.pc = "dead"].pc = "dead"
  BY DEF NoProducer, Deferred

\* A created guest moves its chain on, and no other.
LEMMA FieldsMove ==
  ASSUME NEW f \in [Gen -> Producer], NEW p \in Gen
  PROVE  /\ \A ph \in Phase : [f EXCEPT ![p].pc = ph][p].pc = ph
         /\ \A k \in Int : [f EXCEPT ![p].n = k][p].pc = f[p].pc
         /\ \A ip \in GuestIp \cup {"no ip"} : [f EXCEPT ![p].ip = ip][p].pc = f[p].pc
  BY DEF Producer

LEMMA CreatedMoves ==
  ASSUME NEW f \in [Gen -> Producer], NEW p \in Gen, NEW ph \in Phase
  PROVE  [f EXCEPT ![p].pc = ph, ![p].n = @ - 1, ![p].ip = "no ip"][p].pc = ph
  <1> DEFINE g == [f EXCEPT ![p].pc = ph]
             h == [g EXCEPT ![p].n = @ - 1]
  <1>1. g \in [Gen -> Producer] /\ g[p].pc = ph
    BY SetPc, FieldsMove
  <1> HIDE DEF g
  <1>2. g[p].n - 1 \in Int
    <2>1. g[p] \in Producer
      BY <1>1
    <2>2. g[p].n \in Int
      BY <2>1 DEF Producer
    <2>3. QED
      BY <2>2
  <1>3. h \in [Gen -> Producer] /\ h[p].pc = ph
    BY <1>1, <1>2, SetN, FieldsMove
  <1> HIDE DEF h
  <1>4. [h EXCEPT ![p].ip = "no ip"][p].pc = ph
    BY <1>3, FieldsMove
  <1>5. QED
    BY <1>4 DEF g, h

-----------------------------------------------------------------------------
(* One chain.                                                              *)

\* A phase inside an iteration moves its own chain only, and neither begins
\* nor ends the iteration other than by an exception.
Inner(p) ==
  /\ prod[p].pc \notin {"none", "dead", "asleep"}
  /\ prod'[p].pc \notin {"none", "queued", "asleep"}
  /\ \A q \in Gen \ {p} : prod'[q] = prod[q]
  /\ UNCHANGED <<pending, loopCall, call>>

LEMMA InnerChainInv ==
  ASSUME TypeInv, ChainInv, NEW p \in Gen, Inner(p)
  PROVE  ChainInv'
  <1>1. OneProducerChain'
    BY DEF ChainInv, OneProducerChain, Running, Inner
  <1>2. \A q \in Gen : (At(q, "asleep"))' => (q \in pending /\ loopCall = q)'
    BY DEF ChainInv, At, Inner
  <1>3. pending' = pending /\ pending \subseteq Gen
    BY DEF Inner, TypeInv, TypeOK
  <1>4. (\A q \in pending : At(q, "asleep"))'
    BY <1>3 DEF ChainInv, At, Inner
  <1>5. (\A q \in Gen : At(q, "queued") => prod[q].on = "thread")'
    BY DEF ChainInv, At, Inner
  <1>6. (call.kind = "restart" => \A q \in Gen : ~Running(q))'
    BY DEF ChainInv, Running, Inner
  <1>7. QED
    BY <1>1, <1>2, <1>4, <1>5, <1>6 DEF ChainInv

\* All but the first and the last phase are inner steps.
LEMMA ProducerInner ==
  ASSUME TypeInv, NEW p \in Gen, ProducerStep(p), ~EnterLoop(p), ~ScheduleNext(p)
  PROVE  Inner(p)
  <1> USE DEF Inner, TypeInv, TypeOK, At, Goto, loopVars
  <1>1. CASE MarkTimedOut(p)
    BY <1>1 DEF MarkTimedOut
  <1>2. CASE CollectUnavailable(p)
    BY <1>2 DEF CollectUnavailable
  <1>3. ASSUME NEW d \in Dom, DestroyGuest(p, d) PROVE Inner(p)
    BY <1>3 DEF DestroyGuest
  <1>4. CASE DestroyedAll(p)
    BY <1>4 DEF DestroyedAll
  <1>5. CASE CheckHealth(p)
    BY <1>5 DEF CheckHealth
  <1>6. CASE RemoveDestroyed(p)
    BY <1>6 DEF RemoveDestroyed
  <1>7. CASE CountMissing(p)
    <2>1. PICK k : prod' = [prod EXCEPT ![p].pc = "create", ![p].n = k]
      BY <1>7 DEF CountMissing
    <2>2. prod[p].pc = "remove" /\ UNCHANGED <<pending, loopCall, call>>
      BY <1>7 DEF CountMissing
    <2>3. QED
      BY <2>1, <2>2
  <1>8. CASE BeginCreate(p)
    <2>1. prod[p].pc = "create"
      BY <1>8 DEF BeginCreate
    <2>2. UNCHANGED <<pending, loopCall, call>>
      BY <1>8 DEF BeginCreate
    <2>3. CASE ready /\ FreeIps # {}
      <3>1. PICK k : prod' = [prod EXCEPT ![p].pc = "qemu", ![p].ip = k]
        BY <1>8, <2>3 DEF BeginCreate
      <3>2. QED
        BY <2>1, <2>2, <3>1
    <2>4. CASE ~(ready /\ FreeIps # {})
      <3>1. prod' = [prod EXCEPT ![p] = [NoProducer EXCEPT !.pc = "dead"]]
        BY <1>8, <2>4 DEF BeginCreate, Die
      <3>2. QED
        BY <2>1, <2>2, <3>1, ResetPhases
    <2>5. QED
      BY <2>3, <2>4
  <1>9. CASE FinishCreate(p)
    <2>1. prod' = [prod EXCEPT ![p].pc = "create", ![p].n = @ - 1, ![p].ip = "no ip"]
      BY <1>9 DEF FinishCreate
    <2>2. /\ prod'[p].pc = "create"
          /\ \A q \in Gen \ {p} : prod'[q] = prod[q]
      <3>1. "create" \in Phase
        BY DEF Phase
      <3>2. [prod EXCEPT ![p].pc = "create", ![p].n = @ - 1, ![p].ip = "no ip"][p].pc = "create"
        BY <3>1, CreatedMoves
      <3>3. \A q \in Gen \ {p} : prod'[q] = prod[q]
        BY <2>1
      <3>4. QED
        BY <2>1, <3>2, <3>3, Zenon
    <2>3. prod[p].pc = "qemu" /\ UNCHANGED <<pending, loopCall, call>>
      BY <1>9 DEF FinishCreate
    <2>4. QED
      BY <2>2, <2>3
  <1>10. CASE FailCreate(p)
    BY <1>10 DEF FailCreate, Die, NoProducer
  <1>11. CASE CollectCreated(p)
    BY <1>11 DEF CollectCreated
  <1>12. ASSUME NEW d \in Dom, MarkAvailable(p, d) PROVE Inner(p)
    BY <1>12 DEF MarkAvailable
  <1>13. QED
    BY <1>1, <1>2, <1>3, <1>4, <1>5, <1>6, <1>7, <1>8, <1>9, <1>10, <1>11, <1>12
    DEF ProducerStep

\* An iteration that begins leaves the timer queue; one that ends joins it.
LEMMA EnterChainInv ==
  ASSUME TypeInv, ChainInv, NEW p \in Gen, EnterLoop(p)
  PROVE  ChainInv'
  <1> DEFINE ph == IF PoolSize > 1 THEN "mark" ELSE "health"
  <1>2. ph \in {"mark", "health"}
    OBVIOUS
  <1>1. /\ \/ prod[p].pc = "queued" /\ pending' = pending
           \/ prod[p].pc = "asleep" /\ pending' = pending \ {p}
        /\ prod' = [prod EXCEPT ![p].pc = ph]
        /\ UNCHANGED <<loopCall, call>>
    <2>1. prod' = [prod EXCEPT ![p].pc = ph]
      BY DEF EnterLoop, Goto
    <2> HIDE DEF ph
    <2>2. \/ prod[p].pc = "queued" /\ pending' = pending
          \/ prod[p].pc = "asleep" /\ pending' = pending \ {p}
      BY DEF EnterLoop, At
    <2>3. UNCHANGED <<loopCall, call>>
      BY DEF EnterLoop
    <2>4. QED
      BY <2>1, <2>2, <2>3
  <1> HIDE DEF ph
  <1>3. /\ prod'[p].pc \in {"mark", "health"}
        /\ \A q \in Gen \ {p} : prod'[q] = prod[q]
        /\ pending \subseteq Gen /\ pending' \subseteq Gen
    BY <1>1, <1>2 DEF TypeInv, TypeOK
  <1>4. OneProducerChain'
    BY <1>1, <1>3 DEF ChainInv, OneProducerChain, Running
  <1>5. \A q \in Gen : (At(q, "asleep"))' => (q \in pending /\ loopCall = q)'
    BY <1>1, <1>3 DEF ChainInv, At
  <1>6. (\A q \in pending : At(q, "asleep"))'
    BY <1>1, <1>3 DEF ChainInv, At
  <1>7. (\A q \in Gen : At(q, "queued") => prod[q].on = "thread")'
    BY <1>1, <1>3 DEF ChainInv, At
  <1>8. (call.kind = "restart" => \A q \in Gen : ~Running(q))'
    BY <1>1, <1>3 DEF ChainInv, Running
  <1>9. QED
    BY <1>4, <1>5, <1>6, <1>7, <1>8 DEF ChainInv

LEMMA ScheduleChainInv ==
  ASSUME TypeInv, ChainInv, NEW p \in Gen, ScheduleNext(p)
  PROVE  ChainInv'
  <1>1. /\ prod[p].pc = "avail"
        /\ prod' = [prod EXCEPT ![p].pc = "asleep", ![p].on = "reactor"]
        /\ pending' = pending \cup {p} /\ loopCall' = p
        /\ UNCHANGED call
    BY DEF ScheduleNext, At
  <1>2. /\ prod'[p].pc = "asleep"
        /\ \A q \in Gen \ {p} : prod'[q] = prod[q]
        /\ pending \subseteq Gen
    BY <1>1 DEF TypeInv, TypeOK
  <1>3. \A q \in Gen \ {p} : ~Running(q)
    BY <1>1 DEF ChainInv, OneProducerChain, Running
  <1>4. pending = {}
    BY <1>1, <1>2, <1>3 DEF ChainInv, At, Running
  <1>5. OneProducerChain'
    BY <1>2, <1>3 DEF OneProducerChain, Running
  <1>6. \A q \in Gen : (At(q, "asleep"))' => (q \in pending /\ loopCall = q)'
    BY <1>1, <1>2, <1>3 DEF At, Running
  <1>7. (\A q \in pending : At(q, "asleep"))'
    BY <1>1, <1>2, <1>4 DEF At
  <1>8. (\A q \in Gen : At(q, "queued") => prod[q].on = "thread")'
    BY <1>2, <1>3 DEF At, Running
  <1>9. (call.kind = "restart" => \A q \in Gen : ~Running(q))'
    BY <1>1 DEF ChainInv, Running
  <1>10. QED
    BY <1>5, <1>6, <1>7, <1>8, <1>9 DEF ChainInv

\* stop_pool ends the chain that sleeps, if one does.
LEMMA StoppedChain ==
  ASSUME TypeInv, ChainInv, Stopped, ~CancelRaises
  PROVE  /\ OneProducerChain'
         /\ \A p \in Gen : ~At(p, "asleep")'
         /\ pending' = {}
         /\ \A p \in Gen : prod'[p] \in {prod[p], NoProducer}
  <1>1. \A p \in Gen : prod'[p] = IF p = loopCall THEN NoProducer ELSE prod[p]
    BY DEF Stopped
  <1>2. pending' = {}
    <2>1. \A p \in pending : p = loopCall
      BY DEF ChainInv, TypeInv, TypeOK
    <2>2. QED
      BY <2>1 DEF Stopped
  <1>3. NoProducer.pc = "none"
    BY ResetPhases
  <1>4. \A p \in Gen : ~At(p, "asleep")'
    BY <1>1, <1>3 DEF ChainInv, At
  <1>5. OneProducerChain'
    BY <1>1, <1>3 DEF ChainInv, OneProducerChain, Running
  <1>6. QED
    BY <1>1, <1>2, <1>4, <1>5

\* The reactor's own calls keep the chains apart.
LEMMA ReactorChainInv ==
  ASSUME Overlap => ~recycling, TypeInv, ChainInv,
         \/ RestartStop
         \/ \E p \in Gen : StartPool(p)
         \/ \E c \in Client, ip \in Ip : RefuseRequest(c, ip)
  PROVE  ChainInv'
  <1>1. CASE RestartStop
    <2>1. CASE CancelRaises
      <3>1. UNCHANGED <<pending, prod, call, loopCall>>
        BY <1>1, <2>1 DEF RestartStop, qemuVars
      <3>2. QED
        BY <3>1 DEF ChainInv, OneProducerChain, Running, At
    <2>2. CASE ~CancelRaises
      <3>1. Stopped /\ call' = [kind |-> "restart"] /\ loopCall' = loopCall
        BY <1>1, <2>2 DEF RestartStop
      <3>2. /\ OneProducerChain'
            /\ \A p \in Gen : ~At(p, "asleep")'
            /\ pending' = {}
            /\ \A p \in Gen : prod'[p] \in {prod[p], NoProducer}
        BY <2>2, <3>1, StoppedChain
      <3>3. \A p \in Gen : Running(p) => At(p, "asleep")
        <4>1. \A p \in Gen : prod[p].on = "reactor"
          BY <1>1 DEF RestartStop
        <4>2. \A p \in Gen : prod[p].pc \in {"none", "queued", "asleep", "dead"}
          BY <1>1, <4>1 DEF RestartStop, ReactorBusy
        <4>3. \A p \in Gen : prod[p].pc # "queued"
          BY <4>1 DEF ChainInv, At
        <4>4. QED
          BY <4>2, <4>3 DEF Running, At
      <3>4. \A p \in Gen : ~Running(p)'
        BY <3>2, <3>3, ResetPhases DEF Running, At
      <3>5. QED
        BY <3>1, <3>2, <3>4 DEF ChainInv, Running, At
    <2>3. QED
      BY <2>1, <2>2
  <1>2. ASSUME NEW p \in Gen, StartPool(p) PROVE ChainInv'
    <2>1. \A q \in Gen : ~Running(q)
      BY <1>2 DEF StartPool, ChainInv
    <2>2. /\ prod'[p] = Deferred
          /\ \A q \in Gen \ {p} : prod'[q] = prod[q]
          /\ pending' = pending /\ call' = Idle
      BY <1>2 DEF StartPool, TypeInv, TypeOK
    <2>3. pending = {}
      BY <2>1 DEF ChainInv, At, Running, TypeInv, TypeOK
    <2>4. \A q \in Gen : Running(q)' <=> q = p
      BY <2>1, <2>2, ResetPhases DEF Running
    <2>5. OneProducerChain'
      BY <2>4 DEF OneProducerChain
    <2>6. \A q \in Gen : At(q, "asleep")' => Running(q)' /\ ~(q = p)
      BY <2>2, ResetPhases DEF At, Running
    <2>7. \A q \in Gen : At(q, "queued")' => Running(q)'
      BY DEF At, Running
    <2>8. prod'[p].on = "thread" /\ call'.kind # "restart"
      BY <2>2, ResetPhases DEF Idle
    <2>9. QED
      BY <2>2, <2>3, <2>4, <2>5, <2>6, <2>7, <2>8 DEF ChainInv
  <1>3. ASSUME NEW c \in Client, NEW ip \in Ip, RefuseRequest(c, ip) PROVE ChainInv'
    <2>1. CASE anyUp /\ ~CancelRaises
      <3>1. Stopped /\ call' = call
        BY <1>3, <2>1 DEF RefuseRequest
      <3>2. /\ OneProducerChain'
            /\ \A p \in Gen : ~At(p, "asleep")'
            /\ pending' = {}
            /\ \A p \in Gen : prod'[p] \in {prod[p], NoProducer}
        BY <2>1, <3>1, StoppedChain
      <3>3. /\ (\A p \in Gen : At(p, "asleep") => p \in pending /\ loopCall = p)'
            /\ (\A p \in pending : At(p, "asleep"))'
        BY <3>2
      <3>4. (\A p \in Gen : At(p, "queued") => prod[p].on = "thread")'
        BY <3>2, ResetPhases DEF ChainInv, At
      <3>5. (call.kind = "restart" => \A p \in Gen : ~Running(p))'
        BY <3>1, <3>2, ResetPhases DEF ChainInv, Running
      <3>6. QED
        BY <3>2, <3>3, <3>4, <3>5 DEF ChainInv
    <2>2. CASE ~(anyUp /\ ~CancelRaises)
      <3>1. UNCHANGED <<pending, prod, call, loopCall>>
        BY <1>3, <2>2 DEF RefuseRequest
      <3>2. QED
        BY <3>1 DEF ChainInv, OneProducerChain, Running, At
    <2>3. QED
      BY <2>1, <2>2
  <1>4. QED
    BY <1>1, <1>2, <1>3

LEMMA NextChainInv ==
  ASSUME Overlap => ~recycling, TypeInv, ChainInv, [Next]_vars
  PROVE  ChainInv'
  <1>1. ASSUME NEW p \in Gen, ProducerStep(p) PROVE ChainInv'
    BY <1>1, EnterChainInv, ScheduleChainInv, ProducerInner, InnerChainInv
  <1>2. ASSUME UNCHANGED <<pending, prod, loopCall>>,
               call'.kind = "restart" => call.kind = "restart"
        PROVE  ChainInv'
    BY <1>2 DEF ChainInv, OneProducerChain, Running, At
  <1>3. ASSUME NEW new \in Configs, SetConfigs(new) PROVE ChainInv'
    BY <1>2, <1>3 DEF SetConfigs, loopVars
  <1>4. ASSUME NEW c \in Client, NEW ip \in Ip, SelectGuest(c, ip) PROVE ChainInv'
    BY <1>2, <1>4 DEF SelectGuest, loopVars
  <1>5. CASE GrantGuest
    BY <1>2, <1>5 DEF GrantGuest, loopVars, Idle
  <1>6. ASSUME NEW c \in Client, FreeVm(c) PROVE ChainInv'
    BY <1>2, <1>6 DEF FreeVm, Release, loopVars
  <1>7. ASSUME NEW c \in Client, ReuseVm(c) PROVE ChainInv'
    BY <1>2, <1>7 DEF ReuseVm, Release, loopVars
  <1>8. CASE UNCHANGED vars
    BY <1>2, <1>8 DEF vars
  <1>9. QED
    BY <1>1, <1>3, <1>4, <1>5, <1>6, <1>7, <1>8, ReactorChainInv DEF Next

LEMMA InitChainInv == ASSUME Init PROVE ChainInv
  <1>1. PICK p \in Gen : prod = [q \in Gen |-> IF q = p THEN Deferred ELSE NoProducer]
    BY DEF Init
  <1>2. pending = {} /\ call = Idle
    BY DEF Init
  <1>3. QED
    BY <1>1, <1>2 DEF ChainInv, OneProducerChain, Running, At, Deferred, NoProducer, Idle

\* No phase of an iteration touches the timer of the recycling.
LEMMA ProducerRecycling ==
  ASSUME NEW p \in Gen, ProducerStep(p)
  PROVE  recycling' = recycling
  BY DEF ProducerStep, EnterLoop, MarkTimedOut, CollectUnavailable, DestroyGuest, DestroyedAll,
         CheckHealth, RemoveDestroyed, CountMissing, BeginCreate, FinishCreate, FailCreate,
         CollectCreated, MarkAvailable, ScheduleNext, loopVars

LEMMA PoolChainTypeInv ==
  ASSUME ~Overlap
  PROVE  Spec => []ChainTypeInv
  <1>1. Init => ChainTypeInv
    BY InitTypeInv, InitChainInv DEF ChainTypeInv
  <1>2. ChainTypeInv /\ [Next]_vars => ChainTypeInv'
    BY NextTypeInv, NextChainInv DEF ChainTypeInv
  <1>3. QED
    BY <1>1, <1>2, PTL DEF Spec

\* The iteration of a pool at work that is not in the thread sleeps whenever
\* the reactor is free, as the call loop_next_call refers to, so that cancel()
\* does not raise and restart_pool goes on to start_pool; provided that no
\* earlier recycling came inside the first iteration of a pool.
THEOREM PoolRecyclingRestarts ==
  ASSUME ~Overlap
  PROVE  Spec => RecyclingRestarts
  <1> DEFINE Recycled == /\ recycling /\ ~recycling'
                         /\ Producing /\ \A p \in Gen : prod[p].on = "reactor"
                         => call'.kind = "restart"
  <1>1. ASSUME ChainTypeInv, [Next]_vars PROVE [Recycled]_vars
    <2> SUFFICES ASSUME Next, recycling, ~recycling', Producing,
                        \A p \in Gen : prod[p].on = "reactor"
                 PROVE  call'.kind = "restart"
      BY <1>1 DEF vars
    <2>1. RestartStop
      <3>1. ASSUME NEW p \in Gen PROVE ~ProducerStep(p)
        BY <3>1, ProducerRecycling
      <3>2. ASSUME NEW p \in Gen PROVE ~StartPool(p)
        BY <1>1 DEF StartPool, ChainTypeInv, ChainInv, Producing
      <3>3. \A new \in Configs : ~SetConfigs(new)
        BY DEF SetConfigs, loopVars
      <3>4. /\ \A c \in Client, ip \in Ip : ~SelectGuest(c, ip) /\ ~RefuseRequest(c, ip)
            /\ ~GrantGuest
        BY DEF SelectGuest, RefuseRequest, GrantGuest, loopVars
      <3>5. \A c \in Client : ~FreeVm(c) /\ ~ReuseVm(c)
        BY DEF FreeVm, ReuseVm, Release, loopVars
      <3>6. QED
        BY <3>1, <3>2, <3>3, <3>4, <3>5 DEF Next
    <2>2. PICK p \in Gen : Running(p)
      BY DEF Producing
    <2>3. prod[p].pc \in {"queued", "asleep"}
      BY <2>1, <2>2 DEF RestartStop, ReactorBusy, Running
    <2>4. At(p, "asleep")
      BY <1>1, <2>3 DEF ChainTypeInv, ChainInv, At
    <2>5. ~CancelRaises
      BY <1>1, <2>4 DEF ChainTypeInv, ChainInv, CancelRaises
    <2>6. QED
      BY <2>1, <2>5 DEF RestartStop
  <1>2. QED
    BY <1>1, PoolChainTypeInv, PTL DEF Spec, RecyclingRestarts

-----------------------------------------------------------------------------
(* Distinct addresses.                                                     *)

\* A step that leaves the list and every address alone, and begins no
\* create_guest, keeps the addresses apart.
SameIps ==
  /\ guests' = guests
  /\ \A d \in Dom : heap'[d].ip = heap[d].ip
  /\ \A p \in Gen : prod'[p].pc = "qemu" => prod'[p] = prod[p]

LEMMA SameIpsInv ==
  ASSUME TypeInv, IpInv, SameIps
  PROVE  IpInv'
  <1>1. /\ DOMAIN guests' = DOMAIN guests
        /\ \A i \in DOMAIN guests : guests[i] \in Dom
    BY DEF SameIps, TypeInv, TypeOK
  <1>2. GuestIpsDiffer'
    BY <1>1 DEF SameIps, IpInv, GuestIpsDiffer
  <1>3. Listed' = Listed /\ Listed \subseteq Dom
    BY <1>1 DEF Listed, SameIps
  <1>4. FreeIps' = FreeIps
    BY <1>3 DEF FreeIps, SameIps
  <1>5. (\A p \in Gen : At(p, "qemu") => prod[p].ip \in FreeIps)'
    BY <1>4 DEF SameIps, IpInv, At
  <1>6. QED
    BY <1>2, <1>5 DEF IpInv

\* What is written to a guest is never its address.
Touched(s) ==
  \A d \in Dom : heap'[d] \in {heap[d], [heap[d] EXCEPT !.state = s]}

LEMMA TouchedKeepsIps ==
  ASSUME TypeInv, NEW s, Touched(s)
  PROVE  \A d \in Dom : heap'[d].ip = heap[d].ip
  <1>1. ASSUME NEW d \in Dom PROVE heap'[d].ip = heap[d].ip
    <2>1. heap[d] \in Guest
      BY DEF TypeInv, TypeOK
    <2>2. [heap[d] EXCEPT !.state = s].ip = heap[d].ip
      BY <2>1 DEF Guest
    <2>3. QED
      BY <2>2 DEF Touched
  <1>2. QED
    BY <1>1

LEMMA GrantKeepsIp ==
  ASSUME NEW g \in Guest, NEW r, NEW s, NEW n, NEW S
  PROVE  [g EXCEPT !.prev = r, !.state = s, !.connected = n, !.ips = S].ip = g.ip
  BY DEF Guest

LEMMA ServingKeepsIp ==
  ASSUME NEW g \in Guest
  PROVE  Freed(g).ip = g.ip /\ Reverted(g).ip = g.ip
  BY DEF Guest, Freed, Reverted

LEMMA ProducerSameIps ==
  ASSUME TypeInv, NEW p \in Gen, ProducerStep(p),
         ~RemoveDestroyed(p), ~BeginCreate(p), ~FinishCreate(p)
  PROVE  SameIps
  <1> USE DEF TypeInv, TypeOK
  <1>1. ASSUME \A q \in Gen \ {p} : prod'[q] = prod[q],
               prod'[p].pc # "qemu", guests' = guests,
               \A d \in Dom : heap'[d].ip = heap[d].ip
        PROVE  SameIps
    BY <1>1 DEF SameIps
  <1>2. CASE EnterLoop(p)
    <2>1. PICK ph \in {"mark", "health"} : prod' = [prod EXCEPT ![p].pc = ph]
      BY <1>2 DEF EnterLoop, Goto
    <2>2. guests' = guests /\ heap' = heap
      BY <1>2 DEF EnterLoop, listVars
    <2>3. QED
      BY <1>1, <2>1, <2>2
  <1>3. CASE MarkTimedOut(p)
    <2>1. Touched("unavailable")
      BY <1>3 DEF MarkTimedOut, Touched
    <2>2. \A d \in Dom : heap'[d].ip = heap[d].ip
      BY <2>1, TouchedKeepsIps
    <2>3. /\ \A q \in Gen \ {p} : prod'[q] = prod[q]
          /\ prod'[p].pc = "collect" /\ guests' = guests
      BY <1>3 DEF MarkTimedOut, Goto, listVars
    <2>4. QED
      BY <1>1, <2>2, <2>3
  <1>4. CASE CollectUnavailable(p)
    <2>1. PICK S : prod' = [prod EXCEPT ![p].pc = "destroy", ![p].todo = S]
      BY <1>4 DEF CollectUnavailable
    <2>2. guests' = guests /\ heap' = heap
      BY <1>4 DEF CollectUnavailable, listVars
    <2>3. QED
      BY <1>1, <2>1, <2>2
  <1>5. ASSUME NEW d \in Dom, DestroyGuest(p, d) PROVE SameIps
    <2>1. Touched("destroyed")
      BY <1>5 DEF DestroyGuest, Touched
    <2>2. \A e \in Dom : heap'[e].ip = heap[e].ip
      BY <2>1, TouchedKeepsIps
    <2>3. \A q \in Gen \ {p} : prod'[q] = prod[q]
      BY <1>5 DEF DestroyGuest
    <2>4. prod'[p].pc = "destroy"
      BY <1>5 DEF DestroyGuest, At, Producer
    <2>5. guests' = guests
      BY <1>5 DEF DestroyGuest, listVars
    <2>6. QED
      BY <1>1, <2>2, <2>3, <2>4, <2>5
  <1>6. CASE DestroyedAll(p)
    BY <1>1, <1>6 DEF DestroyedAll, Goto, listVars
  <1>7. CASE CheckHealth(p)
    <2>1. Touched("unavailable")
      <3>1. PICK up \in SUBSET alive :
              heap' = [d \in Dom |->
                         IF /\ d \in InStates({"available", "using", "used"})
                            /\ ~HasConnectivity(heap[d].ip, up)
                         THEN [heap[d] EXCEPT !.state = "unavailable"]
                         ELSE heap[d]]
        BY <1>7 DEF CheckHealth
      <3>2. QED
        BY <3>1 DEF Touched
    <2>2. \A d \in Dom : heap'[d].ip = heap[d].ip
      BY <2>1, TouchedKeepsIps
    <2>3. /\ \A q \in Gen \ {p} : prod'[q] = prod[q]
          /\ prod'[p].pc = "remove" /\ guests' = guests
      BY <1>7 DEF CheckHealth, Goto, listVars
    <2>4. QED
      BY <1>1, <2>2, <2>3
  <1>8. CASE CountMissing(p)
    <2>1. PICK k : prod' = [prod EXCEPT ![p].pc = "create", ![p].n = k]
      BY <1>8 DEF CountMissing
    <2>2. guests' = guests /\ heap' = heap
      BY <1>8 DEF CountMissing, listVars
    <2>3. QED
      BY <1>1, <2>1, <2>2
  <1>9. CASE FailCreate(p)
    BY <1>1, <1>9, ResetPhases DEF FailCreate, Die, listVars
  <1>10. CASE CollectCreated(p)
    BY <1>1, <1>10 DEF CollectCreated, listVars
  <1>11. ASSUME NEW d \in Dom, MarkAvailable(p, d) PROVE SameIps
    <2>1. Touched("available")
      BY <1>11 DEF MarkAvailable, Touched
    <2>2. \A e \in Dom : heap'[e].ip = heap[e].ip
      BY <2>1, TouchedKeepsIps
    <2>3. \A q \in Gen \ {p} : prod'[q] = prod[q]
      BY <1>11 DEF MarkAvailable
    <2>4. prod'[p].pc = "avail"
      BY <1>11 DEF MarkAvailable, At, Producer
    <2>5. guests' = guests
      BY <1>11 DEF MarkAvailable
    <2>6. QED
      BY <1>1, <2>2, <2>3, <2>4, <2>5
  <1>12. CASE ScheduleNext(p)
    BY <1>1, <1>12 DEF ScheduleNext, listVars
  <1>13. QED
    BY <1>2, <1>3, <1>4, <1>5, <1>6, <1>7, <1>8, <1>9, <1>10, <1>11, <1>12
    DEF ProducerStep

\* The address create_guest begins with is free.
LEMMA BeginCreateIps ==
  ASSUME TypeInv, IpInv, NEW p \in Gen, BeginCreate(p)
  PROVE  IpInv'
  <1>1. guests' = guests /\ heap' = heap
    BY DEF BeginCreate, listVars
  <1>2. GuestIpsDiffer' /\ FreeIps' = FreeIps
    BY <1>1 DEF IpInv, GuestIpsDiffer, FreeIps, Listed
  <1>3. \A q \in Gen \ {p} : prod'[q] = prod[q]
    BY DEF BeginCreate, Die, TypeInv, TypeOK
  <1>4. prod'[p].pc = "qemu" => prod'[p].ip \in FreeIps
    <2>1. CASE ready /\ FreeIps # {}
      <3> DEFINE ip == CHOOSE i \in FreeIps : TRUE
      <3>1. ip \in FreeIps
        BY <2>1
      <3>2. prod' = [prod EXCEPT ![p].pc = "qemu", ![p].ip = ip]
        BY <2>1 DEF BeginCreate
      <3> HIDE DEF ip
      <3>3. QED
        BY <3>1, <3>2 DEF TypeInv, TypeOK, Producer
    <2>2. CASE ~(ready /\ FreeIps # {})
      <3>1. prod' = [prod EXCEPT ![p] = [NoProducer EXCEPT !.pc = "dead"]]
        BY <2>2 DEF BeginCreate, Die
      <3>2. QED
        BY <3>1, ResetPhases DEF TypeInv, TypeOK
    <2>3. QED
      BY <2>1, <2>2
  <1>5. QED
    BY <1>2, <1>3, <1>4 DEF IpInv, At

\* The append gives the new guest an address no other has.
LEMMA FinishCreateIps ==
  ASSUME TypeInv, ChainInv, IpInv, NEW p \in Gen, FinishCreate(p)
  PROVE  IpInv'
  <1> DEFINE d == NewDom
             n == Len(guests)
  <1>1. d \in Dom /\ d \notin Listed
    BY DEF FinishCreate, NewDom, Fresh
  <1>2. guests' = Append(guests, d)
    BY DEF FinishCreate
  <1>3. heap'[d].ip = prod[p].ip /\ \A e \in Dom \ {d} : heap'[e] = heap[e]
    <2>1. heap' = [heap EXCEPT ![d] = [Blank EXCEPT !.nr = made, !.state = "created",
                                                    !.ip = prod[p].ip]]
      BY DEF FinishCreate
    <2>2. [Blank EXCEPT !.nr = made, !.state = "created", !.ip = prod[p].ip].ip = prod[p].ip
      BY DEF Blank
    <2> HIDE DEF d
    <2>3. QED
      BY <1>1, <2>1, <2>2 DEF TypeInv, TypeOK
  <1>4. prod[p].ip \in FreeIps
    BY DEF FinishCreate, IpInv
  <1>5. \A q \in Gen : ~At(q, "qemu")'
    <2>1. \A q \in Gen \ {p} : prod'[q] = prod[q] /\ prod[q].pc # "qemu"
      BY DEF FinishCreate, ChainInv, OneProducerChain, Running, At, TypeInv, TypeOK
    <2>2. prod'[p].pc # "qemu"
      <3>1. prod' = [prod EXCEPT ![p].pc = "create", ![p].n = @ - 1, ![p].ip = "no ip"]
        BY DEF FinishCreate
      <3>2. "create" \in Phase
        BY DEF Phase
      <3>3. [prod EXCEPT ![p].pc = "create", ![p].n = @ - 1, ![p].ip = "no ip"][p].pc = "create"
        BY <3>2, CreatedMoves DEF TypeInv, TypeOK
      <3>4. QED
        BY <3>1, <3>3, Zenon
    <2>3. QED
      BY <2>1, <2>2 DEF At
  <1> HIDE DEF d
  <1>6. /\ n \in Nat /\ DOMAIN guests = 1 .. n /\ DOMAIN guests' = 1 .. n + 1
        /\ \A i \in 1 .. n : guests'[i] = guests[i] /\ guests[i] \in Listed /\ guests[i] \in Dom
        /\ guests'[n + 1] = d
    BY <1>1, <1>2 DEF Listed, TypeInv, TypeOK
  <1>7. \A i \in 1 .. n : heap'[guests'[i]].ip = heap[guests[i]].ip
    BY <1>1, <1>3, <1>6
  <1>8. \A i \in 1 .. n : heap'[guests'[i]].ip # heap'[guests'[n + 1]].ip
    BY <1>3, <1>4, <1>6, <1>7 DEF FreeIps
  <1>9. \A i, j \in 1 .. n : i # j => heap'[guests'[i]].ip # heap'[guests'[j]].ip
    BY <1>6, <1>7 DEF IpInv, GuestIpsDiffer
  <1>10. GuestIpsDiffer'
    BY <1>6, <1>8, <1>9 DEF GuestIpsDiffer
  <1>11. QED
    BY <1>5, <1>10 DEF IpInv

\* What RemoveAt leaves of a sequence.
LEMMA RemoveAtProperties ==
  ASSUME NEW S, NEW q \in Seq(S), NEW i \in 1 .. Len(q)
  PROVE  /\ RemoveAt(q, i) \in Seq(S)
         /\ Len(RemoveAt(q, i)) = Len(q) - 1
         /\ \A j \in 1 .. Len(q) - 1 :
              RemoveAt(q, i)[j] = q[IF j < i THEN j ELSE j + 1]
  <1> DEFINE s == SubSeq(q, 1, i - 1)
             t == SubSeq(q, i + 1, Len(q))
  <1>1. /\ s \in Seq(S) /\ Len(s) = i - 1
        /\ \A j \in 1 .. i - 1 : s[j] = q[j]
    <2>1. 1 \in Int /\ i - 1 \in Int /\ \A j \in 1 .. i - 1 : q[j] \in S
      OBVIOUS
    <2>2. QED
      BY <2>1, SubSeqProperties
  <1>2. /\ t \in Seq(S) /\ Len(t) = Len(q) - i
        /\ \A j \in 1 .. Len(q) - i : t[j] = q[i + j]
    <2>1. i + 1 \in Int /\ Len(q) \in Int /\ \A j \in i + 1 .. Len(q) : q[j] \in S
      OBVIOUS
    <2>2. QED
      BY <2>1, SubSeqProperties
  <1>3. RemoveAt(q, i) = s \o t
    BY DEF RemoveAt
  <1> HIDE DEF s, t
  <1>4. /\ s \o t \in Seq(S) /\ Len(s \o t) = Len(q) - 1
        /\ \A j \in 1 .. Len(q) - 1 :
             (s \o t)[j] = IF j <= i - 1 THEN s[j] ELSE t[j - (i - 1)]
    <2>1. /\ s \o t \in Seq(S) /\ Len(s \o t) = Len(s) + Len(t)
          /\ \A j \in 1 .. Len(s) + Len(t) :
               (s \o t)[j] = IF j <= Len(s) THEN s[j] ELSE t[j - Len(s)]
      BY <1>1, <1>2, ConcatProperties, Zenon
    <2>2. Len(s) + Len(t) = Len(q) - 1
      BY <1>1, <1>2
    <2>3. QED
      BY <1>1, <2>1, <2>2
  <1>5. ASSUME NEW j \in 1 .. Len(q) - 1
        PROVE  (s \o t)[j] = q[IF j < i THEN j ELSE j + 1]
    <2>1. CASE j < i
      BY <1>1, <1>4, <2>1
    <2>2. CASE ~(j < i)
      <3>1. /\ j - (i - 1) \in 1 .. Len(q) - i
            /\ i + (j - (i - 1)) = j + 1
            /\ ~(j <= i - 1)
        BY <2>2
      <3>2. t[j - (i - 1)] = q[j + 1]
        BY <1>2, <3>1
      <3>3. QED
        BY <1>4, <2>2, <3>1, <3>2
    <2>3. QED
      BY <2>1, <2>2
  <1>6. QED
    BY <1>3, <1>4, <1>5

\* Removing a guest removes it once, and forgets no guest that stays.
LEMMA RemoveDestroyedIps ==
  ASSUME TypeInv, ChainInv, IpInv, NEW p \in Gen, RemoveDestroyed(p)
  PROVE  IpInv'
  <1> DEFINE n == Len(guests)
  <1>1. PICK i \in DOMAIN guests :
          /\ guests' = RemoveAt(guests, i)
          /\ heap' = IF guests[i] \in alive THEN heap
                     ELSE [heap EXCEPT ![guests[i]] = Blank]
    BY DEF RemoveDestroyed
  <1>2. n \in Nat /\ DOMAIN guests = 1 .. n /\ i \in 1 .. n
        /\ \A j \in 1 .. n : guests[j] \in Dom
    BY DEF TypeInv, TypeOK
  <1> DEFINE at(j) == IF j < i THEN j ELSE j + 1
  <1>3. DOMAIN guests' = 1 .. n - 1 /\ \A j \in 1 .. n - 1 : guests'[j] = guests[at(j)]
    <2>1. guests \in Seq(Dom)
      BY DEF TypeInv, TypeOK
    <2>2. /\ RemoveAt(guests, i) \in Seq(Dom)
          /\ Len(RemoveAt(guests, i)) = n - 1
          /\ \A j \in 1 .. n - 1 : RemoveAt(guests, i)[j] = guests[at(j)]
      BY <1>2, <2>1, RemoveAtProperties
    <2> HIDE DEF at
    <2>3. QED
      BY <1>1, <1>2, <2>2
  <1>4. \A j, k \in 1 .. n - 1 : /\ at(j) \in 1 .. n /\ at(j) # i
                                 /\ j # k => at(j) # at(k)
    BY <1>2
  <1>5. \A j \in 1 .. n : j # i => guests[j] # guests[i]
    BY <1>2 DEF IpInv, GuestIpsDiffer
  <1> HIDE DEF at
  <1>6. \A j \in 1 .. n - 1 : heap'[guests'[j]] = heap[guests[at(j)]]
    BY <1>1, <1>2, <1>3, <1>4, <1>5 DEF TypeInv, TypeOK
  <1>7. GuestIpsDiffer'
    BY <1>2, <1>3, <1>4, <1>6 DEF IpInv, GuestIpsDiffer
  <1>8. \A q \in Gen : ~At(q, "qemu")'
    BY DEF RemoveDestroyed, ChainInv, OneProducerChain, Running, At
  <1>9. QED
    BY <1>7, <1>8 DEF IpInv

\* Nothing the reactor does gives two guests one address.
LEMMA ReactorIps ==
  ASSUME TypeInv, ChainInv, IpInv,
         \/ RestartStop
         \/ \E p \in Gen : StartPool(p)
         \/ \E new \in Configs : SetConfigs(new)
         \/ \E c \in Client, ip \in Ip : SelectGuest(c, ip)
         \/ GrantGuest
         \/ \E c \in Client, ip \in Ip : RefuseRequest(c, ip)
         \/ \E c \in Client : FreeVm(c)
         \/ \E c \in Client : ReuseVm(c)
  PROVE  IpInv'
  <1> USE DEF TypeInv, TypeOK
  <1>1. ASSUME guests' = guests, heap' = heap,
               \A q \in Gen : prod'[q] \in {prod[q], NoProducer}
        PROVE  IpInv'
    BY <1>1, SameIpsInv, ResetPhases DEF SameIps
  <1>2. Stopped => \A q \in Gen : prod'[q] \in {prod[q], NoProducer}
    BY DEF Stopped
  <1>3. CASE RestartStop
    BY <1>1, <1>2, <1>3 DEF RestartStop, listVars
  <1>4. ASSUME NEW p \in Gen, StartPool(p) PROVE IpInv'
    <2>1. guests' = <<>>
      BY <1>4 DEF StartPool
    <2>2. \A q \in Gen : prod'[q].pc # "qemu"
      BY <1>4, ResetPhases DEF StartPool, ChainInv, Running
    <2>3. QED
      BY <2>1, <2>2 DEF IpInv, GuestIpsDiffer, At
  <1>5. ASSUME NEW new \in Configs, SetConfigs(new) PROVE IpInv'
    BY <1>1, <1>5 DEF SetConfigs, listVars
  <1>6. ASSUME NEW c \in Client, NEW ip \in Ip, SelectGuest(c, ip) PROVE IpInv'
    BY <1>1, <1>6 DEF SelectGuest, listVars
  <1>7. CASE GrantGuest
    <2> DEFINE g == heap[call.d]
    <2>1. call.d \in Dom /\ g \in Guest
      BY <1>7 DEF GrantGuest, Call
    <2>2. PICK r, s, n, S : heap' = [heap EXCEPT ![call.d] =
                              [g EXCEPT !.prev = r, !.state = s, !.connected = n, !.ips = S]]
      BY <1>7 DEF GrantGuest
    <2> HIDE DEF g
    <2>3. [g EXCEPT !.prev = r, !.state = s, !.connected = n, !.ips = S].ip = g.ip
      BY <2>1, GrantKeepsIp
    <2>4. \A d \in Dom : heap'[d].ip = heap[d].ip
      BY <2>1, <2>2, <2>3 DEF g
    <2>5. guests' = guests /\ prod' = prod
      BY <1>7 DEF GrantGuest, listVars
    <2>6. QED
      BY <2>4, <2>5, SameIpsInv DEF SameIps
  <1>8. ASSUME NEW c \in Client, NEW ip \in Ip, RefuseRequest(c, ip) PROVE IpInv'
    BY <1>1, <1>2, <1>8 DEF RefuseRequest, listVars
  <1>9. ASSUME NEW c \in Client, FreeVm(c) \/ ReuseVm(c) PROVE IpInv'
    <2>1. \/ heap' = heap
          \/ \E i \in DOMAIN guests : heap' = [heap EXCEPT ![guests[i]] = Freed(heap[guests[i]])]
          \/ \E i \in DOMAIN guests : heap' = [heap EXCEPT ![guests[i]] = Reverted(heap[guests[i]])]
      BY <1>9 DEF FreeVm, ReuseVm, Release
    <2>2. \A d \in Dom : heap'[d].ip = heap[d].ip
      BY <2>1, ServingKeepsIp
    <2>3. guests' = guests /\ prod' = prod
      BY <1>9 DEF FreeVm, ReuseVm, Release, listVars
    <2>4. QED
      BY <2>2, <2>3, SameIpsInv DEF SameIps
  <1>10. QED
    BY <1>3, <1>4, <1>5, <1>6, <1>7, <1>8, <1>9

PoolInv == ChainTypeInv /\ IpInv

LEMMA InitPoolInv == ASSUME Init PROVE PoolInv
<1>1. IpInv
  BY ResetPhases DEF Init, IpInv, GuestIpsDiffer, At
<1> QED
  BY <1>1, InitTypeInv, InitChainInv DEF PoolInv, ChainTypeInv

LEMMA NextPoolInv ==
  ASSUME Overlap => ~recycling, PoolInv, [Next]_vars
  PROVE  PoolInv'
<1>1. ChainTypeInv'
  BY NextTypeInv, NextChainInv DEF PoolInv, ChainTypeInv
<1>2. ASSUME NEW p \in Gen, ProducerStep(p) PROVE IpInv'
  BY <1>2, ProducerSameIps, SameIpsInv, RemoveDestroyedIps, BeginCreateIps,
     FinishCreateIps DEF PoolInv, ChainTypeInv
<1>3. ASSUME UNCHANGED vars PROVE IpInv'
  <2>1. guests' = guests /\ heap' = heap /\ prod' = prod
    BY <1>3 DEF vars
  <2>2. SameIps
    BY <2>1 DEF SameIps
  <2> QED
    BY <2>2, SameIpsInv DEF PoolInv, ChainTypeInv
<1>4. IpInv'
  BY <1>2, <1>3, ReactorIps DEF Next, PoolInv, ChainTypeInv
<1> QED
  BY <1>1, <1>4 DEF PoolInv

\* Two guests of the pool never have the same address, provided the recycle
\* period is longer than the first iteration of a pool: is_ip_free needs no
\* lock because there is one chain of iterations.
THEOREM PoolGuestIpsDiffer ==
  ASSUME ~Overlap
  PROVE  Spec => []GuestIpsDiffer
<1>1. Init => PoolInv
  BY InitPoolInv
<1>2. PoolInv /\ [Next]_vars => PoolInv'
  BY NextPoolInv
<1>3. PoolInv => GuestIpsDiffer
  BY DEF PoolInv, IpInv
<1> QED
  BY <1>1, <1>2, <1>3, PTL DEF Spec
-----------------------------------------------------------------------------
(* What the clients of the pool may rely on.                               *)


\* The phases of an iteration before its first create_guest.
Early == {"queued", "mark", "collect", "destroy", "health", "remove"}

\* What a phase of p may do, other than to remove a guest or to append one.
Quiet(p) ==
  /\ UNCHANGED <<guests, made, lease, call, conf, recycling>>
  /\ \A q \in Gen \ {p} : prod'[q] = prod[q]
  /\ prod[p].pc = "asleep" => ~ReactorBusy
  /\ prod'[p].pc \in Early =>
       prod'[p].on = prod[p].on /\ prod[p].pc \in Early \cup {"asleep"}
  /\ prod'[p].pc = "asleep" => prod'[p].on = "reactor"
  /\ prod'[p].pc \in {"create", "qemu"} =>
       \/ /\ prod[p].pc = "create" /\ prod'[p].n = prod[p].n
          /\ prod'[p].pc = "qemu" => prod[p].n > 0 /\ made < MakeBound
       \/ /\ prod[p].pc = "remove" /\ prod'[p].pc = "create"
          /\ prod'[p].n = conf.max - PoolSize /\ InStates({"destroyed"}) = {}
  /\ prod'[p].pc = "avail" =>
       \/ prod[p].pc = "avail" /\ prod'[p].todo \subseteq prod[p].todo
       \/ prod'[p].todo = InStates({"created"}) /\ heap' = heap
  /\ \A d \in Dom :
       \/ heap'[d] = heap[d]
       \/ /\ prod[p].pc \in Early
          /\ \E s \in {"unavailable", "destroyed"} : heap'[d] = [heap[d] EXCEPT !.state = s]
       \/ /\ prod[p].pc = "avail" /\ d \in prod[p].todo \ prod'[p].todo
          /\ heap'[d] = [heap[d] EXCEPT !.state = "available"]

\* What the type of the variables says of their parts.
LEMMA PoolParts ==
  ASSUME TypeInv
  PROVE  /\ Listed \subseteq Dom
         /\ Len(guests) \in Nat
         /\ made \in Nat /\ MakeBound \in Nat /\ IdWrap \in Nat
         /\ \A q \in Gen : prod[q].n \in Int
         /\ \A d \in Dom : /\ heap[d] \in Guest /\ heap[d].nr \in Nat
                           /\ heap[d].connected \in Int
         /\ \A c \in Client : lease[c].held => lease[c].nr \in Nat /\ lease[c].d \in Dom
<1> USE DEF TypeInv, TypeOK
<1>1. Listed \subseteq Dom /\ Len(guests) \in Nat
  <2>1. guests \in Seq(Dom)
    OBVIOUS
  <2> HIDE DEF TypeInv
  <2>2. \A i \in DOMAIN guests : guests[i] \in Dom
    BY <2>1
  <2> QED
    BY <2>1, <2>2 DEF Listed
<1>2. made \in Nat /\ MakeBound \in Nat /\ IdWrap \in Nat
  BY PoolAssumption
<1>3. ASSUME NEW q \in Gen PROVE prod[q].n \in Int
  <2>1. prod[q] \in Producer
    OBVIOUS
  <2> QED
    BY <2>1 DEF Producer
<1>4. ASSUME NEW d \in Dom
      PROVE  heap[d] \in Guest /\ heap[d].nr \in Nat /\ heap[d].connected \in Int
  <2>1. heap[d] \in Guest
    OBVIOUS
  <2> QED
    BY <2>1 DEF Guest
<1>5. ASSUME NEW c \in Client, lease[c].held PROVE lease[c].nr \in Nat /\ lease[c].d \in Dom
  <2>1. lease[c] \in Lease
    OBVIOUS
  <2>2. NoLease.held = FALSE
    BY DEF NoLease
  <2>3. lease[c] # NoLease
    BY <1>5, <2>2
  <2> QED
    BY <1>5, <2>1, StaleLease
<1> QED
  BY <1>1, <1>2, <1>3, <1>4, <1>5

LEMMA StateOnly ==
  ASSUME NEW g \in Guest, NEW s
  PROVE  LET h == [g EXCEPT !.state = s]
         IN  h.state = s /\ h.nr = g.nr /\ h.connected = g.connected
  BY DEF Guest

\* The fields of a chain that moves on.
LEMMA ChainFields ==
  ASSUME NEW f \in [Gen -> Producer], NEW p \in Gen
  PROVE  /\ \A ph : LET g == [f EXCEPT ![p].pc = ph][p]
                    IN  g.pc = ph /\ g.on = f[p].on /\ g.todo = f[p].todo /\ g.n = f[p].n
         /\ \A ph, S : LET g == [f EXCEPT ![p].pc = ph, ![p].todo = S][p]
                       IN  g.pc = ph /\ g.todo = S /\ g.on = f[p].on /\ g.n = f[p].n
         /\ \A S : LET g == [f EXCEPT ![p].todo = S][p]
                   IN  g.pc = f[p].pc /\ g.todo = S /\ g.on = f[p].on /\ g.n = f[p].n
         /\ \A ph, k : LET g == [f EXCEPT ![p].pc = ph, ![p].n = k][p]
                       IN  g.pc = ph /\ g.n = k
         /\ \A ph, a : LET g == [f EXCEPT ![p].pc = ph, ![p].ip = a][p]
                       IN  g.pc = ph /\ g.n = f[p].n
         /\ \A ph, t : LET g == [f EXCEPT ![p].pc = ph, ![p].on = t][p]
                       IN  g.pc = ph /\ g.on = t
  BY DEF Producer

\* [f EXCEPT ...] in three fields, as CollectCreated writes it.
LEMMA ChainFieldsCollected ==
  ASSUME NEW f \in [Gen -> Producer], NEW p \in Gen, NEW S
  PROVE  LET g == [f EXCEPT ![p].pc = "avail", ![p].n = 0, ![p].todo = S][p]
         IN  g.pc = "avail" /\ g.todo = S
  BY DEF Producer

\* All phases but two are quiet.
LEMMA ProducerQuiet ==
  ASSUME TypeInv, ChainInv, NEW p \in Gen, ProducerStep(p),
         ~RemoveDestroyed(p), ~FinishCreate(p)
  PROVE  Quiet(p)
<1>0. prod \in [Gen -> Producer]
  BY DEF TypeInv, TypeOK
<1> USE <1>0, ChainFields DEF At, Early
<1>1. CASE EnterLoop(p)
  <2>1. PICK ph \in {"mark", "health"} : prod' = [prod EXCEPT ![p].pc = ph]
    BY <1>1 DEF EnterLoop, Goto
  <2>2. /\ UNCHANGED <<guests, made, lease, call, conf, recycling, heap>>
        /\ prod[p].pc = "queued" \/ (prod[p].pc = "asleep" /\ ~ReactorBusy)
    BY <1>1 DEF EnterLoop, listVars
  <2>3. \A q \in Gen \ {p} : prod'[q] = prod[q]
    BY <2>1
  <2>4. prod'[p].pc = ph /\ prod'[p].on = prod[p].on
    BY <2>1
  <2> QED
    BY <2>2, <2>3, <2>4 DEF Quiet
<1>2. CASE MarkTimedOut(p)
  <2>1. PICK S \in SUBSET InStates({"used"}) :
          heap' = [d \in Dom |-> IF d \in S THEN [heap[d] EXCEPT !.state = "unavailable"]
                                 ELSE heap[d]]
    BY <1>2 DEF MarkTimedOut
  <2>2. /\ UNCHANGED <<guests, made, lease, call, conf, recycling>>
        /\ prod[p].pc = "mark" /\ prod' = [prod EXCEPT ![p].pc = "collect"]
    BY <1>2 DEF MarkTimedOut, Goto, listVars, loopVars
  <2>3. \A q \in Gen \ {p} : prod'[q] = prod[q]
    BY <2>2
  <2>4. prod'[p].pc = "collect" /\ prod'[p].on = prod[p].on
    BY <2>2
  <2> QED
    BY <2>1, <2>2, <2>3, <2>4 DEF Quiet
<1>3. CASE CollectUnavailable(p)
  <2>1. PICK S : prod' = [prod EXCEPT ![p].pc = "destroy", ![p].todo = S]
    BY <1>3 DEF CollectUnavailable
  <2>2. /\ UNCHANGED <<guests, made, lease, call, conf, recycling, heap>>
        /\ prod[p].pc = "collect"
    BY <1>3 DEF CollectUnavailable, listVars, loopVars
  <2>3. \A q \in Gen \ {p} : prod'[q] = prod[q]
    BY <2>1
  <2>4. prod'[p].pc = "destroy" /\ prod'[p].on = prod[p].on
    BY <2>1
  <2> QED
    BY <2>2, <2>3, <2>4 DEF Quiet
<1>4. ASSUME NEW d \in Dom, DestroyGuest(p, d) PROVE Quiet(p)
  <2>1. PICK S : prod' = [prod EXCEPT ![p].todo = S]
    BY <1>4 DEF DestroyGuest
  <2>2. /\ UNCHANGED <<guests, made, lease, call, conf, recycling>>
        /\ prod[p].pc = "destroy" /\ heap' = [heap EXCEPT ![d].state = "destroyed"]
    BY <1>4 DEF DestroyGuest, listVars, loopVars
  <2>3. \A q \in Gen \ {p} : prod'[q] = prod[q]
    BY <2>1
  <2>4. prod'[p].pc = "destroy" /\ prod'[p].on = prod[p].on
    BY <2>1, <2>2
  <2>5. \A e \in Dom : heap'[e] \in {heap[e], [heap[e] EXCEPT !.state = "destroyed"]}
    BY <2>2 DEF TypeInv, TypeOK
  <2> QED
    BY <2>2, <2>3, <2>4, <2>5 DEF Quiet
<1>5. CASE DestroyedAll(p)
  <2>1. /\ prod' = [prod EXCEPT ![p].pc = "health"] /\ prod[p].pc = "destroy"
        /\ UNCHANGED <<guests, made, lease, call, conf, recycling, heap>>
    BY <1>5 DEF DestroyedAll, Goto, listVars, loopVars
  <2>2. \A q \in Gen \ {p} : prod'[q] = prod[q]
    BY <2>1
  <2>3. prod'[p].pc = "health" /\ prod'[p].on = prod[p].on
    BY <2>1
  <2> QED
    BY <2>1, <2>2, <2>3 DEF Quiet
<1>6. CASE CheckHealth(p)
  <2>1. PICK up \in SUBSET alive :
          heap' = [d \in Dom |->
                     IF /\ d \in InStates({"available", "using", "used"})
                        /\ ~HasConnectivity(heap[d].ip, up)
                     THEN [heap[d] EXCEPT !.state = "unavailable"]
                     ELSE heap[d]]
    BY <1>6 DEF CheckHealth
  <2>2. /\ UNCHANGED <<guests, made, lease, call, conf, recycling>>
        /\ prod[p].pc = "health" /\ prod' = [prod EXCEPT ![p].pc = "remove"]
    BY <1>6 DEF CheckHealth, Goto, listVars, loopVars
  <2>3. \A q \in Gen \ {p} : prod'[q] = prod[q]
    BY <2>2
  <2>4. prod'[p].pc = "remove" /\ prod'[p].on = prod[p].on
    BY <2>2
  <2>5. \A e \in Dom : heap'[e] \in {heap[e], [heap[e] EXCEPT !.state = "unavailable"]}
    BY <2>1
  <2> QED
    BY <2>2, <2>3, <2>4, <2>5 DEF Quiet
<1>7. CASE CountMissing(p)
  <2>1. /\ prod' = [prod EXCEPT ![p].pc = "create", ![p].n = conf.max - PoolSize]
        /\ UNCHANGED <<guests, made, lease, call, conf, recycling, heap>>
        /\ prod[p].pc = "remove" /\ InStates({"destroyed"}) = {}
    BY <1>7 DEF CountMissing, listVars, loopVars
  <2>2. \A q \in Gen \ {p} : prod'[q] = prod[q]
    BY <2>1
  <2> DEFINE k == conf.max - PoolSize
  <2>3. prod'[p].pc = "create" /\ prod'[p].n = k
    <3>1. prod' = [prod EXCEPT ![p].pc = "create", ![p].n = k]
      BY <2>1
    <3> HIDE DEF k
    <3> QED
      BY <3>1
  <2> QED
    BY <2>1, <2>2, <2>3 DEF Quiet
<1>8. CASE BeginCreate(p)
  <2>1. /\ UNCHANGED <<guests, made, lease, call, conf, recycling, heap>>
        /\ prod[p].pc = "create" /\ prod[p].n > 0 /\ made < MakeBound
    BY <1>8 DEF BeginCreate, listVars, loopVars
  <2>2. CASE ready /\ FreeIps # {}
    <3>1. PICK k : prod' = [prod EXCEPT ![p].pc = "qemu", ![p].ip = k]
      BY <1>8, <2>2 DEF BeginCreate
    <3>2. \A q \in Gen \ {p} : prod'[q] = prod[q]
      BY <3>1
    <3>3. prod'[p].pc = "qemu" /\ prod'[p].n = prod[p].n
      BY <3>1
    <3> QED
      BY <2>1, <3>2, <3>3 DEF Quiet
  <2>3. CASE ~(ready /\ FreeIps # {})
    <3>1. prod' = [prod EXCEPT ![p] = [NoProducer EXCEPT !.pc = "dead"]]
      BY <1>8, <2>3 DEF BeginCreate, Die
    <3>2. prod'[p].pc = "dead" /\ \A q \in Gen \ {p} : prod'[q] = prod[q]
      BY <3>1, ResetPhases
    <3> QED
      BY <2>1, <3>2 DEF Quiet
  <2> QED
    BY <2>2, <2>3
<1>9. CASE FailCreate(p)
  <2>1. /\ UNCHANGED <<guests, made, lease, call, conf, recycling, heap>>
        /\ prod[p].pc = "qemu"
        /\ prod' = [prod EXCEPT ![p] = [NoProducer EXCEPT !.pc = "dead"]]
    BY <1>9 DEF FailCreate, Die, listVars, loopVars
  <2>2. prod'[p].pc = "dead" /\ \A q \in Gen \ {p} : prod'[q] = prod[q]
    BY <2>1, ResetPhases
  <2> QED
    BY <2>1, <2>2 DEF Quiet
<1>10. CASE CollectCreated(p)
  <2> DEFINE S == InStates({"created"})
  <2>1. /\ prod' = [prod EXCEPT ![p].pc = "avail", ![p].n = 0, ![p].todo = S]
        /\ UNCHANGED <<guests, made, lease, call, conf, recycling, heap>>
        /\ prod[p].pc = "create"
    BY <1>10 DEF CollectCreated, listVars, loopVars
  <2> HIDE DEF S
  <2>2. \A q \in Gen \ {p} : prod'[q] = prod[q]
    BY <2>1
  <2>3. prod'[p].pc = "avail" /\ prod'[p].todo = S
    BY <2>1, ChainFieldsCollected
  <2> QED
    BY <2>1, <2>2, <2>3 DEF Quiet, S
<1>11. ASSUME NEW d \in Dom, MarkAvailable(p, d) PROVE Quiet(p)
  <2>1. /\ prod' = [prod EXCEPT ![p].todo = prod[p].todo \ {d}]
        /\ prod[p].pc = "avail" /\ d \in prod[p].todo
        /\ UNCHANGED <<guests, made, lease, call, conf, recycling>>
        /\ heap' = heap \/ heap' = [heap EXCEPT ![d].state = "available"]
    BY <1>11 DEF MarkAvailable, listVars, loopVars
  <2>2. \A q \in Gen \ {p} : prod'[q] = prod[q]
    BY <2>1
  <2>3. prod'[p].pc = "avail" /\ prod'[p].todo = prod[p].todo \ {d}
    BY <2>1
  <2>4. /\ \A e \in Dom \ {d} : heap'[e] = heap[e]
        /\ heap'[d] \in {heap[d], [heap[d] EXCEPT !.state = "available"]}
    BY <2>1 DEF TypeInv, TypeOK
  <2>5. d \in prod[p].todo \ prod'[p].todo
    BY <2>1, <2>3
  <2> QED
    BY <2>1, <2>2, <2>3, <2>4, <2>5 DEF Quiet
<1>12. CASE ScheduleNext(p)
  <2>1. /\ prod' = [prod EXCEPT ![p].pc = "asleep", ![p].on = "reactor"]
        /\ prod[p].pc = "avail"
        /\ UNCHANGED <<guests, made, lease, call, conf, recycling, heap>>
    BY <1>12 DEF ScheduleNext, listVars
  <2>2. \A q \in Gen \ {p} : prod'[q] = prod[q]
    BY <2>1
  <2>3. prod'[p].pc = "asleep" /\ prod'[p].on = "reactor"
    BY <2>1
  <2> QED
    BY <2>1, <2>2, <2>3 DEF Quiet
<1> QED
  BY <1>1, <1>2, <1>3, <1>4, <1>5, <1>6, <1>7, <1>8, <1>9, <1>10, <1>11, <1>12
  DEF ProducerStep

-----------------------------------------------------------------------------
(* The inductive invariants.                                               *)

\* The first iteration of a pool, the only one that runs beside the reactor,
\* finds an empty list, so that none of its phases before the first
\* create_guest can take a chosen guest away.
ChoiceInv ==
  /\ \A p \in Gen : prod[p].on = "thread" /\ prod[p].pc \in Early => guests = <<>>
  /\ \A p \in Gen : At(p, "asleep") => prod[p].on = "reactor"
  /\ call.kind = "request" => \A p \in Gen : prod[p].pc \notin Early
  /\ ChosenGuestStaysUsable

\* to_create is what was missing when it was computed.
CountInv ==
  /\ conf \in Configs \cup {DefaultConfig}
  /\ PoolBounded
  /\ \A p \in Gen : prod[p].pc \in {"create", "qemu"} =>
       \/ prod[p].pc = "create" /\ prod[p].n <= 0
       \/ \E cf \in Configs \cup {DefaultConfig} : Len(guests) + prod[p].n <= cf.max
  /\ \A p \in Gen : At(p, "qemu") => prod[p].n > 0

\* A count below made is that of one guest at most, and what a client of this
\* pool was given is that of its guest, if it is any's.
NumbersInv ==
  /\ \A d \in Listed : heap[d].nr < made
  /\ \A d, e \in Listed : heap[d].nr = heap[e].nr => d = e
  /\ \A c \in Client : lease[c].held /\ ~lease[c].stale =>
       /\ lease[c].nr < made
       /\ \A d \in Listed : heap[d].nr = lease[c].nr <=> d = lease[c].d

\* A pool that was never recycled.
FirstPool ==
  /\ recycling = FALSE /\ call.kind # "restart"
  /\ made <= MakeBound
  /\ \A p \in Gen : At(p, "qemu") => made < MakeBound
  /\ \A c \in Client : lease[c].held => ~lease[c].stale

\* The counter of a guest and its clients go together; and a guest that is
\* about to become available was never served.
HoldersInv ==
  /\ HoldersAreCounted
  /\ \A d \in Listed : IsFiniteSet(Holders(d))
  /\ call.kind = "request" => ~lease[call.c].held
  /\ \A p \in Gen : At(p, "avail") =>
       \A d \in prod[p].todo : d \in Listed /\ heap[d].state = "created"

-----------------------------------------------------------------------------
(* The two phases that change the list.                                    *)

LEMMA ModSmall ==
  ASSUME NEW a \in Nat, NEW b \in Nat \ {0}, a < b
  PROVE  a % b = a
  OBVIOUS

LEMMA AppendedGuest ==
  ASSUME TypeInv, NEW p \in Gen, FinishCreate(p)
  PROVE  /\ NewDom \in Dom \ Listed
         /\ \A c \in Client : lease[c].held => lease[c].d # NewDom
         /\ call.kind = "request" => call.d # NewDom
         /\ Listed' = Listed \cup {NewDom} /\ Len(guests') = Len(guests) + 1
         /\ heap'[NewDom].nr = made /\ heap'[NewDom].state = "created"
         /\ heap'[NewDom].connected = 0
         /\ \A d \in Dom \ {NewDom} : heap'[d] = heap[d]
         /\ made' = made + 1
         /\ UNCHANGED <<lease, call, conf, recycling>>
         /\ \A q \in Gen \ {p} : prod'[q] = prod[q]
         /\ prod[p].pc = "qemu" /\ prod'[p].pc = "create"
         /\ prod'[p].n = prod[p].n - 1 /\ prod'[p].on = prod[p].on
<1> DEFINE d == NewDom
<1>1. /\ d \in Dom /\ d \notin Listed
      /\ \A c \in Client : lease[c].held => lease[c].d # d
      /\ call.kind = "request" => call.d # d
  BY DEF FinishCreate, NewDom, Fresh
<1>2. /\ guests' = Append(guests, d) /\ made' = made + 1
      /\ UNCHANGED <<lease, call, conf, recycling>> /\ prod[p].pc = "qemu"
      /\ heap' = [heap EXCEPT ![d] = [Blank EXCEPT !.nr = made, !.state = "created",
                                                   !.ip = prod[p].ip]]
  BY DEF FinishCreate, loopVars, At
<1>3. prod' = [prod EXCEPT ![p].pc = "create", ![p].n = @ - 1, ![p].ip = "no ip"]
  BY DEF FinishCreate
<1> HIDE DEF d
<1>4. prod \in [Gen -> Producer] /\ heap \in [Dom -> Guest] /\ guests \in Seq(Dom)
      /\ made \in Nat
  BY DEF TypeInv, TypeOK
<1>5. Listed' = Listed \cup {d} /\ Len(guests') = Len(guests) + 1
  <2>1. /\ Len(guests) \in Nat /\ DOMAIN guests = 1 .. Len(guests)
        /\ Len(guests') = Len(guests) + 1 /\ DOMAIN guests' = 1 .. Len(guests) + 1
        /\ \A i \in 1 .. Len(guests) : guests'[i] = guests[i]
        /\ guests'[Len(guests) + 1] = d
    BY <1>1, <1>2, <1>4
  <2>2. Listed' = {guests'[i] : i \in 1 .. Len(guests) + 1}
    BY <2>1 DEF Listed
  <2>3. \A e \in Listed' : e \in Listed \cup {d}
    BY <2>1, <2>2 DEF Listed
  <2>4. \A e \in Listed \cup {d} : e \in Listed'
    BY <2>1, <2>2 DEF Listed
  <2> QED
    BY <2>1, <2>3, <2>4
<1>6. /\ heap'[d].nr = made /\ heap'[d].state = "created" /\ heap'[d].connected = 0
      /\ \A e \in Dom \ {d} : heap'[e] = heap[e]
  BY <1>1, <1>2, <1>4 DEF Blank
<1>8. \A q \in Gen \ {p} : prod'[q] = prod[q]
  BY <1>3, <1>4
<1>9. prod'[p].pc = "create" /\ prod'[p].n = prod[p].n - 1 /\ prod'[p].on = prod[p].on
  BY <1>3, <1>4 DEF Producer
<1> QED
  BY <1>1, <1>2, <1>5, <1>6, <1>8, <1>9 DEF d

LEMMA RemovedGuest ==
  ASSUME TypeInv, IpInv, NEW p \in Gen, RemoveDestroyed(p)
  PROVE  /\ prod[p].pc = "remove"
         /\ UNCHANGED <<made, lease, call, conf, recycling, prod>>
         /\ Len(guests') = Len(guests) - 1 /\ guests # <<>>
         /\ \E d \in Listed : /\ heap[d].state = "destroyed"
                              /\ Listed' = Listed \ {d}
                              /\ \A e \in Dom \ {d} : heap'[e] = heap[e]
<1>1. PICK i \in DOMAIN guests :
        /\ FirstIn(i, InStates({"destroyed"}))
        /\ guests' = RemoveAt(guests, i)
        /\ heap' = IF guests[i] \in alive THEN heap
                   ELSE [heap EXCEPT ![guests[i]] = Blank]
  BY DEF RemoveDestroyed
<1> DEFINE n == Len(guests)
           at(j) == IF j < i THEN j ELSE j + 1
<1>2. /\ guests \in Seq(Dom) /\ n \in Nat /\ DOMAIN guests = 1 .. n /\ i \in 1 .. n
      /\ heap \in [Dom -> Guest] /\ \A j \in 1 .. n : guests[j] \in Dom
  BY DEF TypeInv, TypeOK
<1>3. /\ guests' \in Seq(Dom) /\ Len(guests') = n - 1
      /\ \A j \in 1 .. n - 1 : guests'[j] = guests[at(j)]
  BY <1>1, <1>2, RemoveAtProperties
<1>4. DOMAIN guests' = 1 .. n - 1
  BY <1>2, <1>3
<1>5. \A j \in 1 .. n : j # i => guests[j] # guests[i]
  BY <1>2 DEF IpInv, GuestIpsDiffer
<1>6. Listed' = {guests'[j] : j \in 1 .. n - 1} /\ Listed = {guests[j] : j \in 1 .. n}
  BY <1>2, <1>4 DEF Listed
<1>7. ASSUME NEW d \in Listed' PROVE d \in Listed \ {guests[i]}
  <2>1. PICK j \in 1 .. n - 1 : d = guests'[j]
    BY <1>6
  <2>2. d = guests[at(j)] /\ at(j) \in 1 .. n /\ at(j) # i
    BY <1>2, <1>3, <2>1
  <2> HIDE DEF at
  <2> QED
    BY <1>2, <1>5, <1>6, <2>2
<1>8. ASSUME NEW d \in Listed, d # guests[i] PROVE d \in Listed'
  <2>1. PICK k \in 1 .. n : d = guests[k]
    BY <1>6
  <2>2. k # i
    BY <1>8, <2>1
  <2> DEFINE j == IF k < i THEN k ELSE k - 1
  <2>3. j \in 1 .. n - 1 /\ at(j) = k
    BY <1>2, <2>2
  <2> HIDE DEF at, j
  <2> QED
    BY <1>3, <1>6, <2>1, <2>3
<1> HIDE DEF at
<1>9. heap[guests[i]].state = "destroyed" /\ guests[i] \in Listed
  BY <1>1, <1>2 DEF FirstIn, InStates, Listed
<1>10. \A e \in Dom \ {guests[i]} : heap'[e] = heap[e]
  BY <1>1, <1>2
<1>11. Listed' = Listed \ {guests[i]}
  BY <1>7, <1>8
<1>12. UNCHANGED <<made, lease, call, conf, recycling, prod>> /\ prod[p].pc = "remove"
  BY DEF RemoveDestroyed, loopVars, At
<1> QED
  BY <1>2, <1>3, <1>9, <1>10, <1>11, <1>12

-----------------------------------------------------------------------------
(* The reactor, and who else may run.                                      *)

\* The chain that takes a step is the only one.
LEMMA Alone ==
  ASSUME TypeInv, ChainInv, NEW p \in Gen, ProducerStep(p)
  PROVE  \A q \in Gen \ {p} : prod[q].pc \in {"none", "dead"}
<1>1. prod[p].pc \notin {"none", "dead"}
  <2>1. CASE EnterLoop(p)
    BY <2>1 DEF EnterLoop, At
  <2>2. CASE ScheduleNext(p)
    BY <2>2 DEF ScheduleNext, At
  <2> QED
    BY <2>1, <2>2, ProducerInner DEF Inner
<1> QED
  BY <1>1 DEF ChainInv, OneProducerChain, Running

\* A reactor call other than start_pool and the choice of request_vm.
ReactorCall ==
  \/ RestartStop
  \/ \E new \in Configs : SetConfigs(new)
  \/ GrantGuest
  \/ \E c \in Client, ip \in Ip : RefuseRequest(c, ip)
  \/ \E c \in Client : FreeVm(c) \/ ReuseVm(c)

\* What all of these leave alone.
LEMMA ReactorQuiet ==
  ASSUME ReactorCall, TypeInv
  PROVE  /\ guests' = guests /\ made' = made /\ call'.kind # "request"
         /\ conf' \in Configs \cup {conf}
         /\ \A q \in Gen : prod'[q] \in {prod[q], NoProducer}
<1>1. ReactorBusy \/ call.kind # "request"
  BY DEF ReactorBusy, Idle
<1>2. Stopped => \A q \in Gen : prod'[q] \in {prod[q], NoProducer}
  BY DEF Stopped
<1>3. CASE RestartStop
  BY <1>1, <1>2, <1>3 DEF RestartStop, listVars
<1>4. CASE \E new \in Configs : SetConfigs(new)
  BY <1>1, <1>4 DEF SetConfigs, listVars
<1>5. CASE GrantGuest
  BY <1>5 DEF GrantGuest, listVars, Idle
<1>6. CASE \E c \in Client, ip \in Ip : RefuseRequest(c, ip)
  BY <1>1, <1>2, <1>6 DEF RefuseRequest, listVars
<1>7. CASE \E c \in Client : FreeVm(c) \/ ReuseVm(c)
  BY <1>1, <1>7 DEF FreeVm, ReuseVm, Release, listVars
<1> QED
  BY <1>3, <1>4, <1>5, <1>6, <1>7 DEF ReactorCall

\* The kinds of step, as the proofs below tell them apart.
LEMMA PoolSteps ==
  ASSUME Next
  PROVE  \/ \E p \in Gen : ProducerStep(p)
         \/ \E p \in Gen : StartPool(p)
         \/ \E c \in Client, ip \in Ip : SelectGuest(c, ip)
         \/ ReactorCall
  BY DEF Next, ReactorCall

-----------------------------------------------------------------------------
(* The chosen guest.                                                       *)

LEMMA ProducerChoiceInv ==
  ASSUME PoolInv, ChoiceInv, NEW p \in Gen, ProducerStep(p)
  PROVE  ChoiceInv'
<1> USE DEF PoolInv, ChainTypeInv
<1>1. CASE FinishCreate(p)
  <2>1. /\ \A q \in Gen : prod[q].pc # "qemu" => prod'[q] = prod[q]
        /\ prod[p].pc = "qemu" /\ prod'[p].pc = "create"
        /\ \A q \in Gen \ {p} : prod'[q] = prod[q] /\ prod[q].pc \in {"none", "dead"}
    BY <1>1, AppendedGuest, Alone
  <2>2. \A q \in Gen : prod'[q].pc \notin Early /\ prod'[q].pc # "asleep"
    BY <2>1 DEF Early
  <2>3. ChosenGuestStaysUsable'
    BY <1>1, AppendedGuest DEF ChoiceInv, ChosenGuestStaysUsable, TypeInv, TypeOK, Call
  <2> QED
    BY <2>2, <2>3 DEF ChoiceInv, At
<1>2. CASE RemoveDestroyed(p)
  <2>1. prod[p].pc \in Early /\ prod' = prod /\ guests # <<>> /\ call' = call
    BY <1>2, RemovedGuest DEF Early
  <2>2. call.kind # "request" /\ \A q \in Gen : ~(prod[q].on = "thread" /\ prod[q].pc \in Early)
    BY <2>1 DEF ChoiceInv
  <2> QED
    BY <2>1, <2>2 DEF ChoiceInv, At, ChosenGuestStaysUsable
<1>3. CASE ~FinishCreate(p) /\ ~RemoveDestroyed(p)
  <2>1. Quiet(p)
    BY <1>3, ProducerQuiet
  <2>2. ASSUME NEW q \in Gen, prod'[q].on = "thread", prod'[q].pc \in Early
        PROVE  guests' = <<>>
    BY <2>1, <2>2 DEF ChoiceInv, Quiet, At
  <2>3. ASSUME NEW q \in Gen, prod'[q].pc = "asleep" PROVE prod'[q].on = "reactor"
    BY <2>1, <2>3 DEF ChoiceInv, Quiet, At
  <2>4. ASSUME call'.kind = "request", NEW q \in Gen PROVE prod'[q].pc \notin Early
    <3>1. call = call' /\ ReactorBusy /\ \A r \in Gen : prod[r].pc \notin Early
      BY <2>1, <2>4 DEF ChoiceInv, Quiet, ReactorBusy, Idle
    <3> QED
      BY <2>1, <3>1 DEF Quiet
  <2>5. ASSUME call'.kind = "request"
        PROVE  call'.d \in Listed' /\ heap'[call'.d].state \in {"available", "using", "used"}
    <3> DEFINE d == call.d
    <3>1. /\ call' = call /\ d \in Dom /\ heap[d] \in Guest /\ prod[p].pc \notin Early
          /\ d \in Listed /\ heap[d].state \in {"available", "using", "used"}
      BY <2>1, <2>5 DEF Quiet, TypeInv, TypeOK, Call, ChoiceInv, ChosenGuestStaysUsable
    <3> HIDE DEF d
    <3>2. heap'[d] = heap[d] \/ heap'[d] = [heap[d] EXCEPT !.state = "available"]
      BY <2>1, <3>1 DEF Quiet
    <3>3. heap'[d].state \in {"available", "using", "used"}
      <4>1. [heap[d] EXCEPT !.state = "available"].state = "available"
        BY <3>1 DEF Guest
      <4> QED
        BY <3>1, <3>2, <4>1
    <3> QED
      BY <2>1, <3>1, <3>3 DEF Quiet, Listed, d
  <2> QED
    BY <2>2, <2>3, <2>4, <2>5 DEF ChoiceInv, At, ChosenGuestStaysUsable
<1> QED
  BY <1>1, <1>2, <1>3

\* request_vm chooses one of the candidates.
LEMMA Chosen ==
  ASSUME TypeInv, NEW c \in Client, NEW ip \in Ip, SelectGuest(c, ip)
  PROVE  /\ call' = [kind |-> "request", c |-> c, ip |-> ip, d |-> call'.d]
         /\ call'.d \in Listed /\ heap[call'.d].state \in {"available", "using", "used"}
         /\ ~ReactorBusy /\ ~lease[c].held /\ guests # <<>>
         /\ UNCHANGED <<heap, guests, made, conf, prod, recycling, lease>>
<1>1. PICK i \in DOMAIN guests :
        /\ FirstIn(i, Candidates(ip))
        /\ call' = [kind |-> "request", c |-> c, ip |-> ip, d |-> guests[i]]
  BY DEF SelectGuest
<1>2. guests[i] \in Listed /\ guests # <<>>
  BY DEF Listed, TypeInv, TypeOK
<1>3. guests[i] \in Candidates(ip)
  BY <1>1 DEF FirstIn
<1>4. heap[guests[i]].state \in {"available", "using", "used"}
  BY <1>3 DEF Candidates, OwnGuests, Usable, LeastBusy, InStates
<1> QED
  BY <1>1, <1>2, <1>4 DEF SelectGuest, listVars, loopVars

LEMMA NextChoiceInv ==
  ASSUME PoolInv, ChoiceInv, Next
  PROVE  ChoiceInv'
<1> USE DEF PoolInv, ChainTypeInv
<1>1. ASSUME NEW p \in Gen, StartPool(p) PROVE ChoiceInv'
  <2>1. guests' = <<>> /\ call' = Idle /\ prod' = [prod EXCEPT ![p] = Deferred]
    BY <1>1 DEF StartPool
  <2>2. \A q \in Gen : prod[q].pc # "asleep"
    BY <1>1 DEF StartPool, ChainInv, Running
  <2>3. \A q \in Gen : prod'[q].pc # "asleep"
    BY <2>1, <2>2, ResetPhases DEF TypeInv, TypeOK
  <2> QED
    BY <2>1, <2>3 DEF ChoiceInv, At, ChosenGuestStaysUsable, Idle
<1>2. ASSUME NEW c \in Client, NEW ip \in Ip, SelectGuest(c, ip) PROVE ChoiceInv'
  <2>1. ASSUME NEW q \in Gen, prod[q].pc \in Early PROVE FALSE
    <3>1. prod[q].on # "thread"
      BY <1>2, <2>1, Chosen DEF ChoiceInv
    <3>2. prod[q].on = "reactor"
      BY <3>1 DEF TypeInv, TypeOK, Producer
    <3>3. prod[q].pc = "queued"
      BY <1>2, <2>1, <3>2, Chosen DEF ReactorBusy, Early
    <3> QED
      BY <3>1, <3>3 DEF ChainInv, At
  <2> QED
    BY <1>2, <2>1, Chosen DEF ChoiceInv, At, ChosenGuestStaysUsable, Listed
<1>3. CASE ReactorCall
  BY <1>3, ReactorQuiet, ResetPhases
  DEF ChoiceInv, At, ChosenGuestStaysUsable, NoProducer, Early
<1> QED
  BY <1>1, <1>2, <1>3, PoolSteps, ProducerChoiceInv

ChosenInv == PoolInv /\ ChoiceInv

\* request_vm writes to the guest it has chosen after it let go of the lock.
\* Between the two, no iteration of producer_loop marks that guest unavailable,
\* destroys it or takes it off the list, provided the recycle period does not
\* end inside the first iteration of a pool.
THEOREM PoolChosenGuestStaysUsable ==
  ASSUME ~Overlap
  PROVE  Spec => []ChosenGuestStaysUsable
<1>1. Init => ChosenInv
  <2>1. ASSUME Init PROVE ChoiceInv
    BY <2>1, ResetPhases DEF Init, ChoiceInv, At, Idle, NoProducer, ChosenGuestStaysUsable
  <2> QED
    BY <2>1, InitPoolInv DEF ChosenInv
<1>2. ChosenInv /\ [Next]_vars => ChosenInv'
  <2>1. ASSUME ChoiceInv, UNCHANGED vars PROVE ChoiceInv'
    BY <2>1 DEF vars, ChoiceInv, At, ChosenGuestStaysUsable, Listed
  <2> QED
    BY <2>1, NextPoolInv, NextChoiceInv DEF ChosenInv
<1>3. ChosenInv => ChosenGuestStaysUsable
  BY DEF ChosenInv, ChoiceInv
<1> QED
  BY <1>1, <1>2, <1>3, PTL DEF Spec

-----------------------------------------------------------------------------
(* The size of the list.                                                   *)

\* existing_pool_size is the length of a list without destroyed guests.
LEMMA PoolSizeAll ==
  ASSUME guests \in Seq(Dom), InStates({"destroyed"}) = {}
  PROVE  PoolSize = Len(guests)
<1>1. \A i \in DOMAIN guests : heap[guests[i]].state # "destroyed"
  BY DEF InStates, Listed
<1>2. {i \in DOMAIN guests : heap[guests[i]].state # "destroyed"} = 1 .. Len(guests)
  BY <1>1
<1>3. Cardinality(1 .. Len(guests)) = Len(guests)
  <2>1. Len(guests) \in Nat
    OBVIOUS
  <2>2. Cardinality(1 .. Len(guests))
          = IF 1 > Len(guests) THEN 0 ELSE Len(guests) - 1 + 1
    BY <2>1, FS_Interval
  <2> QED
    BY <2>1, <2>2
<1> QED
  BY <1>2, <1>3 DEF PoolSize

\* Every configuration has a size.
LEMMA ConfigMax ==
  ASSUME NEW cf \in Configs \cup {DefaultConfig}
  PROVE  cf.max \in Nat
  BY PoolAssumption DEF Config

LEMMA ProducerCountInv ==
  ASSUME PoolInv, CountInv, NEW p \in Gen, ProducerStep(p)
  PROVE  CountInv'
<1> USE DEF PoolInv, ChainTypeInv
<1> DEFINE Fits(l, n) == \E cf \in Configs \cup {DefaultConfig} : l + n <= cf.max
<1>0. /\ Len(guests) \in Nat /\ \A q \in Gen : prod[q].n \in Int
      /\ \A q \in Gen \ {p} : prod[q].pc \in {"none", "dead"}
  <2>1. Len(guests) \in Nat /\ \A q \in Gen : prod[q].n \in Int
    BY PoolParts
  <2>2. \A q \in Gen \ {p} : prod[q].pc \in {"none", "dead"}
    BY Alone
  <2> QED
    BY <2>1, <2>2
<1>1. CASE FinishCreate(p)
  <2>1. /\ prod[p].pc = "qemu" /\ prod'[p].pc = "create" /\ prod'[p].n = prod[p].n - 1
        /\ Len(guests') = Len(guests) + 1 /\ conf' = conf
        /\ \A q \in Gen \ {p} : prod'[q] = prod[q]
    BY <1>1, AppendedGuest
  <2>2. prod[p].n > 0
    BY <2>1 DEF CountInv, At
  <2>3. PICK cf \in Configs \cup {DefaultConfig} : Len(guests) + prod[p].n <= cf.max
    BY <2>1 DEF CountInv
  <2>4. Len(guests') <= cf.max /\ Len(guests') + prod'[p].n <= cf.max
    BY <1>0, <2>1, <2>2, <2>3, ConfigMax
  <2>5. PoolBounded'
    BY <2>4 DEF PoolBounded
  <2>6. \A q \in Gen : prod'[q].pc \in {"create", "qemu"} => q = p
    BY <1>0, <2>1
  <2> QED
    BY <2>1, <2>3, <2>4, <2>5, <2>6 DEF CountInv, At
<1>2. CASE RemoveDestroyed(p)
  <2>1. prod[p].pc = "remove" /\ prod' = prod /\ conf' = conf
        /\ Len(guests') = Len(guests) - 1
    BY <1>2, RemovedGuest
  <2>2. PoolBounded'
    BY <1>0, <2>1, ConfigMax DEF CountInv, PoolBounded
  <2>3. \A q \in Gen : prod'[q].pc \notin {"create", "qemu"}
    BY <1>0, <2>1
  <2> QED
    BY <2>1, <2>2, <2>3 DEF CountInv, At
<1>3. CASE ~FinishCreate(p) /\ ~RemoveDestroyed(p)
  <2>1. Quiet(p)
    BY <1>3, ProducerQuiet
  <2>2. guests' = guests /\ conf' = conf /\ \A q \in Gen \ {p} : prod'[q] = prod[q]
    BY <2>1 DEF Quiet
  <2>3. ASSUME prod'[p].pc \in {"create", "qemu"}
        PROVE  /\ \/ prod'[p].pc = "create" /\ prod'[p].n <= 0
                  \/ Fits(Len(guests), prod'[p].n)
               /\ prod'[p].pc = "qemu" => prod'[p].n > 0
    <3>1. CASE /\ prod[p].pc = "create" /\ prod'[p].n = prod[p].n
               /\ prod'[p].pc = "qemu" => prod[p].n > 0
      BY <1>0, <2>3, <3>1 DEF CountInv
    <3>2. CASE /\ prod'[p].pc = "create" /\ prod'[p].n = conf.max - PoolSize
               /\ InStates({"destroyed"}) = {}
      <4>1. conf.max \in Nat /\ conf \in Configs \cup {DefaultConfig}
        BY ConfigMax DEF CountInv
      <4>2. prod'[p].n = conf.max - Len(guests)
        BY <3>2, PoolSizeAll DEF TypeInv, TypeOK
      <4>3. Len(guests) + prod'[p].n <= conf.max
        BY <1>0, <4>1, <4>2
      <4> QED
        BY <3>2, <4>1, <4>3
    <3> QED
      BY <2>1, <2>3, <3>1, <3>2 DEF Quiet
  <2>4. \A q \in Gen \ {p} : prod'[q].pc \notin {"create", "qemu"}
    BY <1>0, <2>2
  <2> QED
    BY <2>2, <2>3, <2>4 DEF CountInv, PoolBounded, At
<1> QED
  BY <1>1, <1>2, <1>3

LEMMA NextCountInv ==
  ASSUME PoolInv, CountInv, Next
  PROVE  CountInv'
<1> USE DEF PoolInv, ChainTypeInv
<1>1. ASSUME NEW p \in Gen, StartPool(p) PROVE CountInv'
  <2>1. guests' = <<>> /\ conf' = conf /\ prod' = [prod EXCEPT ![p] = Deferred]
    BY <1>1 DEF StartPool
  <2>2. \A q \in Gen : prod'[q].pc \notin {"create", "qemu"}
    BY <1>1, <2>1, ResetPhases DEF StartPool, ChainInv, Running, TypeInv, TypeOK
  <2>3. Len(guests') <= DefaultConfig.max
    BY <2>1, ConfigMax
  <2> QED
    BY <2>1, <2>2, <2>3 DEF CountInv, PoolBounded, At
<1>2. ASSUME NEW c \in Client, NEW ip \in Ip, SelectGuest(c, ip) PROVE CountInv'
  BY <1>2, Chosen DEF CountInv, PoolBounded, At
<1>3. CASE ReactorCall
  <2>1. /\ guests' = guests /\ conf' \in Configs \cup {conf}
        /\ \A q \in Gen : prod'[q] \in {prod[q], NoProducer}
    BY <1>3, ReactorQuiet
  <2>2. \A q \in Gen : prod'[q].pc \in {"create", "qemu"} => prod'[q] = prod[q]
    BY <2>1, ResetPhases
  <2> QED
    BY <2>1, <2>2 DEF CountInv, PoolBounded, At
<1> QED
  BY <1>1, <1>2, <1>3, PoolSteps, ProducerCountInv

PoolCountInv == PoolInv /\ CountInv

\* The list never holds more guests than the largest configuration allows,
\* although set_configs may lower max_vm while to_create guests, counted
\* before, are still being created, and although an iteration counts without
\* the lock what request_vm and free_vm change.
THEOREM PoolNeverGrowsPastMax ==
  ASSUME ~Overlap
  PROVE  Spec => []PoolBounded
<1>1. Init => PoolCountInv
  <2>1. ASSUME Init PROVE CountInv
    <3>1. guests = <<>> /\ conf = DefaultConfig /\ Len(guests) <= DefaultConfig.max
      BY <2>1, ConfigMax DEF Init
    <3>2. \A p \in Gen : prod[p].pc \notin {"create", "qemu"}
      BY <2>1, ResetPhases DEF Init
    <3> QED
      BY <3>1, <3>2 DEF CountInv, PoolBounded, At
  <2> QED
    BY <2>1, InitPoolInv DEF PoolCountInv
<1>2. PoolCountInv /\ [Next]_vars => PoolCountInv'
  <2>1. ASSUME CountInv, UNCHANGED vars PROVE CountInv'
    BY <2>1 DEF vars, CountInv, PoolBounded, At
  <2> QED
    BY <2>1, NextPoolInv, NextCountInv DEF PoolCountInv
<1>3. PoolCountInv => PoolBounded
  BY DEF PoolCountInv, CountInv
<1> QED
  BY <1>1, <1>2, <1>3, PTL DEF Spec

-----------------------------------------------------------------------------
(* Numbers and holders.                                                    *)

\* A step that leaves the numbers of the guests as they are, and gives no
\* client another one.
SameNumbers ==
  /\ made' = made
  /\ Listed' \subseteq Listed
  /\ \A d \in Listed' : heap'[d].nr = heap[d].nr
  /\ \A c \in Client : lease'[c] \in {lease[c], NoLease}

LEMMA SameNumbersInv ==
  ASSUME NumbersInv, SameNumbers
  PROVE  NumbersInv'
<1>2. /\ (\A d \in Listed : heap[d].nr < made)'
      /\ (\A d, e \in Listed : heap[d].nr = heap[e].nr => d = e)'
  BY DEF NumbersInv, SameNumbers
<1>3. ASSUME NEW c \in Client, lease'[c].held, ~lease'[c].stale
      PROVE  /\ lease'[c].nr < made'
             /\ \A d \in Listed' : heap'[d].nr = lease'[c].nr <=> d = lease'[c].d
  <2>1. lease'[c] = lease[c] /\ lease[c].held /\ ~lease[c].stale
    BY <1>3 DEF SameNumbers, NoLease
  <2> QED
    BY <2>1 DEF NumbersInv, SameNumbers
<1> QED
  BY <1>2, <1>3 DEF NumbersInv

LEMMA ProducerNumbersInv ==
  ASSUME PoolInv, NumbersInv, NEW p \in Gen, ProducerStep(p)
  PROVE  NumbersInv'
<1> USE DEF PoolInv, ChainTypeInv
<1>1. CASE FinishCreate(p)
  <2> DEFINE d == NewDom
  <2>1. /\ d \in Dom \ Listed /\ Listed' = Listed \cup {d}
        /\ \A c \in Client : lease[c].held => lease[c].d # d
        /\ heap'[d].nr = made /\ \A e \in Dom \ {d} : heap'[e] = heap[e]
        /\ made' = made + 1 /\ lease' = lease
    BY <1>1, AppendedGuest
  <2> HIDE DEF d
  <2>3. made \in Nat
    BY PoolParts
  <2>4. made' = made + 1
    BY <2>1
  <2>5. \A e \in Listed : e \in Dom \ {d} /\ heap'[e].nr = heap[e].nr /\ heap[e].nr < made
                          /\ heap[e].nr \in Nat
    BY <2>1, PoolParts DEF NumbersInv
  <2>6. \A e \in Listed' : heap'[e].nr < made'
    BY <2>1, <2>3, <2>4, <2>5
  <2>7. \A e, f \in Listed' : heap'[e].nr = heap'[f].nr => e = f
    BY <2>1, <2>3, <2>5 DEF NumbersInv
  <2>8. ASSUME NEW c \in Client, lease'[c].held, ~lease'[c].stale
        PROVE  /\ lease'[c].nr < made'
               /\ \A e \in Listed' : heap'[e].nr = lease'[c].nr <=> e = lease'[c].d
    <3>1. /\ lease'[c] = lease[c] /\ lease[c].held /\ ~lease[c].stale
          /\ lease[c].nr < made /\ lease[c].nr \in Nat
      BY <2>1, <2>8, PoolParts DEF NumbersInv
    <3>2. lease'[c].nr < made'
      BY <2>3, <2>4, <3>1
    <3>3. heap'[d].nr # lease[c].nr /\ d # lease[c].d
      BY <2>1, <2>3, <3>1
    <3>4. \A e \in Listed : heap'[e].nr = lease[c].nr <=> e = lease[c].d
      BY <2>5, <3>1 DEF NumbersInv
    <3> QED
      BY <2>1, <3>1, <3>2, <3>3, <3>4
  <2> QED
    BY <2>6, <2>7, <2>8 DEF NumbersInv
<1>2. CASE RemoveDestroyed(p)
  <2>1. PICK d \in Listed : /\ Listed' = Listed \ {d}
                            /\ \A e \in Dom \ {d} : heap'[e] = heap[e]
    BY <1>2, RemovedGuest
  <2>2. UNCHANGED <<made, lease>>
    BY <1>2, RemovedGuest
  <2>3. \A e \in Listed' : e \in Listed /\ heap'[e].nr = heap[e].nr
    BY <2>1, PoolParts
  <2>4. SameNumbers
    BY <2>2, <2>3 DEF SameNumbers
  <2> QED
    BY <2>4, SameNumbersInv
<1>3. CASE ~FinishCreate(p) /\ ~RemoveDestroyed(p)
  <2>1. Quiet(p)
    BY <1>3, ProducerQuiet
  <2>2. ASSUME NEW d \in Dom PROVE heap'[d].nr = heap[d].nr
    <3>1. heap[d] \in Guest
      BY PoolParts
    <3>2. \A s : [heap[d] EXCEPT !.state = s].nr = heap[d].nr
      BY <3>1 DEF Guest
    <3>3. heap'[d] = heap[d] \/ \E s : heap'[d] = [heap[d] EXCEPT !.state = s]
      BY <2>1 DEF Quiet
    <3> QED
      BY <3>2, <3>3
  <2>3. UNCHANGED <<made, lease>> /\ Listed' = Listed /\ Listed \subseteq Dom
    BY <2>1 DEF Quiet, Listed, TypeInv, TypeOK
  <2>5. SameNumbers
    BY <2>2, <2>3 DEF SameNumbers
  <2> QED
    BY <2>5, SameNumbersInv
<1> QED
  BY <1>1, <1>2, <1>3

\* A guest that is given back keeps its number and has one client less.
LEMMA ReleasedFields ==
  ASSUME NEW g \in Guest
  PROVE  /\ Freed(g).nr = g.nr /\ Freed(g).connected = g.connected - 1
         /\ g.connected # 1 => Freed(g).state = g.state
         /\ Reverted(g).nr = g.nr /\ Reverted(g).connected = g.connected - 1
         /\ g.connected # 1 => Reverted(g).state = g.state
<1> DEFINE n == g.connected - 1
           st == IF g.connected = 1 THEN "used" ELSE g.state
<1>1. /\ \A k : LET h == [g EXCEPT !.connected = k]
                IN  h.nr = g.nr /\ h.connected = k /\ h.state = g.state
      /\ \A k, s : LET h == [g EXCEPT !.connected = k, !.state = s]
                   IN  h.nr = g.nr /\ h.connected = k /\ h.state = s
      /\ \A k, s, r : LET h == [g EXCEPT !.connected = k, !.state = s, !.prev = r]
                      IN  h.nr = g.nr /\ h.connected = k /\ h.state = s
  BY DEF Guest
<1>2. Freed(g) = [g EXCEPT !.connected = n, !.state = st]
  BY DEF Freed
<1>3. Freed(g).nr = g.nr /\ Freed(g).connected = n /\ Freed(g).state = st
  <2> HIDE DEF n, st
  <2> QED
    BY <1>1, <1>2
<1>4. CASE g.connected = 1
  <2>1. Reverted(g) = [g EXCEPT !.connected = 0, !.state = g.prev, !.prev = "none"]
    BY <1>4 DEF Reverted
  <2>2. Reverted(g).nr = g.nr /\ Reverted(g).connected = 0
    BY <1>1, <2>1
  <2> QED
    BY <1>3, <1>4, <2>2
<1>5. CASE g.connected # 1
  <2>1. Reverted(g) = [g EXCEPT !.connected = n]
    BY <1>5 DEF Reverted
  <2>2. Reverted(g).nr = g.nr /\ Reverted(g).connected = n /\ Reverted(g).state = g.state
    <3> HIDE DEF n
    <3> QED
      BY <1>1, <2>1
  <2> QED
    BY <1>3, <1>5, <2>2
<1> QED
  BY <1>4, <1>5

\* free_vm and reuse_vm change no number, whichever guest they find.
LEMMA ReleasedNumbers ==
  ASSUME TypeInv, NEW c \in Client, FreeVm(c) \/ ReuseVm(c)
  PROVE  /\ UNCHANGED <<guests, made>>
         /\ \A d \in Dom : heap'[d].nr = heap[d].nr
         /\ \A e \in Client : lease'[e] \in {lease[e], NoLease}
<1>1. UNCHANGED <<guests, made>> /\ lease' = [lease EXCEPT ![c] = NoLease]
  BY DEF FreeVm, ReuseVm, Release, listVars
<1>2. \/ heap' = heap
      \/ \E i \in DOMAIN guests :
           \/ heap' = [heap EXCEPT ![guests[i]] = Freed(heap[guests[i]])]
           \/ heap' = [heap EXCEPT ![guests[i]] = Reverted(heap[guests[i]])]
  BY DEF FreeVm, ReuseVm, Release
<1>3. \A d \in Dom : /\ heap[d] \in Guest
                     /\ heap'[d] \in {heap[d], Freed(heap[d]), Reverted(heap[d])}
  BY <1>2 DEF TypeInv, TypeOK
<1>4. \A d \in Dom : heap'[d].nr = heap[d].nr
  BY <1>3, ReleasedFields
<1>5. \A e \in Client : lease'[e] \in {lease[e], NoLease}
  BY <1>1 DEF TypeInv, TypeOK
<1> QED
  BY <1>1, <1>4, <1>5

\* In the first pool, and before the numbers come round, they find the guest
\* of their client, if it is still listed.
LEMMA Released ==
  ASSUME TypeInv, NumbersInv, FirstPool, MakeBound <= IdWrap,
         NEW c \in Client, FreeVm(c) \/ ReuseVm(c)
  PROVE  /\ lease[c].held /\ lease' = [lease EXCEPT ![c] = NoLease]
         /\ call' = call /\ call.kind # "request"
         /\ UNCHANGED <<guests, made, conf, prod, recycling>>
         /\ \A d \in Dom : d # lease[c].d \/ d \notin Listed => heap'[d] = heap[d]
         /\ LET d == lease[c].d
            IN  d \in Listed =>
                  /\ heap'[d].nr = heap[d].nr
                  /\ heap'[d].connected = heap[d].connected - 1
                  /\ heap[d].connected # 1 => heap'[d].state = heap[d].state
<1> DEFINE ld == lease[c].d
<1>1. /\ lease[c].held /\ lease' = [lease EXCEPT ![c] = NoLease]
      /\ call' = call /\ call.kind # "request"
      /\ UNCHANGED <<guests, made, conf, prod, recycling>>
  BY DEF FreeVm, ReuseVm, Release, listVars, loopVars, ReactorBusy, Idle
<1>2. \A d \in Listed : d \in WithId(GuestId(lease[c].nr)) <=> d = ld
  <2>1. ASSUME NEW k \in Nat, k < made PROVE GuestId(k) = k
    <3>1. /\ made \in Nat /\ MakeBound \in Nat /\ IdWrap \in Nat \ {0}
          /\ made <= MakeBound
      BY PoolParts, PoolAssumption DEF FirstPool
    <3>2. k < IdWrap
      BY <2>1, <3>1
    <3> QED
      BY <3>1, <3>2, ModSmall DEF GuestId
  <2>2. ~lease[c].stale /\ lease[c].nr \in Nat /\ lease[c].nr < made
    BY <1>1, PoolParts DEF FirstPool, NumbersInv
  <2>3. \A d \in Listed : heap[d].nr \in Nat /\ heap[d].nr < made
    BY PoolParts DEF NumbersInv
  <2>4. \A d \in Listed : GuestId(heap[d].nr) = heap[d].nr
    BY <2>1, <2>3
  <2>5. GuestId(lease[c].nr) = lease[c].nr
    BY <2>1, <2>2
  <2> QED
    BY <1>1, <2>2, <2>4, <2>5 DEF NumbersInv, WithId
<1>3. \/ WithId(GuestId(lease[c].nr)) = {} /\ heap' = heap
      \/ \E i \in DOMAIN guests :
           /\ guests[i] \in WithId(GuestId(lease[c].nr))
           /\ \/ heap' = [heap EXCEPT ![guests[i]] = Freed(heap[guests[i]])]
              \/ heap' = [heap EXCEPT ![guests[i]] = Reverted(heap[guests[i]])]
  BY DEF FreeVm, ReuseVm, Release, FirstIn
<1>4. CASE WithId(GuestId(lease[c].nr)) = {} /\ heap' = heap
  <2>1. ld \notin Listed
    BY <1>2, <1>4
  <2> QED
    BY <1>1, <1>4, <2>1
<1>5. ASSUME NEW i \in DOMAIN guests, guests[i] \in WithId(GuestId(lease[c].nr)),
             \/ heap' = [heap EXCEPT ![guests[i]] = Freed(heap[guests[i]])]
             \/ heap' = [heap EXCEPT ![guests[i]] = Reverted(heap[guests[i]])]
      PROVE  /\ \A d \in Dom : d # ld => heap'[d] = heap[d]
             /\ ld \in Listed
             /\ heap'[ld].nr = heap[ld].nr
             /\ heap'[ld].connected = heap[ld].connected - 1
             /\ heap[ld].connected # 1 => heap'[ld].state = heap[ld].state
  <2>1. guests[i] = ld /\ ld \in Listed
    BY <1>2, <1>5 DEF Listed
  <2>2. ld \in Dom /\ heap[ld] \in Guest /\ heap \in [Dom -> Guest]
    BY <2>1, PoolParts DEF TypeInv, TypeOK
  <2> HIDE DEF ld
  <2>3. \/ heap' = [heap EXCEPT ![ld] = Freed(heap[ld])]
        \/ heap' = [heap EXCEPT ![ld] = Reverted(heap[ld])]
    BY <1>5, <2>1
  <2>4. /\ \A d \in Dom : d # ld => heap'[d] = heap[d]
        /\ heap'[ld] \in {Freed(heap[ld]), Reverted(heap[ld])}
    BY <2>2, <2>3
  <2>5. /\ Freed(heap[ld]).nr = heap[ld].nr
        /\ Freed(heap[ld]).connected = heap[ld].connected - 1
        /\ heap[ld].connected # 1 => Freed(heap[ld]).state = heap[ld].state
        /\ Reverted(heap[ld]).nr = heap[ld].nr
        /\ Reverted(heap[ld]).connected = heap[ld].connected - 1
        /\ heap[ld].connected # 1 => Reverted(heap[ld]).state = heap[ld].state
    BY <2>2, ReleasedFields
  <2> QED
    BY <2>1, <2>4, <2>5
<1> QED
  BY <1>1, <1>3, <1>4, <1>5

\* request_vm counts its client and gives it the number of the guest.
LEMMA Granted ==
  ASSUME TypeInv, GrantGuest
  PROVE  /\ call.kind = "request" /\ call.c \in Client /\ call.d \in Dom /\ call' = Idle
         /\ UNCHANGED <<guests, made, conf, prod, recycling>>
         /\ \A d \in Dom \ {call.d} : heap'[d] = heap[d]
         /\ heap'[call.d].nr = heap[call.d].nr
         /\ heap'[call.d].connected = heap[call.d].connected + 1
         /\ heap'[call.d].state = "using"
         /\ \A c \in Client \ {call.c} : lease'[c] = lease[c]
         /\ lease'[call.c].held /\ lease'[call.c].d = call.d
         /\ lease'[call.c].nr = heap[call.d].nr /\ ~lease'[call.c].stale
<1> DEFINE d == call.d
           g == heap[d]
<1>1. /\ call.kind = "request" /\ call' = Idle
      /\ UNCHANGED <<guests, made, conf, prod, recycling>>
  BY DEF GrantGuest, listVars, loopVars
<1>2. call.c \in Client /\ d \in Dom /\ g \in Guest
  BY <1>1, PoolParts DEF TypeInv, TypeOK, Call
<1>3. heap' = [heap EXCEPT ![d] = [g EXCEPT !.prev = g.state, !.state = "using",
                                          !.connected = g.connected + 1,
                                          !.ips = g.ips \cup {call.ip}]]
  BY DEF GrantGuest
<1>4. lease' = [lease EXCEPT ![call.c] =
                  [held |-> TRUE, d |-> d, nr |-> g.nr, ip |-> call.ip,
                   stale |-> FALSE]]
  BY DEF GrantGuest
<1> HIDE DEF d, g
<1>5. \A r, s, n, S :
        LET h == [g EXCEPT !.prev = r, !.state = s, !.connected = n, !.ips = S]
        IN  h.nr = g.nr /\ h.connected = n /\ h.state = s
  BY <1>2 DEF Guest
<1>6. /\ \A e \in Dom \ {d} : heap'[e] = heap[e]
      /\ heap'[d] = [g EXCEPT !.prev = g.state, !.state = "using",
                              !.connected = g.connected + 1, !.ips = g.ips \cup {call.ip}]
  BY <1>2, <1>3 DEF TypeInv, TypeOK
<1>7. heap'[d].nr = g.nr /\ heap'[d].connected = g.connected + 1 /\ heap'[d].state = "using"
  BY <1>5, <1>6
<1>8. /\ \A c \in Client \ {call.c} : lease'[c] = lease[c]
      /\ lease'[call.c].held /\ lease'[call.c].d = d /\ lease'[call.c].nr = g.nr
      /\ ~lease'[call.c].stale
  BY <1>2, <1>4 DEF TypeInv, TypeOK
<1> QED
  BY <1>1, <1>2, <1>6, <1>7, <1>8 DEF d, g

LEMMA NextNumbersInv ==
  ASSUME PoolInv, ChoiceInv, NumbersInv, Next
  PROVE  NumbersInv'
<1> USE DEF PoolInv, ChainTypeInv
<1>1. ASSUME NEW p \in Gen, StartPool(p) PROVE NumbersInv'
  <2>1. guests' = <<>>
    BY <1>1 DEF StartPool
  <2>2. Listed' = {}
    BY <2>1 DEF Listed
  <2>3. ASSUME NEW c \in Client, lease'[c].held PROVE lease'[c].stale
    <3>1. /\ lease[c] \in Lease
          /\ lease'[c] = IF lease[c].held THEN [lease[c] EXCEPT !.stale = TRUE] ELSE lease[c]
      BY <1>1 DEF StartPool, TypeInv, TypeOK
    <3> QED
      BY <2>3, <3>1, StaleLease
  <2> QED
    BY <2>2, <2>3 DEF NumbersInv
<1>2. ASSUME UNCHANGED <<heap, guests, made, lease>> PROVE NumbersInv'
  <2>1. Listed' = Listed
    BY <1>2 DEF Listed
  <2> QED
    BY <1>2, <2>1 DEF NumbersInv
<1>3. CASE RestartStop
  BY <1>2, <1>3 DEF RestartStop, listVars
<1>4. ASSUME NEW c \in Client, NEW ip \in Ip, SelectGuest(c, ip) PROVE NumbersInv'
  BY <1>2, <1>4 DEF SelectGuest, listVars
<1>5. ASSUME NEW new \in Configs, SetConfigs(new) PROVE NumbersInv'
  BY <1>2, <1>5 DEF SetConfigs, listVars
<1>6. ASSUME NEW c \in Client, NEW ip \in Ip, RefuseRequest(c, ip) PROVE NumbersInv'
  BY <1>2, <1>6 DEF RefuseRequest, listVars
<1>7. ASSUME NEW c \in Client, FreeVm(c) \/ ReuseVm(c) PROVE NumbersInv'
  <2>1. Listed' = Listed /\ Listed \subseteq Dom /\ made' = made
    BY <1>7, ReleasedNumbers, PoolParts DEF Listed
  <2>2. SameNumbers
    BY <1>7, <2>1, ReleasedNumbers DEF SameNumbers
  <2> QED
    BY <2>2, SameNumbersInv
<1>8. CASE GrantGuest
  <2>1. call.d \in Listed /\ Listed' = Listed /\ Listed \subseteq Dom
    BY <1>8, Granted, PoolParts DEF ChoiceInv, ChosenGuestStaysUsable, Listed
  <2>2. \A d \in Listed : heap'[d].nr = heap[d].nr
    BY <1>8, <2>1, Granted
  <2>3. ASSUME NEW c \in Client, lease'[c].held, ~lease'[c].stale
        PROVE  /\ lease'[c].nr < made
               /\ \A d \in Listed : heap[d].nr = lease'[c].nr <=> d = lease'[c].d
    <3>1. CASE c = call.c
      BY <1>8, <2>1, <3>1, Granted DEF NumbersInv
    <3>2. CASE c # call.c
      BY <1>8, <2>3, <3>2, Granted DEF NumbersInv
    <3> QED
      BY <3>1, <3>2
  <2>4. made' = made
    BY <1>8, Granted
  <2> QED
    BY <2>1, <2>2, <2>3, <2>4 DEF NumbersInv
<1> QED
  BY <1>1, <1>3, <1>4, <1>5, <1>6, <1>7, <1>8, PoolSteps, ProducerNumbersInv DEF ReactorCall

\* The pool that is not recycled stays the first one.
LEMMA NextFirstPool ==
  ASSUME PoolInv, FirstPool, Next
  PROVE  FirstPool'
<1> USE DEF PoolInv, ChainTypeInv
<1>1. ASSUME NEW p \in Gen PROVE ~StartPool(p)
  BY DEF StartPool, FirstPool
<1>2. ~RestartStop
  BY DEF RestartStop, FirstPool
<1>3. ASSUME NEW p \in Gen, ProducerStep(p) PROVE FirstPool'
  <2>1. CASE FinishCreate(p)
    <3>1. /\ made' = made + 1 /\ UNCHANGED <<lease, call, recycling>>
          /\ prod[p].pc = "qemu" /\ prod'[p].pc = "create"
          /\ \A q \in Gen \ {p} : prod'[q] = prod[q]
      BY <2>1, AppendedGuest
    <3>2. \A q \in Gen : prod'[q].pc # "qemu"
      BY <1>3, <3>1, Alone
    <3>3. made < MakeBound /\ made \in Nat /\ MakeBound \in Nat
      BY <3>1, PoolParts DEF FirstPool, At
    <3> QED
      BY <3>1, <3>2, <3>3 DEF FirstPool, At
  <2>2. CASE RemoveDestroyed(p)
    <3>1. UNCHANGED <<made, lease, call, recycling, prod>>
      BY <2>2, RemovedGuest
    <3> QED
      BY <3>1 DEF FirstPool, At
  <2>3. CASE ~FinishCreate(p) /\ ~RemoveDestroyed(p)
    <3>1. Quiet(p)
      BY <1>3, <2>3, ProducerQuiet
    <3>2. UNCHANGED <<made, lease, call, recycling>>
      BY <3>1 DEF Quiet
    <3>3. \A q \in Gen : prod'[q].pc = "qemu" => prod[q].pc = "qemu" \/ made < MakeBound
      BY <3>1 DEF Quiet
    <3> QED
      BY <3>2, <3>3 DEF FirstPool, At
  <2> QED
    BY <2>1, <2>2, <2>3
<1>4. ASSUME UNCHANGED <<made, recycling>>, call'.kind # "restart",
             \A c \in Client : lease'[c] = lease[c] \/ (lease'[c].held => ~lease'[c].stale),
             \A q \in Gen : prod'[q] \in {prod[q], NoProducer}
      PROVE  FirstPool'
  <2>1. \A q \in Gen : prod'[q].pc = "qemu" => prod[q].pc = "qemu"
    BY <1>4, ResetPhases
  <2> QED
    BY <1>4, <2>1 DEF FirstPool, At
<1>5. ASSUME NEW c \in Client, NEW ip \in Ip, SelectGuest(c, ip) PROVE FirstPool'
  <2>1. call'.kind = "request" /\ UNCHANGED <<made, recycling, lease, prod>>
    BY <1>5, Chosen
  <2> QED
    BY <1>4, <2>1
<1>6. ASSUME NEW new \in Configs, SetConfigs(new) PROVE FirstPool'
  BY <1>4, <1>6 DEF SetConfigs, listVars, loopVars, FirstPool
<1>7. ASSUME NEW c \in Client, NEW ip \in Ip, RefuseRequest(c, ip) PROVE FirstPool'
  <2>1. \A q \in Gen : prod'[q] \in {prod[q], NoProducer}
    BY <1>7, ReactorQuiet DEF ReactorCall
  <2>2. UNCHANGED <<made, recycling, lease, call>>
    BY <1>7 DEF RefuseRequest, listVars
  <2> QED
    BY <1>4, <2>1, <2>2 DEF FirstPool
<1>8. ASSUME NEW c \in Client, FreeVm(c) \/ ReuseVm(c) PROVE FirstPool'
  <2>1. UNCHANGED <<made, recycling, call, prod>>
    BY <1>8 DEF FreeVm, ReuseVm, Release, listVars, loopVars
  <2>2. \A e \in Client : lease'[e] = lease[e] \/ ~lease'[e].held
    BY <1>8, ReleasedNumbers DEF NoLease
  <2> QED
    BY <1>4, <2>1, <2>2 DEF FirstPool
<1>9. CASE GrantGuest
  <2>1. \A c \in Client : lease'[c] = lease[c] \/ ~lease'[c].stale
    BY <1>9, Granted
  <2>2. UNCHANGED <<made, recycling, prod>> /\ call'.kind # "restart"
    BY <1>9, Granted DEF Idle
  <2> QED
    BY <1>4, <2>1, <2>2
<1> QED
  BY <1>1, <1>2, <1>3, <1>5, <1>6, <1>7, <1>8, <1>9, PoolSteps DEF ReactorCall

\* The clients of a guest follow from what each client holds.
LEMMA HoldersChange ==
  ASSUME NEW c \in Client, \A e \in Client \ {c} : lease'[e] = lease[e], NEW d
  PROVE  Holders(d)' = IF lease'[c].held /\ lease'[c].d = d
                       THEN Holders(d) \cup {c} ELSE Holders(d) \ {c}
  BY DEF Holders

LEMMA ProducerHoldersInv ==
  ASSUME PoolInv, HoldersInv, NEW p \in Gen, ProducerStep(p)
  PROVE  HoldersInv'
<1> USE DEF PoolInv, ChainTypeInv
<1>0. Listed \subseteq Dom /\ \A d \in Dom : heap[d] \in Guest
  BY PoolParts
<1>1. CASE FinishCreate(p)
  <2>0. PICK d \in Dom : d = NewDom
    BY <1>1, AppendedGuest
  <2>1. /\ d \in Dom \ Listed /\ Listed' = Listed \cup {d}
        /\ \A c \in Client : lease[c].held => lease[c].d # d
        /\ heap'[d].connected = 0 /\ \A e \in Dom \ {d} : heap'[e] = heap[e]
        /\ lease' = lease /\ call' = call /\ prod'[p].pc = "create"
        /\ \A q \in Gen \ {p} : prod'[q] = prod[q]
    BY <1>1, <2>0, AppendedGuest
  <2>2. Holders(d) = {} /\ \A e : Holders(e)' = Holders(e)
    BY <2>1 DEF Holders
  <2>3. Holders(d)' = {} /\ IsFiniteSet({}) /\ Cardinality({}) = 0
    BY <2>2, FS_EmptySet
  <2>4. \A e \in Listed : heap'[e] = heap[e]
    BY <1>0, <2>1
  <2>5. HoldersAreCounted' /\ (\A e \in Listed : IsFiniteSet(Holders(e)))'
    BY <2>1, <2>2, <2>3, <2>4 DEF HoldersInv, HoldersAreCounted
  <2>6. \A q \in Gen : prod'[q].pc # "avail"
    BY <2>1, Alone
  <2> QED
    BY <2>1, <2>5, <2>6 DEF HoldersInv, At
<1>2. CASE RemoveDestroyed(p)
  <2>1. PICK d \in Listed : /\ Listed' = Listed \ {d}
                            /\ \A e \in Dom \ {d} : heap'[e] = heap[e]
    BY <1>2, RemovedGuest
  <2>2. UNCHANGED <<lease, call, prod>> /\ prod[p].pc = "remove"
    BY <1>2, RemovedGuest
  <2>3. \A e : Holders(e)' = Holders(e)
    BY <2>2 DEF Holders
  <2>4. \A e \in Listed' : e \in Listed /\ heap'[e] = heap[e]
    BY <1>0, <2>1
  <2>5. \A q \in Gen : prod'[q].pc # "avail"
    BY <2>2, Alone
  <2> QED
    BY <2>2, <2>3, <2>4, <2>5 DEF HoldersInv, HoldersAreCounted, At
<1>3. CASE ~FinishCreate(p) /\ ~RemoveDestroyed(p)
  <2>1. Quiet(p)
    BY <1>3, ProducerQuiet
  <2>2. UNCHANGED <<guests, lease, call>> /\ Listed' = Listed
    BY <2>1 DEF Quiet, Listed
  <2>3. \A e : Holders(e)' = Holders(e)
    BY <2>2 DEF Holders
  <2>4. ASSUME NEW d \in Listed
        PROVE  /\ heap'[d].connected = heap[d].connected
               /\ heap'[d].state \in {"created", "available", "used"} => Holders(d) = {}
    <3>1. \A s : LET h == [heap[d] EXCEPT !.state = s]
                 IN  h.state = s /\ h.connected = heap[d].connected
      BY <1>0, <2>4 DEF Guest
    <3>2. d \in Dom /\ (heap[d].state \in {"created", "available", "used"} => Holders(d) = {})
      BY <1>0, <2>4 DEF HoldersInv, HoldersAreCounted
    <3>3. CASE heap'[d] = heap[d]
      BY <3>2, <3>3
    <3>4. CASE \E s \in {"unavailable", "destroyed"} : heap'[d] = [heap[d] EXCEPT !.state = s]
      BY <3>1, <3>4
    <3>5. CASE /\ prod[p].pc = "avail" /\ d \in prod[p].todo
               /\ heap'[d] = [heap[d] EXCEPT !.state = "available"]
      <4>1. heap[d].state = "created"
        BY <3>5 DEF HoldersInv, At
      <4> QED
        BY <3>1, <3>2, <3>5, <4>1
    <3> QED
      BY <2>1, <3>2, <3>3, <3>4, <3>5 DEF Quiet
  <2>5. ASSUME prod'[p].pc = "avail", NEW d \in prod'[p].todo
        PROVE  d \in Listed /\ heap'[d].state = "created"
    <3>1. CASE prod'[p].todo = InStates({"created"}) /\ heap' = heap
      BY <2>5, <3>1 DEF InStates
    <3>2. CASE prod[p].pc = "avail" /\ prod'[p].todo \subseteq prod[p].todo
      <4>1. d \in Listed /\ heap[d].state = "created"
        BY <2>5, <3>2 DEF HoldersInv, At
      <4>2. heap'[d] = heap[d]
        BY <1>0, <2>1, <2>5, <3>2, <4>1 DEF Quiet, Early
      <4> QED
        BY <4>1, <4>2
    <3> QED
      BY <2>1, <2>5, <3>1, <3>2 DEF Quiet
  <2>6. \A q \in Gen \ {p} : prod'[q].pc # "avail"
    BY <2>1, Alone DEF Quiet
  <2> QED
    BY <2>2, <2>3, <2>4, <2>5, <2>6 DEF HoldersInv, HoldersAreCounted, At
<1> QED
  BY <1>1, <1>2, <1>3

LEMMA NextHoldersInv ==
  ASSUME PoolInv, ChoiceInv, NumbersInv, FirstPool, HoldersInv, MakeBound <= IdWrap, Next
  PROVE  HoldersInv'
<1> USE DEF PoolInv, ChainTypeInv
<1>0. Listed \subseteq Dom /\ \A d \in Dom : heap[d].connected \in Int
  BY PoolParts
<1>1. ASSUME NEW p \in Gen PROVE ~StartPool(p)
  BY DEF StartPool, FirstPool
<1>2. ~RestartStop
  BY DEF RestartStop, FirstPool
<1>3. ASSUME UNCHANGED <<heap, guests, lease>>,
             call'.kind = "request" => ~lease[call'.c].held,
             \A q \in Gen : prod'[q] \in {prod[q], NoProducer}
      PROVE  HoldersInv'
  <2>1. Listed' = Listed /\ \A d : Holders(d)' = Holders(d)
    BY <1>3 DEF Listed, Holders
  <2>2. \A q \in Gen : prod'[q].pc = "avail" => prod'[q] = prod[q]
    BY <1>3, ResetPhases
  <2> QED
    BY <1>3, <2>1, <2>2 DEF HoldersInv, HoldersAreCounted, At
<1>4. ASSUME NEW c \in Client, NEW ip \in Ip, SelectGuest(c, ip) PROVE HoldersInv'
  <2>1. call'.c = c /\ ~lease[c].held /\ UNCHANGED <<heap, guests, lease, prod>>
    BY <1>4, Chosen
  <2> QED
    BY <1>3, <2>1
<1>5. ASSUME NEW new \in Configs, SetConfigs(new) PROVE HoldersInv'
  <2>1. UNCHANGED <<heap, guests, lease, prod, call>>
    BY <1>5 DEF SetConfigs, listVars
  <2> QED
    BY <1>3, <2>1 DEF HoldersInv
<1>6. ASSUME NEW c \in Client, NEW ip \in Ip, RefuseRequest(c, ip) PROVE HoldersInv'
  <2>1. \A q \in Gen : prod'[q] \in {prod[q], NoProducer}
    BY <1>6, ReactorQuiet DEF ReactorCall
  <2>2. UNCHANGED <<heap, guests, lease, call>>
    BY <1>6 DEF RefuseRequest, listVars
  <2> QED
    BY <1>3, <2>1, <2>2 DEF HoldersInv
<1>7. ASSUME NEW c \in Client, FreeVm(c) \/ ReuseVm(c) PROVE HoldersInv'
  <2> DEFINE ld == lease[c].d
  <2>1. /\ lease[c].held /\ ~lease'[c].held /\ call'.kind # "request"
        /\ \A e \in Client \ {c} : lease'[e] = lease[e]
        /\ Listed' = Listed /\ prod' = prod
    BY <1>7, Released DEF TypeInv, TypeOK, NoLease, Listed
  <2>2. \A d : Holders(d)' = Holders(d) \ {c} /\ (c \in Holders(d) <=> d = ld)
    BY <2>1, HoldersChange DEF Holders
  <2>3. ASSUME NEW d \in Listed
        PROVE  /\ heap'[d].connected = Cardinality(Holders(d)')
               /\ heap'[d].state \in {"created", "available", "used"} => Holders(d)' = {}
               /\ IsFiniteSet(Holders(d)')
    <3>1. /\ heap[d].connected = Cardinality(Holders(d)) /\ IsFiniteSet(Holders(d))
          /\ heap[d].state \in {"created", "available", "used"} => Holders(d) = {}
      BY <2>3 DEF HoldersInv, HoldersAreCounted
    <3>2. CASE d # ld
      <4>1. heap'[d] = heap[d] /\ Holders(d)' = Holders(d)
        BY <1>0, <1>7, <2>2, <2>3, <3>2, Released
      <4> QED
        BY <3>1, <4>1
    <3>3. CASE d = ld
      <4>1. /\ heap'[d].connected = heap[d].connected - 1
            /\ heap[d].connected # 1 => heap'[d].state = heap[d].state
        BY <1>7, <2>3, <3>3, Released
      <4>2. c \in Holders(d) /\ Holders(d)' = Holders(d) \ {c}
        BY <2>2, <3>3
      <4>3. /\ IsFiniteSet(Holders(d) \ {c})
            /\ Cardinality(Holders(d) \ {c}) = Cardinality(Holders(d)) - 1
        BY <3>1, <4>2, FS_RemoveElement
      <4>4. heap[d].connected = 1 => Holders(d) \ {c} = {}
        <5>1. ASSUME heap[d].connected = 1 PROVE Cardinality(Holders(d) \ {c}) = 0
          BY <3>1, <4>3, <5>1
        <5> QED
          BY <4>3, <5>1, FS_EmptySet
      <4> QED
        BY <3>1, <4>1, <4>2, <4>3, <4>4
    <3> QED
      BY <3>2, <3>3
  <2>4. ASSUME NEW q \in Gen, prod[q].pc = "avail", NEW d \in prod[q].todo
        PROVE  d \in Listed /\ heap'[d].state = "created"
    <3>1. d \in Listed /\ heap[d].state = "created"
      BY <2>4 DEF HoldersInv, At
    <3>2. d # ld
      BY <2>2, <3>1 DEF HoldersInv, HoldersAreCounted
    <3> QED
      BY <1>0, <1>7, <3>1, <3>2, Released
  <2> QED
    BY <2>1, <2>3, <2>4 DEF HoldersInv, HoldersAreCounted, At
<1>8. CASE GrantGuest
  <2> DEFINE g == call.d
             c == call.c
  <2>1. /\ call.kind = "request" /\ c \in Client /\ g \in Dom /\ call'.kind # "request"
        /\ lease'[c].held /\ lease'[c].d = g
        /\ \A e \in Client \ {c} : lease'[e] = lease[e]
        /\ Listed' = Listed /\ prod' = prod
    BY <1>8, Granted DEF Listed, Idle
  <2>2. /\ \A d \in Dom \ {g} : heap'[d] = heap[d]
        /\ heap'[g].connected = heap[g].connected + 1 /\ heap'[g].state = "using"
    BY <1>8, Granted
  <2>3. g \in Listed /\ heap[g].state # "created" /\ ~lease[c].held
    BY <2>1 DEF ChoiceInv, ChosenGuestStaysUsable, HoldersInv
  <2> HIDE DEF g, c
  <2>4. \A d : /\ c \notin Holders(d)
               /\ Holders(d)' = IF d = g THEN Holders(d) \cup {c} ELSE Holders(d)
    BY <2>1, <2>3, HoldersChange DEF Holders
  <2>5. ASSUME NEW d \in Listed
        PROVE  /\ heap'[d].connected = Cardinality(Holders(d)')
               /\ heap'[d].state \in {"created", "available", "used"} => Holders(d)' = {}
               /\ IsFiniteSet(Holders(d)')
    <3>1. /\ heap[d].connected = Cardinality(Holders(d)) /\ IsFiniteSet(Holders(d))
          /\ heap[d].state \in {"created", "available", "used"} => Holders(d) = {}
      BY <2>5 DEF HoldersInv, HoldersAreCounted
    <3>2. CASE d # g
      BY <1>0, <2>2, <2>4, <2>5, <3>1, <3>2
    <3>3. CASE d = g
      <4>1. /\ IsFiniteSet(Holders(d) \cup {c})
            /\ Cardinality(Holders(d) \cup {c}) = Cardinality(Holders(d)) + 1
        BY <2>4, <3>1, FS_AddElement
      <4> QED
        BY <2>2, <2>4, <3>1, <3>3, <4>1
    <3> QED
      BY <3>2, <3>3
  <2>6. ASSUME NEW q \in Gen, prod[q].pc = "avail", NEW d \in prod[q].todo
        PROVE  d \in Listed /\ heap'[d].state = "created"
    <3>1. d \in Listed /\ heap[d].state = "created"
      BY <2>6 DEF HoldersInv, At
    <3> QED
      BY <1>0, <2>2, <2>3, <3>1
  <2> QED
    BY <2>1, <2>5, <2>6 DEF HoldersInv, HoldersAreCounted, At
<1> QED
  BY <1>1, <1>2, <1>4, <1>5, <1>6, <1>7, <1>8, PoolSteps, ProducerHoldersInv DEF ReactorCall

-----------------------------------------------------------------------------
(* Numbers.                                                                *)

\* Two counts with the same number are the same, or IdWrap apart.
LEMMA ModWindow ==
  ASSUME NEW w \in Nat \ {0}, NEW i \in Nat, NEW j \in Nat,
         i % w = j % w, i \in j - w + 1 .. j + w - 1
  PROVE  i = j
<1>1. /\ i \div w \in Int /\ i = w * (i \div w) + (i % w)
      /\ j \div w \in Int /\ j = w * (j \div w) + (j % w)
  OBVIOUS
<1>2. \A m \in Int : m > 0 => w * m >= w
  OBVIOUS
<1> DEFINE m == (i \div w) - (j \div w)
<1>3. m \in Int /\ i - j = w * m /\ i - j < w /\ j - i < w
  BY <1>1
<1> HIDE DEF m
<1>4. ~(m > 0)
  BY <1>2, <1>3
<1>5. ~(m < 0)
  <2>1. w * (0 - m) = j - i
    BY <1>3
  <2> QED
    BY <1>2, <1>3, <2>1
<1>6. m = 0
  BY <1>3, <1>4, <1>5
<1> QED
  BY <1>3, <1>6

PoolNumbersInv == ChosenInv /\ NumbersInv

\* The number of a client leads free_vm and reuse_vm to the guest it was given
\* or to none, but in the two cases in which the code gives a number twice:
\* the pool was started again since, or 252 guests were created from the one
\* guest to the other.  This holds with and without recycling, provided the
\* recycle period does not end inside the first iteration of a pool.
THEOREM PoolLeaseResolves ==
  ASSUME ~Overlap
  PROVE  Spec => []LeaseResolves
<1>1. Init => PoolNumbersInv
  <2> SUFFICES ASSUME Init PROVE PoolNumbersInv
    OBVIOUS
  <2>1. ChoiceInv
    BY ResetPhases DEF Init, ChoiceInv, At, Idle, NoProducer, ChosenGuestStaysUsable
  <2>2. guests = <<>> /\ \A c \in Client : ~lease[c].held
    BY DEF Init, NoLease
  <2>3. Listed = {}
    BY <2>2 DEF Listed
  <2> QED
    BY <2>1, <2>2, <2>3, InitPoolInv DEF PoolNumbersInv, ChosenInv, NumbersInv
<1>2. PoolNumbersInv /\ [Next]_vars => PoolNumbersInv'
  <2>1. ASSUME PoolNumbersInv, UNCHANGED vars PROVE ChoiceInv' /\ NumbersInv'
    BY <2>1 DEF PoolNumbersInv, ChosenInv, vars, ChoiceInv, NumbersInv, At,
                ChosenGuestStaysUsable, Listed
  <2> QED
    BY <2>1, NextPoolInv, NextChoiceInv, NextNumbersInv DEF PoolNumbersInv, ChosenInv
<1>3. PoolNumbersInv => LeaseResolves
  <2> SUFFICES ASSUME PoolNumbersInv, NEW c \in Client, lease[c].held, ~lease[c].stale,
                      NEW d \in WithId(GuestId(lease[c].nr)),
                      heap[d].nr \in lease[c].nr - IdWrap + 1 .. lease[c].nr + IdWrap - 1
               PROVE  d = lease[c].d
    BY DEF LeaseResolves
  <2>1. TypeInv
    BY DEF PoolNumbersInv, ChosenInv, PoolInv, ChainTypeInv
  <2>2. d \in Listed /\ heap[d].nr % IdWrap = lease[c].nr % IdWrap
    BY DEF WithId, GuestId
  <2>3. heap[d].nr \in Nat /\ lease[c].nr \in Nat /\ IdWrap \in Nat \ {0}
    BY <2>1, <2>2, PoolParts, PoolAssumption
  <2>4. heap[d].nr = lease[c].nr
    BY <2>2, <2>3, ModWindow
  <2> QED
    BY <2>2, <2>4 DEF PoolNumbersInv, NumbersInv
<1> QED
  BY <1>1, <1>2, <1>3, PTL DEF Spec

-----------------------------------------------------------------------------
(* A pool that is never recycled.                                          *)

LeaseInv == ChosenInv /\ NumbersInv /\ FirstPool /\ HoldersInv

LEMMA PoolLeaseInv ==
  ASSUME ~Recycle, MakeBound <= IdWrap
  PROVE  Spec => []LeaseInv
<1>1. Init => LeaseInv
  <2> SUFFICES ASSUME Init PROVE LeaseInv
    OBVIOUS
  <2>1. /\ recycling = FALSE /\ call.kind = "idle" /\ made = 0 /\ Listed = {}
        /\ \A c \in Client : ~lease[c].held
        /\ \A p \in Gen : prod[p].pc \in {"none", "queued"}
    <3>1. recycling = FALSE
      BY PoolAssumption DEF Init
    <3>2. \A c \in Client : ~lease[c].held
      BY DEF Init, NoLease
    <3>3. \A p \in Gen : prod[p].pc \in {"none", "queued"}
      BY ResetPhases DEF Init
    <3>4. call.kind = "idle" /\ made = 0 /\ guests = <<>>
      BY DEF Init, Idle
    <3>5. Listed = {}
      BY <3>4 DEF Listed
    <3> QED
      BY <3>1, <3>2, <3>3, <3>4, <3>5
  <2>2. NumbersInv /\ FirstPool
    <3>1. MakeBound \in Nat
      BY PoolAssumption
    <3>2. NumbersInv
      BY <2>1 DEF NumbersInv
    <3>3. FirstPool
      BY <2>1, <3>1 DEF FirstPool, At
    <3> QED
      BY <3>2, <3>3
  <2>3. HoldersInv
    BY <2>1 DEF HoldersInv, HoldersAreCounted, At
  <2>4. ChoiceInv
    BY <2>1, ResetPhases DEF Init, ChoiceInv, At, NoProducer, ChosenGuestStaysUsable, Early
  <2> QED
    BY <2>2, <2>3, <2>4, InitPoolInv DEF LeaseInv, ChosenInv
<1>2. LeaseInv /\ [Next]_vars => LeaseInv'
  <2>1. ASSUME LeaseInv, UNCHANGED vars PROVE NumbersInv' /\ FirstPool' /\ HoldersInv' /\ ChoiceInv'
    <3>1. Listed' = Listed /\ \A d : Holders(d)' = Holders(d)
      BY <2>1 DEF vars, Listed, Holders
    <3> QED
      BY <2>1, <3>1 DEF LeaseInv, ChosenInv, vars, NumbersInv, FirstPool, HoldersInv,
                        HoldersAreCounted, ChoiceInv, ChosenGuestStaysUsable, At
  <2>2. ASSUME LeaseInv, [Next]_vars PROVE PoolInv'
    BY <2>2, NextPoolInv DEF LeaseInv, ChosenInv, FirstPool
  <2> QED
    BY <2>1, <2>2, NextChoiceInv, NextNumbersInv, NextFirstPool, NextHoldersInv
    DEF LeaseInv, ChosenInv
<1> QED
  BY <1>1, <1>2, PTL DEF Spec

\* In a pool that is never recycled and whose numbers have not come round,
\* guest.connected is the number of the clients that hold the guest, at every
\* moment between request_vm, free_vm and reuse_vm, and a guest that may be
\* given to a new attacker or be timed out has none.
THEOREM PoolHoldersAreCounted ==
  ASSUME ~Recycle, MakeBound <= IdWrap
  PROVE  Spec => []HoldersAreCounted
<1>1. LeaseInv => HoldersAreCounted
  BY DEF LeaseInv, HoldersInv
<1> QED
  BY <1>1, PoolLeaseInv, PTL
=============================================================================
