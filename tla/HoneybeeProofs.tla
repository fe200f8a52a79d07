---------------------------- MODULE HoneybeeProofs ----------------------------
(***************************************************************************)
(* Theorems about HoneybeeOutput, for any sessions, any buffer_size and any *)
(* number of events: the types of its variables, and that no event is sent *)
(* twice however the calls of _send_event, _connect and _flush_buffer nest. *)
(***************************************************************************)
EXTENDS HoneybeeOutput, SequenceTheorems, TLAPS

(* The calls under way, as a sequence that the library's facts apply to.   *)
TypeInv == TypeOK /\ stack \in Seq(Frame)

(* The events a call under way has still to send.                          *)
HeldBy(frame) ==
  IF frame.fn = "flush" THEN ToSet(frame.todo)
  ELSE IF frame.fn = "send" THEN {frame.ev} ELSE {}

(* Every event there is was logged: the next one is new everywhere.        *)
NumberedInv ==
  /\ \A e \in ToSet(sent) \cup ToSet(buffer) : e.n <= nEvent
  /\ \A i \in 1 .. Len(stack) : \A e \in HeldBy(stack[i]) : e.n <= nEvent

(* An event is in one place: sent, in the buffer, in one copy of it that a *)
(* flush works through, or with one call that sends it.                    *)
EachOnce ==
  /\ IsInjective(sent) /\ IsInjective(buffer)
  /\ \A i \in 1 .. Len(stack) :
       stack[i].fn = "flush" => IsInjective(stack[i].todo)
OnePlace ==
  /\ ToSet(sent) \cap ToSet(buffer) = {}
  /\ \A i \in 1 .. Len(stack) :
       HeldBy(stack[i]) \cap (ToSet(sent) \cup ToSet(buffer)) = {}
  /\ \A i, j \in 1 .. Len(stack) :
       i # j => HeldBy(stack[i]) \cap HeldBy(stack[j]) = {}
PlacesInv == NumberedInv /\ EachOnce /\ OnePlace

-----------------------------------------------------------------------------
(* Sequences: what Front, a copy with one or two frames on it, Append and  *)
(* Tail contain.                                                           *)

LEMMA FrontKeeps ==
  ASSUME NEW S, NEW q \in Seq(S), q # <<>>
  PROVE  /\ Front(q) \in Seq(S)
         /\ Len(Front(q)) = Len(q) - 1
         /\ \A i \in 1 .. Len(q) - 1 : Front(q)[i] = q[i]
         /\ Last(q) \in S /\ Last(q) = q[Len(q)] /\ Len(q) \in 1 .. Len(q)
<1>1. Len(q) \in Nat \ {0} /\ Len(q) \in 1 .. Len(q) /\ Len(q) - 1 \in Nat
      /\ 1 .. Len(q) - 1 \subseteq 1 .. Len(q)
  OBVIOUS
<1>2. Last(q) = q[Len(q)] /\ Last(q) \in S
  BY <1>1 DEF Last
<1>3. /\ \A i \in 1 .. Len(q) - 1 : q[i] \in S
      /\ Front(q) = SubSeq(q, 1, Len(q) - 1)
  BY <1>1 DEF Front
<1>4. /\ Len(Front(q)) = Len(q) - 1
      /\ \A i \in 1 .. Len(q) - 1 : Front(q)[i] = q[i]
      /\ Front(q) \in Seq(S)
  <2> DEFINE n == Len(q) - 1
  <2>1. n \in Nat /\ 1 \in Int /\ n \in Int /\ \A i \in 1 .. n : q[i] \in S
    BY <1>1, <1>3
  <2>2. Front(q) = SubSeq(q, 1, n)
    BY <1>3
  <2> HIDE DEF n
  <2>3. /\ SubSeq(q, 1, n) \in Seq(S)
        /\ Len(SubSeq(q, 1, n)) = IF 1 <= n THEN n - 1 + 1 ELSE 0
        /\ \A i \in 1 .. n - 1 + 1 : SubSeq(q, 1, n)[i] = q[1 + i - 1]
    BY <2>1, SubSeqProperties
  <2>4. Len(Front(q)) = n /\ Front(q) \in Seq(S)
        /\ \A i \in 1 .. n : Front(q)[i] = q[i]
    BY <2>1, <2>2, <2>3
  <2> QED BY <2>4 DEF n
<1> QED BY <1>1, <1>2, <1>4

LEMMA OneOnTop ==
  ASSUME NEW S, NEW q \in Seq(S), NEW x \in S
  PROVE  /\ Append(q, x) \in Seq(S)
         /\ Len(Append(q, x)) = Len(q) + 1
         /\ \A i \in 1 .. Len(q) : Append(q, x)[i] = q[i]
         /\ Append(q, x)[Len(q) + 1] = x
OBVIOUS

LEMMA TwoOnTop ==
  ASSUME NEW S, NEW q \in Seq(S), NEW x \in S, NEW y \in S
  PROVE  /\ q \o <<x, y>> \in Seq(S)
         /\ Len(q \o <<x, y>>) = Len(q) + 2
         /\ \A i \in 1 .. Len(q) : (q \o <<x, y>>)[i] = q[i]
         /\ (q \o <<x, y>>)[Len(q) + 1] = x
         /\ (q \o <<x, y>>)[Len(q) + 2] = y
<1> <<x, y>> \in Seq(S) /\ Len(<<x, y>>) = 2 /\ <<x, y>>[1] = x /\ <<x, y>>[2] = y
  OBVIOUS
<1> QED OBVIOUS

LEMMA EmptyList ==
  ASSUME NEW S
  PROVE  /\ <<>> \in Seq(S) /\ Len(<<>>) = 0 /\ DOMAIN <<>> = {}
         /\ ToSet(<<>>) = {} /\ IsInjective(<<>>)
BY DEF ToSet, IsInjective

LEMMA TwoFrames ==
  ASSUME NEW S, NEW x \in S, NEW y \in S
  PROVE  /\ <<x, y>> \in Seq(S) /\ Len(<<x, y>>) = 2
         /\ <<x, y>>[1] = x /\ <<x, y>>[2] = y
OBVIOUS

LEMMA TwoElements ==
  ASSUME NEW x, NEW y
  PROVE  Len(<<x, y>>) = 2 /\ <<x, y>>[1] = x /\ <<x, y>>[2] = y
OBVIOUS

LEMMA AppendAdds ==
  ASSUME NEW S, NEW q \in Seq(S), NEW x \in S
  PROVE  /\ ToSet(Append(q, x)) = ToSet(q) \cup {x}
         /\ IsInjective(q) /\ x \notin ToSet(q) => IsInjective(Append(q, x))
<1>1. /\ DOMAIN q = 1 .. Len(q)
      /\ DOMAIN Append(q, x) = 1 .. Len(q) + 1
      /\ Len(q) \in Nat
  OBVIOUS
<1>2. /\ \A i \in 1 .. Len(q) : Append(q, x)[i] = q[i]
      /\ Append(q, x)[Len(q) + 1] = x
  OBVIOUS
<1>3. 1 .. Len(q) + 1 = (1 .. Len(q)) \cup {Len(q) + 1}
  BY <1>1
<1>4. ToSet(Append(q, x)) = ToSet(q) \cup {x}
  <2> \A v : v \in ToSet(Append(q, x)) <=> v \in ToSet(q) \cup {x}
    BY <1>1, <1>2, <1>3 DEF ToSet
  <2> QED OBVIOUS
<1>5. IsInjective(q) /\ x \notin ToSet(q) => IsInjective(Append(q, x))
  BY <1>1, <1>2, <1>3 DEF IsInjective, ToSet
<1> QED BY <1>4, <1>5

LEMMA TailKeeps ==
  ASSUME NEW S, NEW q \in Seq(S), q # <<>>
  PROVE  /\ Tail(q) \in Seq(S) /\ Len(Tail(q)) = Len(q) - 1
         /\ Head(q) \in S /\ Head(q) \in ToSet(q)
         /\ ToSet(Tail(q)) \subseteq ToSet(q)
         /\ IsInjective(q) => /\ IsInjective(Tail(q))
                              /\ Head(q) \notin ToSet(Tail(q))
<1>1. /\ DOMAIN q = 1 .. Len(q) /\ Len(q) \in Nat \ {0}
      /\ DOMAIN Tail(q) = 1 .. Len(q) - 1
      /\ Tail(q) \in Seq(S) /\ Len(Tail(q)) = Len(q) - 1
      /\ \A i \in 1 .. Len(q) - 1 : Tail(q)[i] = q[i + 1] /\ i + 1 \in 1 .. Len(q)
      /\ Head(q) = q[1] /\ 1 \in 1 .. Len(q) /\ q[1] \in S
  OBVIOUS
<1>2. ToSet(Tail(q)) \subseteq ToSet(q) /\ Head(q) \in ToSet(q)
  BY <1>1 DEF ToSet
<1>3. ASSUME IsInjective(q)
      PROVE  IsInjective(Tail(q)) /\ Head(q) \notin ToSet(Tail(q))
  <2>1. \A i, j \in 1 .. Len(q) : q[i] = q[j] => i = j
    BY <1>1, <1>3 DEF IsInjective
  <2>2. ASSUME NEW i \in 1 .. Len(q) - 1, NEW j \in 1 .. Len(q) - 1,
               Tail(q)[i] = Tail(q)[j]
        PROVE  i = j
    <3>1. i + 1 = j + 1
      BY <1>1, <2>1, <2>2
    <3> QED BY <3>1
  <2>3. ASSUME NEW i \in 1 .. Len(q) - 1, Tail(q)[i] = q[1] PROVE FALSE
    <3>1. i + 1 = 1
      BY <1>1, <2>1, <2>3
    <3> QED BY <3>1
  <2> QED BY <1>1, <2>2, <2>3 DEF IsInjective, ToSet
<1> QED BY <1>1, <1>2, <1>3

-----------------------------------------------------------------------------
(* Frames, and what Return, Goto and CallThen make of the stack.           *)

LEMMA FrameKinds ==
  ASSUME NEW f \in Frame
  PROVE  /\ f.fn \in {"emit", "stop", "connect", "flush", "send"}
         /\ f.fn = "emit" => f.ev \in Event
         /\ f.fn = "flush" => f.todo \in Seq(Event)
         /\ f.fn = "send" =>
              /\ f.ev \in Event
              /\ \A pc \in {"begin", "joined", "write", "rejoined"} :
                   /\ [f EXCEPT !.pc = pc] \in Frame
                   /\ [f EXCEPT !.pc = pc].fn = "send"
                   /\ [f EXCEPT !.pc = pc].ev = f.ev
BY DEF Frame, Stopping

LEMMA FramesMade ==
  /\ Stopping \in Frame
  /\ \A ev \in Event : Emitting(ev) \in Frame
  /\ \A pc \in {"try", "flushed"} : Connecting(pc) \in Frame
  /\ \A pc \in {"begin", "loop"}, todo \in Seq(Event) : Flushing(pc, todo) \in Frame
  /\ \A ev \in Event, keep \in BOOLEAN : Sending("begin", ev, keep) \in Frame
BY DEF Frame, Stopping, Emitting, Connecting, Flushing, Sending

LEMMA Typed ==
  ASSUME TypeInv
  PROVE  /\ sessions \subseteq Session /\ closed \subseteq Session
         /\ connected \in BOOLEAN /\ stopped \in BOOLEAN
         /\ buffer \in Seq(Event) /\ Len(buffer) <= BufferSize
         /\ stack \in Seq(Frame)
         /\ ret \in {"true", "false", "none"}
         /\ nEvent \in 0 .. MaxEvent
         /\ sent \in Seq(Event)
BY DEF TypeInv, TypeOK

LEMMA Untyped ==
  ASSUME sessions' \subseteq Session, closed' \subseteq Session,
         connected' \in BOOLEAN, stopped' \in BOOLEAN,
         buffer' \in Seq(Event), Len(buffer') <= BufferSize,
         stack' \in Seq(Frame),
         ret' \in {"true", "false", "none"},
         nEvent' \in 0 .. MaxEvent,
         sent' \in Seq(Event)
  PROVE  TypeInv'
<1> \A i \in DOMAIN stack' : stack'[i] \in Frame
  OBVIOUS
<1> QED BY DEF TypeInv, TypeOK

LEMMA TopTyped ==
  ASSUME TypeInv, Busy
  PROVE  /\ Top \in Frame /\ Top = stack[Len(stack)]
         /\ Len(stack) \in 1 .. Len(stack) /\ Len(stack) \in Nat
         /\ Below \in Seq(Frame) /\ Len(Below) = Len(stack) - 1
         /\ \A i \in 1 .. Len(stack) - 1 : Below[i] = stack[i]
<1>1. stack \in Seq(Frame) /\ stack # <<>>
  BY DEF TypeInv, Busy
<1> QED BY <1>1, FrontKeeps DEF Top, Below

(* The frames below the innermost call stay as they are.                   *)
LEMMA Returns ==
  ASSUME TypeInv, Busy, NEW value, Return(value)
  PROVE  /\ stack' \in Seq(Frame) /\ Len(stack') = Len(stack) - 1
         /\ \A i \in 1 .. Len(stack') : stack'[i] = stack[i] /\ i \in 1 .. Len(stack)
         /\ ret' = value
BY TopTyped DEF Return

LEMMA Goes ==
  ASSUME TypeInv, Busy, NEW f \in Frame, Goto(f)
  PROVE  /\ stack' \in Seq(Frame) /\ Len(stack') = Len(stack)
         /\ \A i \in 1 .. Len(stack) - 1 : stack'[i] = stack[i]
         /\ stack'[Len(stack)] = f
         /\ ret' = "none"
<1>1. stack' = Append(Below, f) /\ ret' = "none"
  BY DEF Goto
<1>2. /\ stack' \in Seq(Frame) /\ Len(stack') = Len(Below) + 1
      /\ \A i \in 1 .. Len(Below) : stack'[i] = Below[i]
      /\ stack'[Len(Below) + 1] = f
  BY <1>1, TopTyped, OneOnTop
<1> QED BY <1>1, <1>2, TopTyped

LEMMA Calls ==
  ASSUME TypeInv, Busy, NEW f \in Frame, NEW g \in Frame, CallThen(f, g)
  PROVE  /\ stack' \in Seq(Frame) /\ Len(stack') = Len(stack) + 1
         /\ \A i \in 1 .. Len(stack) - 1 : stack'[i] = stack[i]
         /\ stack'[Len(stack)] = f
         /\ stack'[Len(stack) + 1] = g
         /\ ret' = "none"
<1>1. stack' = Below \o <<f, g>> /\ ret' = "none"
  BY DEF CallThen
<1>2. /\ stack' \in Seq(Frame) /\ Len(stack') = Len(Below) + 2
      /\ \A i \in 1 .. Len(Below) : stack'[i] = Below[i]
      /\ stack'[Len(Below) + 1] = f /\ stack'[Len(Below) + 2] = g
  BY <1>1, TopTyped, TwoOnTop
<1>3. Len(Below) + 1 = Len(stack) /\ Len(Below) + 2 = Len(stack) + 1
      /\ \A i \in 1 .. Len(stack) - 1 : Below[i] = stack[i] /\ i \in 1 .. Len(Below)
  BY TopTyped
<1> QED BY <1>1, <1>2, <1>3

-----------------------------------------------------------------------------
(* Types.                                                                  *)

LEMMA TypeInit == Init => TypeInv
<1> SUFFICES ASSUME Init PROVE TypeInv
  OBVIOUS
<1>1. Connecting("try") \in Frame
  BY FramesMade
<1>2. stack \in Seq(Frame) /\ \A i \in DOMAIN stack : stack[i] \in Frame
  BY <1>1 DEF Init
<1>3. /\ sessions \subseteq Session /\ closed \subseteq Session
      /\ connected \in BOOLEAN /\ stopped \in BOOLEAN
      /\ ret \in {"true", "false", "none"}
  BY DEF Init
<1>4. /\ buffer \in Seq(Event) /\ Len(buffer) <= BufferSize
      /\ nEvent \in 0 .. MaxEvent /\ sent \in Seq(Event)
  BY EmptyList, HoneybeeAssumption DEF Init
<1> QED BY <1>2, <1>3, <1>4 DEF TypeInv, TypeOK

LEMMA BufferedKeepsTypes ==
  ASSUME buffer \in Seq(Event), Len(buffer) <= BufferSize, NEW ev \in Event, Buffered(ev)
  PROVE  buffer' \in Seq(Event) /\ Len(buffer') <= BufferSize
<1> DEFINE kept == IF Len(buffer) >= BufferSize THEN Tail(buffer) ELSE buffer
<1>1. BufferSize \in Nat \ {0} /\ Len(buffer) \in Nat
  BY HoneybeeAssumption
<1>2. kept \in Seq(Event) /\ Len(kept) + 1 <= BufferSize
  <2>1. CASE Len(buffer) >= BufferSize
    <3>1. buffer # <<>>
      BY <1>1, <2>1
    <3>2. Tail(buffer) \in Seq(Event) /\ Len(Tail(buffer)) = Len(buffer) - 1
      BY <3>1, TailKeeps
    <3> QED BY <1>1, <2>1, <3>2
  <2>2. CASE ~(Len(buffer) >= BufferSize)
    BY <1>1, <2>2
  <2> QED BY <2>1, <2>2
<1>3. buffer' = Append(kept, ev)
  BY DEF Buffered
<1> HIDE DEF kept
<1> QED BY <1>1, <1>2, <1>3, OneOnTop

LEMMA GiveUpKeepsTypes == TypeInv /\ Busy /\ Top.fn = "send" /\ GiveUp => TypeInv'
<1> SUFFICES ASSUME TypeInv, Busy, Top.fn = "send", GiveUp PROVE TypeInv'
  OBVIOUS
<1>1. Top.ev \in Event /\ Return("false") /\ UNCHANGED <<hookVars, connected, sent>>
  BY TopTyped, FrameKinds DEF GiveUp
<1>2. stack' \in Seq(Frame) /\ ret' = "false"
  BY <1>1, Returns
<1>3. buffer' \in Seq(Event) /\ Len(buffer') <= BufferSize
  BY <1>1, Typed, BufferedKeepsTypes DEF GiveUp
<1> QED BY <1>1, <1>2, <1>3, Typed, Untyped DEF hookVars

LEMMA TypeNext == TypeInv /\ [Next]_vars => TypeInv'
<1> SUFFICES ASSUME TypeInv, [Next]_vars PROVE TypeInv'
  OBVIOUS
<1> USE Typed
<1>1. ASSUME NEW kind \in {"connect", "other", "closed"}, NEW s \in Session, Log(kind, s)
      PROVE  TypeInv'
  <2> DEFINE ev == [n |-> nEvent + 1, kind |-> kind, s |-> s]
  <2>1. nEvent + 1 \in 0 .. MaxEvent /\ nEvent \in Nat
    BY <1>1, HoneybeeAssumption DEF Log
  <2>2. ev \in Event
    BY <2>1 DEF Event
  <2>3. Emitting(ev) \in Frame /\ Sending("begin", ev, TRUE) \in Frame
    BY <2>2, FramesMade
  <2>4. \/ stack' = <<Emitting(ev), Sending("begin", ev, TRUE)>>
        \/ stack' = <<>>
    BY <1>1 DEF Log
  <2> HIDE DEF ev
  <2>5. stack' \in Seq(Frame)
    <3>1. <<Emitting(ev), Sending("begin", ev, TRUE)>> \in Seq(Frame)
      BY <2>3, TwoFrames
    <3>2. <<>> \in Seq(Frame)
      BY EmptyList
    <3> QED BY <2>4, <3>1, <3>2
  <2>6. sessions' \subseteq Session /\ closed' \subseteq Session
    BY <1>1 DEF Log
  <2> QED BY <1>1, <2>1, <2>5, <2>6, Untyped DEF Log, sinkVars
<1>2. ASSUME Stop PROVE TypeInv'
  <2>1. Stopping \in Frame /\ Flushing("begin", <<>>) \in Frame
    <3> <<>> \in Seq(Event)
      OBVIOUS
    <3> QED BY FramesMade
  <2>2. stack' \in Seq(Frame)
    BY <1>2, <2>1 DEF Stop
  <2> QED BY <1>2, <2>2, Untyped DEF Stop, sinkVars
<1>3. ASSUME Logged PROVE TypeInv'
  <2>1. Busy /\ Return("none")
    BY <1>3 DEF Logged
  <2>2. stack' \in Seq(Frame) /\ ret' = "none"
    BY <2>1, Returns
  <2> QED BY <1>3, <2>2, Untyped DEF Logged, sinkVars
<1>4. ASSUME Stopped PROVE TypeInv'
  <2>1. Busy /\ Return("none")
    BY <1>4 DEF Stopped
  <2>2. stack' \in Seq(Frame) /\ ret' = "none"
    BY <2>1, Returns
  <2> QED BY <1>4, <2>2, Untyped DEF Stopped, hookVars
<1>5. ASSUME Connect PROVE TypeInv'
  <2>1. Connecting("flushed") \in Frame /\ Flushing("begin", <<>>) \in Frame
    <3> <<>> \in Seq(Event)
      OBVIOUS
    <3> QED BY FramesMade
  <2>2. Busy /\ CallThen(Connecting("flushed"), Flushing("begin", <<>>))
    BY <1>5 DEF Connect, In
  <2>3. stack' \in Seq(Frame) /\ ret' = "none"
    BY <2>1, <2>2, Calls
  <2> QED BY <1>5, <2>3, Untyped DEF Connect, hookVars
<1>6. ASSUME CannotConnect PROVE TypeInv'
  <2>1. Busy /\ Return("false")
    BY <1>6 DEF CannotConnect, In
  <2>2. stack' \in Seq(Frame) /\ ret' = "false"
    BY <2>1, Returns
  <2> QED BY <1>6, <2>2, Untyped DEF CannotConnect, hookVars, sinkVars
<1>7. ASSUME Connected PROVE TypeInv'
  <2>1. Busy /\ Return("true")
    BY <1>7 DEF Connected, In
  <2>2. stack' \in Seq(Frame) /\ ret' = "true"
    BY <2>1, Returns
  <2> QED BY <1>7, <2>2, Untyped DEF Connected, hookVars, sinkVars
<1>8. ASSUME TakeBuffer PROVE TypeInv'
  <2>1. /\ Busy
        /\ \/ Goto(Flushing("loop", buffer)) /\ buffer' = <<>>
           \/ Goto(Flushing("loop", <<>>)) /\ buffer' = buffer
    BY <1>8 DEF TakeBuffer, In
  <2>2. Flushing("loop", buffer) \in Frame /\ Flushing("loop", <<>>) \in Frame
    <3> <<>> \in Seq(Event)
      OBVIOUS
    <3> QED BY FramesMade
  <2>3. stack' \in Seq(Frame) /\ ret' = "none"
    BY <2>1, <2>2, Goes
  <2>4. buffer' \in Seq(Event) /\ Len(buffer') <= BufferSize
    <3>1. <<>> \in Seq(Event) /\ Len(<<>>) = 0
      OBVIOUS
    <3>2. Len(<<>>) <= BufferSize
      BY <3>1, HoneybeeAssumption
    <3> QED BY <2>1, <3>1, <3>2
  <2> QED BY <1>8, <2>3, <2>4, Untyped DEF TakeBuffer, hookVars
<1>9. ASSUME FlushNext PROVE TypeInv'
  <2>1. /\ Busy /\ Top.fn = "flush" /\ Top.todo # <<>>
        /\ CallThen(Flushing("loop", Tail(Top.todo)), Sending("begin", Head(Top.todo), FALSE))
    BY <1>9 DEF FlushNext, In
  <2>2. Top.todo \in Seq(Event)
    BY <2>1, TopTyped, FrameKinds
  <2>3. Tail(Top.todo) \in Seq(Event) /\ Head(Top.todo) \in Event
    BY <2>1, <2>2, TailKeeps
  <2>4. /\ Flushing("loop", Tail(Top.todo)) \in Frame
        /\ Sending("begin", Head(Top.todo), FALSE) \in Frame
    BY <2>3, FramesMade
  <2>5. stack' \in Seq(Frame) /\ ret' = "none"
    BY <2>1, <2>4, Calls
  <2> QED BY <1>9, <2>5, Untyped DEF FlushNext, hookVars, sinkVars
<1>10. ASSUME Flushed PROVE TypeInv'
  <2>1. Busy /\ Return("none")
    BY <1>10 DEF Flushed, In
  <2>2. stack' \in Seq(Frame) /\ ret' = "none"
    BY <2>1, Returns
  <2> QED BY <1>10, <2>2, Untyped DEF Flushed, hookVars, sinkVars
<1>11. ASSUME BeginSend PROVE TypeInv'
  <2>1. Busy /\ Top.fn = "send"
    BY <1>11 DEF BeginSend, In
  <2>2. /\ [Top EXCEPT !.pc = "write"] \in Frame /\ [Top EXCEPT !.pc = "joined"] \in Frame
        /\ Connecting("try") \in Frame
    BY <2>1, TopTyped, FrameKinds, FramesMade
  <2>3. \/ Goto([Top EXCEPT !.pc = "write"])
        \/ CallThen([Top EXCEPT !.pc = "joined"], Connecting("try"))
    BY <1>11 DEF BeginSend
  <2>4. stack' \in Seq(Frame) /\ ret' = "none"
    BY <2>1, <2>2, <2>3, Goes, Calls
  <2> QED BY <1>11, <2>4, Untyped DEF BeginSend, hookVars, sinkVars
<1>12. ASSUME Joined PROVE TypeInv'
  <2>1. Busy /\ Top.fn = "send" /\ Goto([Top EXCEPT !.pc = "write"])
    BY <1>12 DEF Joined, In
  <2>2. [Top EXCEPT !.pc = "write"] \in Frame
    BY <2>1, TopTyped, FrameKinds
  <2>3. stack' \in Seq(Frame) /\ ret' = "none"
    BY <2>1, <2>2, Goes
  <2> QED BY <1>12, <2>3, Untyped DEF Joined, hookVars, sinkVars
<1>13. ASSUME NotJoined PROVE TypeInv'
  BY <1>13, GiveUpKeepsTypes DEF NotJoined, In
<1>14. ASSUME Write PROVE TypeInv'
  <2>1. Busy /\ Top.fn = "send" /\ Return("true") /\ sent' = Append(sent, Top.ev)
    BY <1>14 DEF Write, In
  <2>2. Top.ev \in Event
    BY <2>1, TopTyped, FrameKinds
  <2>3. stack' \in Seq(Frame) /\ ret' = "true"
    BY <2>1, Returns
  <2>4. sent' \in Seq(Event)
    BY <2>1, <2>2
  <2> QED BY <1>14, <2>3, <2>4, Untyped DEF Write, hookVars
<1>15. ASSUME WriteFails PROVE TypeInv'
  <2>1. /\ Busy /\ Top.fn = "send"
        /\ CallThen([Top EXCEPT !.pc = "rejoined"], Connecting("try"))
    BY <1>15 DEF WriteFails, In
  <2>2. [Top EXCEPT !.pc = "rejoined"] \in Frame /\ Connecting("try") \in Frame
    BY <2>1, TopTyped, FrameKinds, FramesMade
  <2>3. stack' \in Seq(Frame) /\ ret' = "none"
    BY <2>1, <2>2, Calls
  <2> QED BY <1>15, <2>3, Untyped DEF WriteFails, hookVars
<1>16. ASSUME WriteRaises PROVE TypeInv'
  <2>1. stack' \in Seq(Frame) /\ ret' = "none"
    BY <1>16 DEF WriteRaises
  <2> QED BY <1>16, <2>1, Untyped DEF WriteRaises, hookVars, sinkVars
<1>17. ASSUME RewriteFails PROVE TypeInv'
  BY <1>17, GiveUpKeepsTypes DEF RewriteFails, In
<1>18. ASSUME UNCHANGED vars PROVE TypeInv'
  BY <1>18 DEF TypeInv, TypeOK, vars
<1> QED
  BY <1>1, <1>2, <1>3, <1>4, <1>5, <1>6, <1>7, <1>8, <1>9, <1>10, <1>11, <1>12, <1>13,
     <1>14, <1>15, <1>16, <1>17, <1>18 DEF Next, Returning

(* The plugin's state keeps its type, for any outcomes of the socket: its  *)
(* buffer never holds more than buffer_size events, although the calls     *)
(* that fill it nest in the one that empties it.                           *)
THEOREM HoneybeeTypeOK == Spec => []TypeOK
<1>1. TypeInv => TypeOK
  BY DEF TypeInv
<1> QED BY <1>1, TypeInit, TypeNext, PTL DEF Spec

-----------------------------------------------------------------------------
(* No event is sent twice.                                                 *)

LEMMA PlacesInvImplies == TypeInv /\ PlacesInv => SentOnce
<1> SUFFICES ASSUME TypeInv, PlacesInv PROVE ToSet(sent) \cap Waiting = {}
  BY DEF SentOnce, PlacesInv, EachOnce
<1> SUFFICES ASSUME NEW e \in ToSet(sent), e \in Waiting PROVE FALSE
  OBVIOUS
<1>1. DOMAIN stack = 1 .. Len(stack)
  BY Typed
<1>2. e \notin ToSet(buffer)
  BY DEF PlacesInv, OnePlace
<1>3. \A i \in DOMAIN stack : e \notin HeldBy(stack[i])
  BY <1>1 DEF PlacesInv, OnePlace
<1>4. PICK i \in DOMAIN stack :
        \/ stack[i].fn = "flush" /\ e \in ToSet(stack[i].todo)
        \/ stack[i].fn = "send" /\ e = stack[i].ev
  <2>1. CASE e \in UNION {ToSet(stack[i].todo) : i \in {j \in DOMAIN stack : stack[j].fn = "flush"}}
    <3>1. PICK i \in {j \in DOMAIN stack : stack[j].fn = "flush"} : e \in ToSet(stack[i].todo)
      BY <2>1
    <3> QED BY <3>1
  <2>2. CASE e \in {stack[i].ev : i \in {j \in DOMAIN stack : stack[j].fn = "send" /\ ~stack[j].keep}}
    BY <2>2
  <2> QED BY <1>2, <2>1, <2>2 DEF Waiting
<1> QED BY <1>3, <1>4 DEF HeldBy

(* What each kind of frame holds.                                          *)
LEMMA Holdings ==
  /\ \A ev : HeldBy(Emitting(ev)) = {}
  /\ HeldBy(Stopping) = {}
  /\ \A pc : HeldBy(Connecting(pc)) = {}
  /\ \A pc, todo : HeldBy(Flushing(pc, todo)) = ToSet(todo)
  /\ \A pc, ev, keep : HeldBy(Sending(pc, ev, keep)) = {ev}
BY DEF HeldBy, Emitting, Stopping, Connecting, Flushing, Sending

LEMMA NotFlushing ==
  /\ \A ev : Emitting(ev).fn # "flush"
  /\ Stopping.fn # "flush"
  /\ \A pc : Connecting(pc).fn # "flush"
  /\ \A pc, todo : Flushing(pc, todo).todo = todo
  /\ \A pc, ev, keep : Sending(pc, ev, keep).fn # "flush"
BY DEF Emitting, Stopping, Connecting, Flushing, Sending

(* What the innermost call holds is nowhere else.                          *)
LEMMA TopHolds ==
  ASSUME TypeInv, PlacesInv, Busy
  PROVE  /\ HeldBy(Top) \cap (ToSet(sent) \cup ToSet(buffer)) = {}
         /\ \A i \in 1 .. Len(stack) - 1 : HeldBy(stack[i]) \cap HeldBy(Top) = {}
         /\ \A e \in HeldBy(Top) : e.n <= nEvent
         /\ Top.fn = "flush" => HeldBy(Top) = ToSet(Top.todo) /\ IsInjective(Top.todo)
         /\ Top.fn = "send" => HeldBy(Top) = {Top.ev}
<1>1. Top = stack[Len(stack)] /\ Len(stack) \in 1 .. Len(stack)
      /\ \A i \in 1 .. Len(stack) - 1 : i \in 1 .. Len(stack) /\ i # Len(stack)
  BY TopTyped
<1>2. /\ HeldBy(Top) \cap (ToSet(sent) \cup ToSet(buffer)) = {}
      /\ \A i \in 1 .. Len(stack) - 1 : HeldBy(stack[i]) \cap HeldBy(Top) = {}
      /\ \A e \in HeldBy(Top) : e.n <= nEvent
      /\ Top.fn = "flush" => IsInjective(Top.todo)
  BY <1>1 DEF PlacesInv, NumberedInv, EachOnce, OnePlace
<1> QED BY <1>2 DEF HeldBy

(* A step that leaves the k outermost calls alone and moves some events    *)
(* that none of those holds, to one place each.                            *)
Moves(k, moved) ==
  /\ k \in 0 .. Len(stack) /\ k <= Len(stack')
  /\ \A i \in 1 .. k : stack'[i] = stack[i] /\ HeldBy(stack[i]) \cap moved = {}
  /\ \A e \in moved : e.n <= nEvent'
  /\ nEvent <= nEvent'
  /\ ToSet(sent') \subseteq ToSet(sent) \cup moved
  /\ ToSet(buffer') \subseteq ToSet(buffer) \cup moved
  /\ ToSet(sent') \cap ToSet(buffer') = {}
  /\ IsInjective(sent') /\ IsInjective(buffer')
  /\ \A i \in k + 1 .. Len(stack') :
       /\ HeldBy(stack'[i]) \subseteq moved
       /\ HeldBy(stack'[i]) \cap (ToSet(sent') \cup ToSet(buffer')) = {}
       /\ stack'[i].fn = "flush" => IsInjective(stack'[i].todo)
  /\ \A i, j \in k + 1 .. Len(stack') :
       i # j => HeldBy(stack'[i]) \cap HeldBy(stack'[j]) = {}

LEMMA EventsMove ==
  ASSUME TypeInv, TypeInv', PlacesInv, NEW k, NEW moved, Moves(k, moved)
  PROVE  PlacesInv'
<1> USE DEF Moves
<1>1. /\ Len(stack) \in Nat /\ Len(stack') \in Nat /\ k \in Nat
      /\ \A i \in 1 .. k : i \in 1 .. Len(stack)
      /\ \A i \in 1 .. Len(stack') : i \in 1 .. k \/ i \in k + 1 .. Len(stack')
      /\ \A i \in 1 .. k, j \in k + 1 .. Len(stack') : i # j
  BY DEF TypeInv
<1>2. nEvent \in Nat /\ nEvent' \in Nat
  BY HoneybeeAssumption DEF TypeInv, TypeOK
<1>3. \A e \in Event : e.n \in Nat
  BY DEF Event
<1>4. /\ ToSet(sent) \subseteq Event /\ ToSet(buffer) \subseteq Event
      /\ \A i \in 1 .. k : HeldBy(stack[i]) \subseteq Event
  <2>1. \A q \in Seq(Event) : ToSet(q) \subseteq Event
    BY DEF ToSet
  <2>2. ASSUME NEW i \in 1 .. k PROVE HeldBy(stack[i]) \subseteq Event
    <3>1. stack[i] \in Frame
      BY <1>1, Typed
    <3>2. /\ stack[i].fn = "flush" => stack[i].todo \in Seq(Event)
          /\ stack[i].fn = "send" => stack[i].ev \in Event
      BY <3>1, FrameKinds
    <3>3. CASE stack[i].fn = "flush"
      BY <2>1, <3>2, <3>3 DEF HeldBy
    <3>4. CASE stack[i].fn # "flush"
      BY <3>2, <3>4 DEF HeldBy
    <3> QED BY <3>3, <3>4
  <2> QED BY <2>1, <2>2, Typed
<1>5. NumberedInv'
  <2>1. \A e \in ToSet(sent) \cup ToSet(buffer) : e.n <= nEvent'
    BY <1>2, <1>3, <1>4 DEF PlacesInv, NumberedInv
  <2>2. \A i \in 1 .. k : \A e \in HeldBy(stack'[i]) : e.n <= nEvent'
    BY <1>1, <1>2, <1>3, <1>4 DEF PlacesInv, NumberedInv
  <2>3. \A i \in 1 .. Len(stack') : \A e \in HeldBy(stack'[i]) : e.n <= nEvent'
    BY <1>1, <2>2
  <2>4. \A e \in ToSet(sent') \cup ToSet(buffer') : e.n <= nEvent'
    BY <2>1
  <2> QED BY <2>3, <2>4 DEF NumberedInv
<1>6. EachOnce'
  <2>1. \A i \in 1 .. k : stack'[i].fn = "flush" => IsInjective(stack'[i].todo)
    BY <1>1 DEF PlacesInv, EachOnce
  <2> QED BY <1>1, <2>1 DEF EachOnce
<1>7. OnePlace'
  <2>1. \A i \in 1 .. k : /\ HeldBy(stack'[i]) \cap (ToSet(sent) \cup ToSet(buffer)) = {}
                          /\ HeldBy(stack'[i]) \cap moved = {}
    BY <1>1 DEF PlacesInv, OnePlace
  <2>2. \A i, j \in 1 .. k : i # j => HeldBy(stack'[i]) \cap HeldBy(stack'[j]) = {}
    BY <1>1 DEF PlacesInv, OnePlace
  <2>3. \A i \in 1 .. Len(stack') :
          HeldBy(stack'[i]) \cap (ToSet(sent') \cup ToSet(buffer')) = {}
    <3> TAKE i \in 1 .. Len(stack')
    <3>1. CASE i \in 1 .. k
      BY <2>1, <3>1
    <3>2. CASE i \in k + 1 .. Len(stack')
      BY <3>2
    <3> QED BY <1>1, <3>1, <3>2
  <2>4. \A i \in 1 .. k, j \in k + 1 .. Len(stack') :
          HeldBy(stack'[i]) \cap HeldBy(stack'[j]) = {}
    BY <2>1
  <2>5. \A i, j \in 1 .. Len(stack') :
          i # j => HeldBy(stack'[i]) \cap HeldBy(stack'[j]) = {}
    <3> TAKE i, j \in 1 .. Len(stack')
    <3> HAVE i # j
    <3>1. CASE i \in 1 .. k /\ j \in 1 .. k
      BY <2>2, <3>1
    <3>2. CASE i \in 1 .. k /\ j \in k + 1 .. Len(stack')
      BY <2>4, <3>2
    <3>3. CASE i \in k + 1 .. Len(stack') /\ j \in 1 .. k
      BY <2>4, <3>3
    <3>4. CASE i \in k + 1 .. Len(stack') /\ j \in k + 1 .. Len(stack')
      BY <3>4
    <3> QED BY <1>1, <3>1, <3>2, <3>3, <3>4
  <2> QED BY <2>3, <2>5 DEF OnePlace
<1> QED BY <1>5, <1>6, <1>7 DEF PlacesInv

LEMMA PlacesInit == Init => PlacesInv
<1> SUFFICES ASSUME Init PROVE PlacesInv
  OBVIOUS
<1>1. Connecting("try") \in Frame
  BY FramesMade
<1>2. Len(stack) = 1 /\ stack[1] = Connecting("try") /\ sent = <<>> /\ buffer = <<>>
  BY <1>1 DEF Init
<1>3. ToSet(sent) = {} /\ ToSet(buffer) = {} /\ IsInjective(sent) /\ IsInjective(buffer)
  <2>1. ToSet(<<>>) = {} /\ IsInjective(<<>>)
    BY DEF ToSet, IsInjective
  <2> QED BY <1>2, <2>1
<1>4. \A i \in 1 .. Len(stack) :
        i = 1 /\ HeldBy(stack[i]) = {} /\ stack[i].fn # "flush"
  BY <1>2, Holdings, NotFlushing
<1> QED BY <1>3, <1>4 DEF PlacesInv, NumberedInv, EachOnce, OnePlace

(* A call returns, and what it held is gone.                               *)
LEMMA ReturnKeepsPlaces ==
  ASSUME TypeInv, TypeInv', PlacesInv, Busy, NEW value, Return(value),
         UNCHANGED <<buffer, sent, nEvent>>
  PROVE  PlacesInv'
<1> DEFINE k == Len(stack) - 1
<1>1. /\ k \in 0 .. Len(stack) /\ k <= Len(stack')
      /\ \A i \in 1 .. k : stack'[i] = stack[i]
      /\ Len(stack') = k
  BY TopTyped, Returns
<1>2. /\ \A i \in k + 1 .. Len(stack') : FALSE
      /\ nEvent \in Nat
  BY <1>1, HoneybeeAssumption DEF TypeInv, TypeOK
<1>3. /\ ToSet(sent) \cap ToSet(buffer) = {}
      /\ IsInjective(sent) /\ IsInjective(buffer)
  BY DEF PlacesInv, EachOnce, OnePlace
<1> HIDE DEF k
<1>4. Moves(k, {})
  BY <1>1, <1>2, <1>3 DEF Moves
<1> QED BY <1>4, EventsMove

(* A call is resumed, with what it held: nothing else happens.             *)
LEMMA GotoKeepsPlaces ==
  ASSUME TypeInv, TypeInv', PlacesInv, Busy, NEW f \in Frame, Goto(f),
         HeldBy(f) = HeldBy(Top), f.fn # "flush",
         UNCHANGED <<buffer, sent, nEvent>>
  PROVE  PlacesInv'
<1> DEFINE k == Len(stack) - 1
           moved == HeldBy(Top)
<1>1. /\ k \in 0 .. Len(stack) /\ k <= Len(stack')
      /\ \A i \in 1 .. k : stack'[i] = stack[i]
      /\ \A i \in k + 1 .. Len(stack') : i = Len(stack) /\ stack'[i] = f
  BY TopTyped, Goes
<1>2. /\ \A i \in 1 .. k : HeldBy(stack[i]) \cap moved = {}
      /\ \A e \in moved : e.n <= nEvent
      /\ moved \cap (ToSet(sent) \cup ToSet(buffer)) = {}
  BY TopHolds
<1>3. /\ ToSet(sent) \cap ToSet(buffer) = {}
      /\ IsInjective(sent) /\ IsInjective(buffer)
      /\ nEvent \in Nat
  BY HoneybeeAssumption DEF PlacesInv, EachOnce, OnePlace, TypeInv, TypeOK
<1>4. \A i \in k + 1 .. Len(stack') :
           /\ HeldBy(stack'[i]) = moved
           /\ stack'[i].fn # "flush"
  BY <1>1
<1>5. \A i, j \in k + 1 .. Len(stack') : i = j
  BY <1>1
<1> HIDE DEF k, moved
<1>6. Moves(k, moved)
  BY <1>1, <1>2, <1>3, <1>4, <1>5 DEF Moves
<1> QED BY <1>6, EventsMove

(* The frames a call that makes another leaves, from the top.              *)
LEMMA CallShape ==
  ASSUME TypeInv, Busy, NEW f \in Frame, NEW g \in Frame, CallThen(f, g),
         NEW k, k = Len(stack) - 1
  PROVE  /\ k \in 0 .. Len(stack) /\ k <= Len(stack')
         /\ \A i \in 1 .. k : stack'[i] = stack[i]
         /\ \A i \in k + 1 .. Len(stack') :
              (i = k + 1 /\ stack'[i] = f) \/ (i = k + 2 /\ stack'[i] = g)
<1>1. /\ Len(stack) \in Nat /\ Len(stack) >= 1 /\ Len(stack') = Len(stack) + 1
      /\ \A i \in 1 .. Len(stack) - 1 : stack'[i] = stack[i]
      /\ stack'[Len(stack)] = f /\ stack'[Len(stack) + 1] = g
  BY TopTyped, Calls
<1>2. /\ k \in 0 .. Len(stack) /\ k <= Len(stack') /\ k \in Nat
      /\ k + 1 = Len(stack) /\ k + 2 = Len(stack) + 1
  BY <1>1
<1>3. stack'[k + 1] = f /\ stack'[k + 2] = g /\ Len(stack') = k + 2
  BY <1>1, <1>2
<1>4. \A i \in k + 1 .. k + 2 : i = k + 1 \/ i = k + 2
  BY <1>2
<1>5. \A i \in k + 1 .. Len(stack') :
        (i = k + 1 /\ stack'[i] = f) \/ (i = k + 2 /\ stack'[i] = g)
  <2> TAKE i \in k + 1 .. Len(stack')
  <2>1. i = k + 1 \/ i = k + 2
    BY <1>3, <1>4
  <2>2. CASE i = k + 1
    BY <1>3, <2>2
  <2>3. CASE i = k + 2
    BY <1>3, <2>3
  <2> QED BY <2>1, <2>2, <2>3
<1> QED BY <1>1, <1>2, <1>5

(* A call is suspended and makes another, which holds nothing yet.         *)
LEMMA CallKeepsPlaces ==
  ASSUME TypeInv, TypeInv', PlacesInv, Busy, NEW f \in Frame, NEW g \in Frame,
         CallThen(f, g),
         HeldBy(f) = HeldBy(Top), f.fn # "flush",
         HeldBy(g) = {}, g.fn = "flush" => IsInjective(g.todo),
         UNCHANGED <<buffer, sent, nEvent>>
  PROVE  PlacesInv'
<1> DEFINE k == Len(stack) - 1
           moved == HeldBy(Top)
<1>1. /\ k \in 0 .. Len(stack) /\ k <= Len(stack')
      /\ \A i \in 1 .. k : stack'[i] = stack[i]
      /\ \A i \in k + 1 .. Len(stack') :
           (i = k + 1 /\ stack'[i] = f) \/ (i = k + 2 /\ stack'[i] = g)
  BY CallShape
<1>2. /\ \A i \in 1 .. k : HeldBy(stack[i]) \cap moved = {}
      /\ \A e \in moved : e.n <= nEvent
      /\ moved \cap (ToSet(sent) \cup ToSet(buffer)) = {}
  BY TopHolds
<1>3. /\ ToSet(sent) \cap ToSet(buffer) = {}
      /\ IsInjective(sent) /\ IsInjective(buffer)
      /\ nEvent \in Nat
  BY HoneybeeAssumption DEF PlacesInv, EachOnce, OnePlace, TypeInv, TypeOK
<1>4. \A i \in k + 1 .. Len(stack') :
           /\ HeldBy(stack'[i]) \subseteq moved
           /\ stack'[i].fn = "flush" => IsInjective(stack'[i].todo)
           /\ i # k + 1 => HeldBy(stack'[i]) = {}
  BY <1>1
<1>5. \A i, j \in k + 1 .. Len(stack') :
        i # j => HeldBy(stack'[i]) \cap HeldBy(stack'[j]) = {}
  BY <1>4
<1> HIDE DEF k, moved
<1>6. Moves(k, moved)
  BY <1>1, <1>2, <1>3, <1>4, <1>5 DEF Moves
<1> QED BY <1>6, EventsMove

(* All calls end, or a new one begins that holds nothing.                  *)
LEMMA FreshKeepsPlaces ==
  ASSUME TypeInv, TypeInv', PlacesInv,
         \A i \in 1 .. Len(stack') :
           HeldBy(stack'[i]) = {} /\ (stack'[i].fn = "flush" => IsInjective(stack'[i].todo)),
         UNCHANGED <<buffer, sent, nEvent>>
  PROVE  PlacesInv'
<1>1. /\ ToSet(sent) \cap ToSet(buffer) = {}
      /\ IsInjective(sent) /\ IsInjective(buffer)
      /\ \A e \in ToSet(sent) \cup ToSet(buffer) : e.n <= nEvent
  BY DEF PlacesInv, NumberedInv, EachOnce, OnePlace
<1> QED BY <1>1 DEF PlacesInv, NumberedInv, EachOnce, OnePlace

LEMMA BufferedAdds ==
  ASSUME buffer \in Seq(Event), NEW ev \in Event, Buffered(ev),
         IsInjective(buffer), ev \notin ToSet(buffer)
  PROVE  IsInjective(buffer') /\ ToSet(buffer') \subseteq ToSet(buffer) \cup {ev}
<1> DEFINE kept == IF Len(buffer) >= BufferSize THEN Tail(buffer) ELSE buffer
<1>1. BufferSize \in Nat \ {0} /\ Len(buffer) \in Nat
  BY HoneybeeAssumption
<1>2. kept \in Seq(Event) /\ ToSet(kept) \subseteq ToSet(buffer) /\ IsInjective(kept)
  <2>1. CASE Len(buffer) >= BufferSize
    <3>1. buffer # <<>>
      BY <1>1, <2>1
    <3> QED BY <2>1, <3>1, TailKeeps
  <2>2. CASE ~(Len(buffer) >= BufferSize)
    BY <2>2
  <2> QED BY <2>1, <2>2
<1>3. buffer' = Append(kept, ev)
  BY DEF Buffered
<1> HIDE DEF kept
<1> QED BY <1>2, <1>3, AppendAdds

(* Giving up moves the event to the buffer, or drops it.                   *)
LEMMA GiveUpKeepsPlaces ==
  ASSUME TypeInv, TypeInv', PlacesInv, Busy, Top.fn = "send", GiveUp
  PROVE  PlacesInv'
<1> DEFINE k == Len(stack) - 1
<1>1. /\ Return("false") /\ sent' = sent /\ nEvent' = nEvent
      /\ Buffered(Top.ev) \/ buffer' = buffer
  BY DEF GiveUp, hookVars
<1>2. /\ k \in 0 .. Len(stack) /\ k <= Len(stack')
      /\ \A i \in 1 .. k : stack'[i] = stack[i]
      /\ Len(stack') = k
  BY <1>1, TopTyped, Returns
<1>3. /\ \A i \in k + 1 .. Len(stack') : FALSE
      /\ nEvent \in Nat
  BY <1>2, HoneybeeAssumption DEF TypeInv, TypeOK
<1>4. /\ ToSet(sent) \cap ToSet(buffer) = {}
      /\ IsInjective(sent) /\ IsInjective(buffer)
  BY DEF PlacesInv, EachOnce, OnePlace
<1>5. /\ Top.ev \notin ToSet(sent) /\ Top.ev \notin ToSet(buffer)
      /\ Top.ev.n <= nEvent
      /\ \A i \in 1 .. k : HeldBy(stack[i]) \cap {Top.ev} = {}
  BY TopHolds
<1>6. Top.ev \in Event /\ buffer \in Seq(Event)
  BY TopTyped, FrameKinds, Typed
<1>7. IsInjective(buffer') /\ ToSet(buffer') \subseteq ToSet(buffer) \cup {Top.ev}
  BY <1>1, <1>4, <1>5, <1>6, BufferedAdds
<1> HIDE DEF k
<1>8. Moves(k, {Top.ev})
  BY <1>1, <1>2, <1>3, <1>4, <1>5, <1>7 DEF Moves
<1> QED BY <1>8, EventsMove

LEMMA LogKeepsPlaces ==
  ASSUME TypeInv, TypeInv', PlacesInv,
         NEW kind \in {"connect", "other", "closed"}, NEW s \in Session, Log(kind, s)
  PROVE  PlacesInv'
<1> DEFINE ev == [n |-> nEvent + 1, kind |-> kind, s |-> s]
<1>1. /\ stack = <<>> /\ buffer' = buffer /\ sent' = sent /\ nEvent' = nEvent + 1
      /\ \/ stack' = <<Emitting(ev), Sending("begin", ev, TRUE)>>
         \/ stack' = <<>>
  BY DEF Log, Busy, sinkVars
<1>2. nEvent \in Nat /\ ev.n = nEvent + 1
  BY HoneybeeAssumption DEF TypeInv, TypeOK
<1>3. /\ ToSet(sent) \cap ToSet(buffer) = {}
      /\ IsInjective(sent) /\ IsInjective(buffer)
      /\ \A e \in ToSet(sent) \cup ToSet(buffer) : e.n <= nEvent
  BY DEF PlacesInv, NumberedInv, EachOnce, OnePlace
<1>4. ev \notin ToSet(sent) /\ ev \notin ToSet(buffer)
  BY <1>2, <1>3
<1>5. Len(stack) = 0 /\ Len(stack') \in Nat
  BY <1>1 DEF TypeInv
<1> HIDE DEF ev
<1>6. \A i \in 1 .. Len(stack') :
        \/ i = 1 /\ stack'[i] = Emitting(ev)
        \/ i = 2 /\ stack'[i] = Sending("begin", ev, TRUE)
  <2>1. CASE stack' = <<Emitting(ev), Sending("begin", ev, TRUE)>>
    <3>1. /\ Len(stack') = 2
          /\ stack'[1] = Emitting(ev) /\ stack'[2] = Sending("begin", ev, TRUE)
      <4>1. /\ Len(<<Emitting(ev), Sending("begin", ev, TRUE)>>) = 2
            /\ <<Emitting(ev), Sending("begin", ev, TRUE)>>[1] = Emitting(ev)
            /\ <<Emitting(ev), Sending("begin", ev, TRUE)>>[2] = Sending("begin", ev, TRUE)
        BY TwoElements
      <4> QED BY <2>1, <4>1
    <3> TAKE i \in 1 .. Len(stack')
    <3>2. i = 1 \/ i = 2
      BY <3>1
    <3> QED BY <3>1, <3>2
  <2>2. CASE stack' = <<>>
    BY <2>2
  <2> QED BY <1>1, <2>1, <2>2
<1>7. /\ HeldBy(Emitting(ev)) = {} /\ Emitting(ev).fn # "flush"
      /\ HeldBy(Sending("begin", ev, TRUE)) = {ev}
      /\ Sending("begin", ev, TRUE).fn # "flush"
  BY Holdings, NotFlushing
<1>10. \A i \in 1 .. Len(stack') :
         /\ (i = 1 /\ HeldBy(stack'[i]) = {}) \/ (i = 2 /\ HeldBy(stack'[i]) = {ev})
         /\ stack'[i].fn # "flush"
  <2> TAKE i \in 1 .. Len(stack')
  <2>1. CASE i = 1 /\ stack'[i] = Emitting(ev)
    BY <1>7, <2>1
  <2>2. CASE i = 2 /\ stack'[i] = Sending("begin", ev, TRUE)
    BY <1>7, <2>2
  <2> QED BY <1>6, <2>1, <2>2
<1>8. \A i, j \in 1 .. Len(stack') :
        i # j => HeldBy(stack'[i]) \cap HeldBy(stack'[j]) = {}
  BY <1>10
<1>9. Moves(0, {ev})
  <2>1. 0 \in 0 .. Len(stack) /\ 0 <= Len(stack') /\ \A i \in 1 .. 0 : FALSE
        /\ 0 + 1 = 1
    BY <1>5
  <2>2. nEvent <= nEvent' /\ ev.n <= nEvent'
    BY <1>1, <1>2
  <2>3. \A i \in 0 + 1 .. Len(stack') :
          /\ HeldBy(stack'[i]) \subseteq {ev}
          /\ HeldBy(stack'[i]) \cap (ToSet(sent) \cup ToSet(buffer)) = {}
          /\ stack'[i].fn # "flush"
    <3> TAKE i \in 0 + 1 .. Len(stack')
    <3>1. i \in 1 .. Len(stack')
      BY <2>1
    <3>2. HeldBy(stack'[i]) \subseteq {ev} /\ stack'[i].fn # "flush"
      BY <1>10, <3>1
    <3> QED BY <1>4, <3>2
  <2>4. /\ ToSet(sent') = ToSet(sent) /\ ToSet(buffer') = ToSet(buffer)
        /\ IsInjective(sent') /\ IsInjective(buffer')
    BY <1>1, <1>3
  <2>5. \A i, j \in 0 + 1 .. Len(stack') :
          i # j => HeldBy(stack'[i]) \cap HeldBy(stack'[j]) = {}
    BY <1>8, <2>1
  <2> QED BY <1>3, <2>1, <2>2, <2>3, <2>4, <2>5 DEF Moves
<1> QED BY <1>9, EventsMove

LEMMA WriteKeepsPlaces ==
  ASSUME TypeInv, TypeInv', PlacesInv, Write
  PROVE  PlacesInv'
<1> DEFINE k == Len(stack) - 1
<1>1. /\ Busy /\ Top.fn = "send"
      /\ Return("true") /\ buffer' = buffer /\ nEvent' = nEvent
      /\ sent' = Append(sent, Top.ev)
  BY DEF Write, In, hookVars
<1>2. /\ k \in 0 .. Len(stack) /\ k <= Len(stack')
      /\ \A i \in 1 .. k : stack'[i] = stack[i]
      /\ Len(stack') = k
  BY <1>1, TopTyped, Returns
<1>3. /\ \A i \in k + 1 .. Len(stack') : FALSE
      /\ nEvent \in Nat
  BY <1>2, HoneybeeAssumption DEF TypeInv, TypeOK
<1>4. /\ ToSet(sent) \cap ToSet(buffer) = {}
      /\ IsInjective(sent) /\ IsInjective(buffer)
  BY DEF PlacesInv, EachOnce, OnePlace
<1>5. /\ Top.ev \notin ToSet(sent) /\ Top.ev \notin ToSet(buffer)
      /\ Top.ev.n <= nEvent
      /\ \A i \in 1 .. k : HeldBy(stack[i]) \cap {Top.ev} = {}
  BY <1>1, TopHolds
<1>6. Top.ev \in Event /\ sent \in Seq(Event)
  BY <1>1, TopTyped, FrameKinds, Typed
<1>7. IsInjective(sent') /\ ToSet(sent') = ToSet(sent) \cup {Top.ev}
  BY <1>1, <1>4, <1>5, <1>6, AppendAdds
<1> HIDE DEF k
<1>8. Moves(k, {Top.ev})
  BY <1>1, <1>2, <1>3, <1>4, <1>5, <1>7 DEF Moves
<1> QED BY <1>8, EventsMove

(* The whole buffer moves to the flush that takes it.                      *)
LEMMA TakeBufferKeepsPlaces ==
  ASSUME TypeInv, TypeInv', PlacesInv, TakeBuffer
  PROVE  PlacesInv'
<1> DEFINE k == Len(stack) - 1
<1>1. Busy /\ sent' = sent /\ nEvent' = nEvent
  BY DEF TakeBuffer, In, hookVars
<1>2. /\ <<>> \in Seq(Event) /\ ToSet(<<>>) = {} /\ IsInjective(<<>>)
  BY DEF ToSet, IsInjective
<1> DEFINE todo == IF connected THEN buffer ELSE <<>>
<1>3. /\ Goto(Flushing("loop", todo)) /\ todo \in Seq(Event)
      /\ (todo = buffer /\ buffer' = <<>>) \/ (todo = <<>> /\ buffer' = buffer)
  <2>1. buffer \in Seq(Event)
    BY Typed
  <2>2. CASE connected
    <3>1. todo = buffer /\ buffer' = <<>> /\ Goto(Flushing("loop", buffer))
      BY <2>2 DEF TakeBuffer
    <3> HIDE DEF todo
    <3> QED BY <2>1, <3>1 DEF Goto
  <2>3. CASE ~connected
    <3>1. todo = <<>> /\ buffer' = buffer /\ Goto(Flushing("loop", <<>>))
      BY <2>3 DEF TakeBuffer
    <3> HIDE DEF todo
    <3> QED BY <1>2, <3>1 DEF Goto
  <2> QED BY <2>2, <2>3
<1> HIDE DEF todo
<1>4. Flushing("loop", todo) \in Frame
  BY <1>3, FramesMade
<1>5. /\ k \in 0 .. Len(stack) /\ k <= Len(stack')
      /\ \A i \in 1 .. k : stack'[i] = stack[i]
      /\ \A i \in k + 1 .. Len(stack') :
           i = Len(stack) /\ stack'[i] = Flushing("loop", todo)
  <2>1. /\ Len(stack) \in Nat /\ Len(stack) >= 1 /\ Len(stack') = Len(stack)
        /\ \A i \in 1 .. Len(stack) - 1 : stack'[i] = stack[i]
        /\ stack'[Len(stack)] = Flushing("loop", todo)
    BY <1>1, <1>3, <1>4, TopTyped, Goes
  <2>2. \A i \in k + 1 .. Len(stack') : i = Len(stack)
    BY <2>1
  <2>3. k \in 0 .. Len(stack) /\ k <= Len(stack')
    BY <2>1
  <2> QED BY <2>1, <2>2, <2>3
<1>6. /\ ToSet(sent) \cap ToSet(buffer) = {}
      /\ IsInjective(sent) /\ IsInjective(buffer)
      /\ \A e \in ToSet(buffer) : e.n <= nEvent
      /\ \A i \in 1 .. k : HeldBy(stack[i]) \cap ToSet(buffer) = {}
      /\ nEvent \in Nat
  <2>1. \A i \in 1 .. k : i \in 1 .. Len(stack)
    BY <1>1, TopTyped
  <2> HIDE DEF k
  <2> QED BY <2>1, HoneybeeAssumption
          DEF PlacesInv, NumberedInv, EachOnce, OnePlace, TypeInv, TypeOK
<1>7. /\ IsInjective(todo) /\ IsInjective(buffer')
      /\ ToSet(todo) \subseteq ToSet(buffer) /\ ToSet(buffer') \subseteq ToSet(buffer)
      /\ ToSet(todo) \cap ToSet(buffer') = {}
  BY <1>2, <1>3, <1>6
<1>8. \A i \in k + 1 .. Len(stack') :
        HeldBy(stack'[i]) = ToSet(todo) /\ stack'[i].todo = todo
  BY <1>5, Holdings, NotFlushing
<1>9. \A i, j \in k + 1 .. Len(stack') : i = j
  BY <1>5
<1> HIDE DEF k
<1>10. Moves(k, ToSet(buffer))
  BY <1>1, <1>5, <1>6, <1>7, <1>8, <1>9 DEF Moves
<1> QED BY <1>10, EventsMove

(* The next event moves from the flush to the call that sends it.          *)
LEMMA FlushNextKeepsPlaces ==
  ASSUME TypeInv, TypeInv', PlacesInv, FlushNext
  PROVE  PlacesInv'
<1> DEFINE k == Len(stack) - 1
           f == Flushing("loop", Tail(Top.todo))
           g == Sending("begin", Head(Top.todo), FALSE)
<1>1. /\ Busy /\ Top.fn = "flush" /\ Top.todo # <<>> /\ CallThen(f, g)
      /\ sent' = sent /\ buffer' = buffer /\ nEvent' = nEvent
  BY DEF FlushNext, In, hookVars, sinkVars
<1>2. Top.todo \in Seq(Event)
  BY <1>1, TopTyped, FrameKinds
<1>3. /\ HeldBy(Top) = ToSet(Top.todo) /\ IsInjective(Top.todo)
      /\ HeldBy(Top) \cap (ToSet(sent) \cup ToSet(buffer)) = {}
      /\ \A i \in 1 .. k : HeldBy(stack[i]) \cap HeldBy(Top) = {}
      /\ \A e \in HeldBy(Top) : e.n <= nEvent
  BY <1>1, TopHolds
<1>4. /\ Tail(Top.todo) \in Seq(Event) /\ Head(Top.todo) \in Event
      /\ Head(Top.todo) \in ToSet(Top.todo)
      /\ ToSet(Tail(Top.todo)) \subseteq ToSet(Top.todo)
      /\ IsInjective(Tail(Top.todo))
      /\ Head(Top.todo) \notin ToSet(Tail(Top.todo))
  BY <1>1, <1>2, <1>3, TailKeeps
<1>5. /\ f \in Frame /\ g \in Frame
      /\ HeldBy(f) = ToSet(Tail(Top.todo)) /\ HeldBy(g) = {Head(Top.todo)}
      /\ f.todo = Tail(Top.todo) /\ g.fn # "flush"
  BY <1>4, FramesMade, Holdings, NotFlushing
<1>12. k = Len(stack) - 1
  OBVIOUS
<1> HIDE DEF f, g, k
<1>6. /\ k \in 0 .. Len(stack) /\ k <= Len(stack')
      /\ \A i \in 1 .. k : stack'[i] = stack[i]
      /\ \A i \in k + 1 .. Len(stack') :
           (i = k + 1 /\ stack'[i] = f) \/ (i = k + 2 /\ stack'[i] = g)
  BY <1>1, <1>5, <1>12, CallShape
<1>7. /\ ToSet(sent) \cap ToSet(buffer) = {}
      /\ IsInjective(sent) /\ IsInjective(buffer)
      /\ nEvent \in Nat
  BY HoneybeeAssumption DEF PlacesInv, EachOnce, OnePlace, TypeInv, TypeOK
<1>8. HeldBy(f) \subseteq HeldBy(Top) /\ HeldBy(g) \subseteq HeldBy(Top)
      /\ HeldBy(f) \cap HeldBy(g) = {}
      /\ IsInjective(f.todo)
  BY <1>3, <1>4, <1>5
<1>9. \A i \in k + 1 .. Len(stack') :
           /\ HeldBy(stack'[i]) \subseteq HeldBy(Top)
           /\ stack'[i].fn = "flush" => IsInjective(stack'[i].todo)
  BY <1>5, <1>6, <1>8
<1>10. \A i, j \in k + 1 .. Len(stack') :
        i # j => HeldBy(stack'[i]) \cap HeldBy(stack'[j]) = {}
  <2> TAKE i, j \in k + 1 .. Len(stack')
  <2> HAVE i # j
  <2>1. \/ stack'[i] = f /\ stack'[j] = g
        \/ stack'[i] = g /\ stack'[j] = f
    BY <1>6
  <2> QED BY <1>8, <2>1
<1>11. Moves(k, HeldBy(Top))
  <2>1. /\ ToSet(sent') = ToSet(sent) /\ ToSet(buffer') = ToSet(buffer)
        /\ IsInjective(sent') /\ IsInjective(buffer')
        /\ nEvent <= nEvent' /\ nEvent' = nEvent
    BY <1>1, <1>7
  <2>2. \A i \in k + 1 .. Len(stack') :
          HeldBy(stack'[i]) \cap (ToSet(sent) \cup ToSet(buffer)) = {}
    BY <1>3, <1>9
  <2> QED BY <1>3, <1>6, <1>7, <1>9, <1>10, <2>1, <2>2 DEF Moves
<1> QED BY <1>11, EventsMove

LEMMA PlacesNext == TypeInv /\ TypeInv' /\ PlacesInv /\ [Next]_vars => PlacesInv'
<1> SUFFICES ASSUME TypeInv, TypeInv', PlacesInv, [Next]_vars PROVE PlacesInv'
  OBVIOUS
<1>1. ASSUME NEW kind \in {"connect", "other", "closed"}, NEW s \in Session, Log(kind, s)
      PROVE  PlacesInv'
  BY <1>1, LogKeepsPlaces
<1>2. ASSUME Stop PROVE PlacesInv'
  <2> DEFINE f == Flushing("begin", <<>>)
  <2>1. /\ stack' = <<Stopping, f>> /\ UNCHANGED <<buffer, sent, nEvent>>
    BY <1>2 DEF Stop, sinkVars
  <2>2. /\ HeldBy(f) = {} /\ HeldBy(Stopping) = {} /\ Stopping.fn # "flush"
        /\ IsInjective(f.todo)
    <3>1. ToSet(<<>>) = {} /\ IsInjective(<<>>)
      BY DEF ToSet, IsInjective
    <3> QED BY <3>1, Holdings, NotFlushing
  <2> HIDE DEF f
  <2>3. Len(stack') = 2 /\ stack'[1] = Stopping /\ stack'[2] = f
    BY <2>1, TwoElements
  <2>4. \A i \in 1 .. Len(stack') : stack'[i] = Stopping \/ stack'[i] = f
    <3> TAKE i \in 1 .. Len(stack')
    <3>1. i = 1 \/ i = 2
      BY <2>3
    <3> QED BY <2>3, <3>1
  <2>5. \A i \in 1 .. Len(stack') :
          HeldBy(stack'[i]) = {} /\ (stack'[i].fn = "flush" => IsInjective(stack'[i].todo))
    BY <2>2, <2>4
  <2> QED BY <2>1, <2>5, FreshKeepsPlaces
<1>3. ASSUME Logged PROVE PlacesInv'
  <2>1. Busy /\ Return("none") /\ UNCHANGED <<buffer, sent, nEvent>>
    BY <1>3 DEF Logged, sinkVars
  <2> QED BY <2>1, ReturnKeepsPlaces
<1>4. ASSUME Stopped PROVE PlacesInv'
  <2>1. Busy /\ Return("none") /\ UNCHANGED <<buffer, sent, nEvent>>
    BY <1>4 DEF Stopped, hookVars
  <2> QED BY <2>1, ReturnKeepsPlaces
<1>5. ASSUME Connect PROVE PlacesInv'
  <2> DEFINE f == Connecting("flushed")
             g == Flushing("begin", <<>>)
  <2>1. /\ Busy /\ Top.fn = "connect" /\ CallThen(f, g)
        /\ UNCHANGED <<buffer, sent, nEvent>>
    BY <1>5 DEF Connect, In, hookVars
  <2>2. f \in Frame /\ g \in Frame
    <3> <<>> \in Seq(Event)
      OBVIOUS
    <3> QED BY FramesMade
  <2>3. HeldBy(f) = {} /\ f.fn # "flush" /\ HeldBy(g) = {} /\ IsInjective(g.todo)
    <3>1. ToSet(<<>>) = {} /\ IsInjective(<<>>)
      BY DEF ToSet, IsInjective
    <3> QED BY <3>1, Holdings, NotFlushing
  <2>4. HeldBy(Top) = {}
    BY <2>1 DEF HeldBy
  <2> HIDE DEF f, g
  <2> QED BY <2>1, <2>2, <2>3, <2>4, CallKeepsPlaces
<1>6. ASSUME CannotConnect PROVE PlacesInv'
  <2>1. Busy /\ Return("false") /\ UNCHANGED <<buffer, sent, nEvent>>
    BY <1>6 DEF CannotConnect, In, hookVars, sinkVars
  <2> QED BY <2>1, ReturnKeepsPlaces
<1>7. ASSUME Connected PROVE PlacesInv'
  <2>1. Busy /\ Return("true") /\ UNCHANGED <<buffer, sent, nEvent>>
    BY <1>7 DEF Connected, In, hookVars, sinkVars
  <2> QED BY <2>1, ReturnKeepsPlaces
<1>8. ASSUME TakeBuffer PROVE PlacesInv'
  BY <1>8, TakeBufferKeepsPlaces
<1>9. ASSUME FlushNext PROVE PlacesInv'
  BY <1>9, FlushNextKeepsPlaces
<1>10. ASSUME Flushed PROVE PlacesInv'
  <2>1. Busy /\ Return("none") /\ UNCHANGED <<buffer, sent, nEvent>>
    BY <1>10 DEF Flushed, In, hookVars, sinkVars
  <2> QED BY <2>1, ReturnKeepsPlaces
<1>11. ASSUME Busy, Top.fn = "send", NEW pc \in {"begin", "joined", "write", "rejoined"}
       PROVE  /\ [Top EXCEPT !.pc = pc] \in Frame
              /\ HeldBy([Top EXCEPT !.pc = pc]) = HeldBy(Top)
              /\ [Top EXCEPT !.pc = pc].fn # "flush"
  BY <1>11, TopTyped, FrameKinds DEF HeldBy
<1>12. /\ Connecting("try") \in Frame
       /\ HeldBy(Connecting("try")) = {} /\ Connecting("try").fn # "flush"
  BY FramesMade, Holdings, NotFlushing
<1>13. ASSUME BeginSend PROVE PlacesInv'
  <2>1. Busy /\ Top.fn = "send" /\ UNCHANGED <<buffer, sent, nEvent>>
    BY <1>13 DEF BeginSend, In, hookVars, sinkVars
  <2>2. CASE Goto([Top EXCEPT !.pc = "write"])
    BY <1>11, <2>1, <2>2, GotoKeepsPlaces
  <2>3. CASE CallThen([Top EXCEPT !.pc = "joined"], Connecting("try"))
    BY <1>11, <1>12, <2>1, <2>3, CallKeepsPlaces
  <2> QED BY <1>13, <2>2, <2>3 DEF BeginSend
<1>14. ASSUME Joined PROVE PlacesInv'
  <2>1. /\ Busy /\ Top.fn = "send" /\ UNCHANGED <<buffer, sent, nEvent>>
        /\ Goto([Top EXCEPT !.pc = "write"])
    BY <1>14 DEF Joined, In, hookVars, sinkVars
  <2> QED BY <1>11, <2>1, GotoKeepsPlaces
<1>15. ASSUME NotJoined PROVE PlacesInv'
  BY <1>15, GiveUpKeepsPlaces DEF NotJoined, In
<1>16. ASSUME Write PROVE PlacesInv'
  BY <1>16, WriteKeepsPlaces
<1>17. ASSUME WriteFails PROVE PlacesInv'
  <2>1. /\ Busy /\ Top.fn = "send" /\ UNCHANGED <<buffer, sent, nEvent>>
        /\ CallThen([Top EXCEPT !.pc = "rejoined"], Connecting("try"))
    BY <1>17 DEF WriteFails, In, hookVars
  <2> QED BY <1>11, <1>12, <2>1, CallKeepsPlaces
<1>18. ASSUME WriteRaises PROVE PlacesInv'
  <2>1. stack' = <<>> /\ UNCHANGED <<buffer, sent, nEvent>>
    BY <1>18 DEF WriteRaises, hookVars, sinkVars
  <2>2. \A i \in 1 .. Len(stack') : FALSE
    BY <2>1
  <2> QED BY <2>1, <2>2, FreshKeepsPlaces
<1>19. ASSUME RewriteFails PROVE PlacesInv'
  BY <1>19, GiveUpKeepsPlaces DEF RewriteFails, In
<1>20. ASSUME UNCHANGED vars PROVE PlacesInv'
  BY <1>20 DEF PlacesInv, NumberedInv, EachOnce, OnePlace, vars
<1> QED
  BY <1>1, <1>2, <1>3, <1>4, <1>5, <1>6, <1>7, <1>8, <1>9, <1>10, <1>13, <1>14, <1>15,
     <1>16, <1>17, <1>18, <1>19, <1>20 DEF Next, Returning

(* However sends, reconnections and flushes nest, no event is handed to a  *)
(* socket twice, and none that was still waits: an event leaves the place  *)
(* it is in when it enters the next.                                       *)
THEOREM HoneybeeSentOnce == Spec => []SentOnce
<1>1. Init => TypeInv /\ PlacesInv
  BY TypeInit, PlacesInit
<1>2. TypeInv /\ PlacesInv /\ [Next]_vars => (TypeInv /\ PlacesInv)'
  BY TypeNext, PlacesNext
<1>3. TypeInv /\ PlacesInv => SentOnce
  BY PlacesInvImplies
<1> QED BY <1>1, <1>2, <1>3, PTL DEF Spec
=============================================================================
