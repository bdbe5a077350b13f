--------------------------- MODULE IIOSensorProofs ---------------------------
(***************************************************************************)
(* Proofs about IIOSensor, for any size of the buffers, any number of      *)
(* additional events and any number of flushes.                            *)
(***************************************************************************)
EXTENDS IIOSensor, FiniteSetTheorems, TLAPS

(***************************************************************************)
(* Lemmas: the flush events of a queue at its two ends.                    *)
(***************************************************************************)
FlushesIn(q) == {i \in DOMAIN q : q[i] = "flush"}

LEMMA FlushesInFinite ==
  ASSUME NEW T, NEW q \in Seq(T)
  PROVE  /\ IsFiniteSet(FlushesIn(q))
         /\ FlushEvents(q) = Cardinality(FlushesIn(q))
         /\ FlushEvents(q) \in Nat
<1>1. IsFiniteSet(1..Len(q)) /\ FlushesIn(q) \in SUBSET (1..Len(q))
  BY FS_Interval DEF FlushesIn
<1>2. IsFiniteSet(FlushesIn(q))
  BY <1>1, FS_Subset
<1> QED BY <1>2, FS_CardinalityType DEF FlushEvents, FlushesIn

LEMMA FlushesOfNothing == FlushEvents(<<>>) = 0
<1>1. {i \in DOMAIN <<>> : <<>>[i] = "flush"} = {}
  OBVIOUS
<1> QED BY <1>1, FS_EmptySet DEF FlushEvents

\* One more at the end.
LEMMA FlushesOfAppend ==
  ASSUME NEW T, NEW q \in Seq(T), NEW e \in T
  PROVE  FlushEvents(Append(q, e)) = FlushEvents(q) + One(e = "flush")
<1> DEFINE n == Len(q) + 1
<1>1. /\ Append(q, e) \in Seq(T) /\ DOMAIN Append(q, e) = 1..n /\ DOMAIN q = 1..Len(q)
      /\ \A i \in 1..Len(q) : Append(q, e)[i] = q[i]
      /\ Append(q, e)[n] = e
  OBVIOUS
<1>2. n \notin FlushesIn(q)
  BY <1>1 DEF FlushesIn
<1>3. /\ IsFiniteSet(FlushesIn(q)) /\ FlushEvents(q) = Cardinality(FlushesIn(q))
      /\ FlushEvents(q) \in Nat
      /\ FlushEvents(Append(q, e)) = Cardinality(FlushesIn(Append(q, e)))
  <2>1. Append(q, e) \in Seq(T)
    BY <1>1
  <2> QED BY <2>1, FlushesInFinite
<1>4. CASE e = "flush"
  <2>1. FlushesIn(Append(q, e)) = FlushesIn(q) \cup {n}
    BY <1>1, <1>4 DEF FlushesIn
  <2> QED BY <1>2, <1>3, <1>4, <2>1, FS_AddElement DEF One
<1>5. CASE e # "flush"
  <2>1. FlushesIn(Append(q, e)) = FlushesIn(q)
    BY <1>1, <1>5 DEF FlushesIn
  <2> QED BY <1>3, <1>5, <2>1 DEF One
<1> QED BY <1>4, <1>5

\* One less at the front: the places behind it move by one.
LEMMA FlushesOfTail ==
  ASSUME NEW T, NEW q \in Seq(T), q # <<>>
  PROVE  FlushEvents(q) = FlushEvents(Tail(q)) + One(Head(q) = "flush")
<1> DEFINE Behind == FlushesIn(q) \ {1}
           moved == [i \in FlushesIn(Tail(q)) |-> i + 1]
<1>1. /\ Tail(q) \in Seq(T) /\ Len(q) \in Nat \ {0} /\ Len(Tail(q)) = Len(q) - 1
      /\ DOMAIN q = 1..Len(q) /\ DOMAIN Tail(q) = 1..(Len(q) - 1)
      /\ \A i \in 1..(Len(q) - 1) : Tail(q)[i] = q[i + 1]
      /\ Head(q) = q[1]
  OBVIOUS
<1>2. moved \in [FlushesIn(Tail(q)) -> Behind]
  BY <1>1 DEF FlushesIn
<1>3. \A i, j \in FlushesIn(Tail(q)) : moved[i] = moved[j] => i = j
  BY <1>1 DEF FlushesIn
<1>4. \A k \in Behind : \E i \in FlushesIn(Tail(q)) : moved[i] = k
  <2> SUFFICES ASSUME NEW k \in Behind PROVE \E i \in FlushesIn(Tail(q)) : moved[i] = k
    OBVIOUS
  <2>1. k - 1 \in FlushesIn(Tail(q))
    BY <1>1 DEF FlushesIn
  <2>2. moved[k - 1] = k
    BY <1>1, <2>1 DEF FlushesIn
  <2> QED BY <2>1, <2>2
<1>5. ExistsBijection(FlushesIn(Tail(q)), Behind)
  <2> HIDE DEF moved, Behind
  <2>1. moved \in Injection(FlushesIn(Tail(q)), Behind)
    BY <1>2, <1>3 DEF Injection, IsInjective
  <2>2. moved \in Surjection(FlushesIn(Tail(q)), Behind)
    BY <1>2, <1>4 DEF Surjection
  <2> QED BY <2>1, <2>2 DEF ExistsBijection, Bijection
<1>6. Cardinality(Behind) = FlushEvents(Tail(q))
  <2>1. /\ IsFiniteSet(FlushesIn(Tail(q)))
        /\ FlushEvents(Tail(q)) = Cardinality(FlushesIn(Tail(q)))
    BY <1>1, FlushesInFinite
  <2> QED BY <1>5, <2>1, FS_Bijection
<1>7. 1 \in FlushesIn(q) <=> Head(q) = "flush"
  BY <1>1 DEF FlushesIn
<1>8. Cardinality(Behind) = IF 1 \in FlushesIn(q) THEN FlushEvents(q) - 1 ELSE FlushEvents(q)
  BY FlushesInFinite, FS_RemoveElement
<1> QED BY <1>1, <1>6, <1>7, <1>8, FlushesInFinite DEF One

(***************************************************************************)
(* The invariant.                                                          *)
(***************************************************************************)
\* The threads that are past the test of mIsEnabled.
Inside(f) == {p \in Threads : f[p]}

\* The flush events that binder threads have still to push.
Coming(l) == One(l["binder1"] = 1 + InfoEvents) + One(l["binder2"] = 1 + InfoEvents)

\* Where the calls are: a thread in pushEvent has something to push, a binder thread at
\* most a flush event and the additional ones, and nothing before activate comes to it.
CallsAgree ==
    /\ \A p \in Threads : inside[p] => left[p] > 0
    /\ \A b \in Binders : left[b] <= 1 + InfoEvents
    /\ \A b \in Binders : activating[b] # "none" => left[b] = 0

IInv == TypeOK /\ CallsAgree /\ LateOnlyInHand /\ FlushesKept

LEMMA ThreadsDiffer ==
  /\ "binder1" \in Binders /\ "binder2" \in Binders /\ Binders \subseteq Threads
  /\ "reader" \in Threads /\ "reader" \notin Binders
  /\ \A p \in Threads : p \notin Binders => p = "reader"
  /\ \A b \in Binders : b = "binder1" \/ b = "binder2"
  BY DEF Binders, Threads

LEMMA FloatType == \A t \in Nat : Float(t) \in Nat
<1> SUFFICES ASSUME NEW t \in Nat PROVE Float(t) \in Nat
  OBVIOUS
<1>1. Granule \in Nat /\ Granule > 0
  BY IIOSensorAssumption DEF IIOSensorAssumption
<1>2. Granule \div 2 \in Nat
  BY <1>1
<1> DEFINE n == t + Granule \div 2
<1>3. n \in Nat
  BY <1>2
<1> HIDE DEF n
<1>4. n \div Granule \in Nat
  BY <1>1, <1>3
<1> QED BY <1>1, <1>4 DEF Float, n

LEMMA StampsType == Stamps \subseteq Nat
  BY FloatType, IIOSensorAssumption DEF Stamps, IIOSensorAssumption

LEMMA InsideFinite ==
  ASSUME NEW f
  PROVE  /\ IsFiniteSet(Inside(f))
         /\ Cardinality(Inside(f)) \in Nat
         /\ \A p \in Threads : p \notin Inside(f) => Cardinality(Inside(f)) <= 2
<1>1. IsFiniteSet(Threads) /\ Cardinality(Threads) = 3
  <2>1. IsFiniteSet({"binder1"}) /\ Cardinality({"binder1"}) = 1
    BY FS_Singleton
  <2>2. Binders = {"binder1"} \cup {"binder2"} /\ "binder2" \notin {"binder1"}
    BY DEF Binders
  <2>3. IsFiniteSet(Binders) /\ Cardinality(Binders) = 2
    BY <2>1, <2>2, FS_AddElement
  <2> QED BY <2>3, ThreadsDiffer, FS_AddElement DEF Threads
<1>2. Inside(f) \in SUBSET Threads
  BY DEF Inside
<1>3. IsFiniteSet(Inside(f)) /\ Cardinality(Inside(f)) \in Nat
  BY <1>1, <1>2, FS_Subset, FS_CardinalityType
<1>4. ASSUME NEW p \in Threads, p \notin Inside(f)
      PROVE  Cardinality(Inside(f)) <= 2
  <2>1. IsFiniteSet(Threads \ {p}) /\ Cardinality(Threads \ {p}) = 2
    BY <1>1, FS_RemoveElement
  <2>2. Inside(f) \in SUBSET (Threads \ {p})
    BY <1>2, <1>4
  <2> QED BY <2>1, <2>2, FS_Subset
<1> QED BY <1>3, <1>4

\* The flush events on their way, as a sum.
LEMMA HeldSum ==
  /\ Held = out + FlushEvents(queue) + Coming(left)
  /\ Held' = out' + FlushEvents(queue') + Coming(left')
<1>1. /\ One(EventOf("binder1") = "flush") = One(left["binder1"] = 1 + InfoEvents)
      /\ One(EventOf("binder2") = "flush") = One(left["binder2"] = 1 + InfoEvents)
      /\ One(EventOf("binder1")' = "flush") = One(left'["binder1"] = 1 + InfoEvents)
      /\ One(EventOf("binder2")' = "flush") = One(left'["binder2"] = 1 + InfoEvents)
  BY ThreadsDiffer DEF EventOf, One
<1>2. Held = out + FlushEvents(queue)
               + (One(EventOf("binder1") = "flush") + One(EventOf("binder2") = "flush"))
  BY DEF Held
<1>3. Held' = out' + FlushEvents(queue')
                + (One(EventOf("binder1")' = "flush") + One(EventOf("binder2")' = "flush"))
  BY DEF Held, FlushEvents, One
<1> QED BY <1>1, <1>2, <1>3 DEF Coming

\* One thread pushes: what is still to come is one less if that is its flush event.
LEMMA ComingAfterPush ==
  ASSUME TypeOK, CallsAgree, NEW p \in Threads, left[p] > 0,
         left' = [left EXCEPT ![p] = @ - 1]
  PROVE  Coming(left) = Coming(left') + One(EventOf(p) = "flush")
<1>1. /\ left \in [Threads -> Nat] /\ InfoEvents \in Nat
      /\ \A b \in Binders : left[b] <= 1 + InfoEvents
  BY IIOSensorAssumption DEF TypeOK, CallsAgree, IIOSensorAssumption
<1>2. CASE p = "reader"
  BY <1>1, <1>2, ThreadsDiffer DEF Coming, EventOf, One
<1>3. CASE p = "binder1"
  BY <1>1, <1>3, ThreadsDiffer DEF Coming, EventOf, One
<1>4. CASE p = "binder2"
  BY <1>1, <1>4, ThreadsDiffer DEF Coming, EventOf, One
<1> QED BY <1>2, <1>3, <1>4, ThreadsDiffer

LEMMA SumTypes ==
  ASSUME TypeOK
  PROVE  /\ Coming(left) \in Nat /\ FlushEvents(queue) \in Nat /\ Held \in Nat
         /\ posted \in Nat /\ out \in Nat /\ lost \in Nat /\ flushes \in Nat
<1>1. Coming(left) \in Nat
  BY DEF Coming, One
<1>2. FlushEvents(queue) \in Nat
  BY FlushesInFinite DEF TypeOK
<1> QED BY <1>1, <1>2, HeldSum DEF TypeOK

LEMMA InitIInv == Init => IInv
<1> SUFFICES ASSUME Init PROVE IInv
  OBVIOUS
<1> USE IIOSensorAssumption DEF IIOSensorAssumption
<1>1. TypeOK
  <2>1. queue \in Seq({"flush", "other"}) /\ Len(queue) <= MaxSize
    BY DEF Init
  <2>2. enabled \in BOOLEAN /\ listened \in BOOLEAN /\ injected \in BOOLEAN
    BY Zenon DEF Init
  <2>3. left \in [Threads -> Nat]
    BY DEF Init
  <2>4. inside \in [Threads -> BOOLEAN]
    BY Zenon DEF Init
  <2>5. activating \in [Binders -> {"none", "test", "empty", "stamp"}]
    BY DEF Init
  <2>6. /\ stamp \in Nat /\ sample \in Nat /\ last \in Nat
        /\ out \in Nat /\ flushes \in Nat /\ posted \in Nat /\ late \in Nat /\ lost \in Nat
    BY DEF Init
  <2>7. mode \in {"NORMAL", "DATA_INJECTION"} /\ rpc \in {"read", "check", "store", "push", "test"}
    BY DEF Init
  <2> QED BY <2>1, <2>2, <2>3, <2>4, <2>5, <2>6, <2>7, Zenon DEF TypeOK
<1>2. CallsAgree
  BY ThreadsDiffer DEF Init, CallsAgree
<1>3. LateOnlyInHand
  <2>1. Cardinality(Inside(inside)) = 0
    <3>1. Inside(inside) = {}
      BY DEF Init, Inside
    <3> QED BY <3>1, FS_EmptySet
  <2>2. late = 0
    BY DEF Init
  <2> QED BY <2>1, <2>2 DEF LateOnlyInHand, Inside
<1>4. FlushesKept
  <2>1. Coming(left) = 0
    BY ThreadsDiffer DEF Init, Coming, One
  <2> QED BY <2>1, HeldSum, FlushesOfNothing DEF Init, FlushesKept
<1> QED BY <1>1, <1>2, <1>3, <1>4 DEF IInv

\* A push whose first half is the test: a sensor that is enabled lets the thread in,
\* one that is not drops the event, and with it perhaps a flush event.
LEMMA PushTestsKeeps ==
  ASSUME IInv, NEW p \in Threads, PushTests(p)
  PROVE  IInv'
<1> USE IIOSensorAssumption DEF IIOSensorAssumption
<1>1. /\ left[p] > 0 /\ ~inside[p] /\ left \in [Threads -> Nat] /\ inside \in [Threads -> BOOLEAN]
      /\ \A b \in Binders : left[b] <= 1 + InfoEvents
  BY DEF PushTests, IInv, TypeOK, CallsAgree
<1>2. UNCHANGED <<enabled, listened, mode, stamp, injected, activating, flushes, queue, late,
                  rpc, sample, out, posted, last>>
  BY DEF PushTests, readerVars
<1>3. CASE enabled /\ inside' = [inside EXCEPT ![p] = TRUE] /\ UNCHANGED <<left, lost>>
  <2>1. TypeOK'
    BY <1>1, <1>2, <1>3 DEF IInv, TypeOK
  <2>2. CallsAgree'
    BY <1>1, <1>2, <1>3 DEF IInv, CallsAgree
  <2>3. LateOnlyInHand'
    BY <1>2, <1>3 DEF LateOnlyInHand
  <2>4. FlushesKept'
    BY <1>2, <1>3, HeldSum DEF IInv, FlushesKept
  <2> QED BY <2>1, <2>2, <2>3, <2>4 DEF IInv
<1>4. CASE /\ ~enabled /\ left' = [left EXCEPT ![p] = @ - 1]
           /\ lost' = lost + One(EventOf(p) = "flush") /\ inside' = inside
  <2>1. left' \in [Threads -> Nat] /\ lost' \in Nat
    BY <1>1, <1>4 DEF One, IInv, TypeOK
  <2>2. TypeOK'
    BY <1>2, <1>4, <2>1 DEF IInv, TypeOK
  <2>3. CallsAgree'
    BY <1>1, <1>2, <1>4, ThreadsDiffer DEF IInv, CallsAgree
  <2>4. LateOnlyInHand'
    BY <1>2, <1>4 DEF IInv, LateOnlyInHand
  <2>5. FlushesKept'
    <3>1. Coming(left) = Coming(left') + One(EventOf(p) = "flush")
      BY <1>1, <1>4, ComingAfterPush DEF IInv
    <3>2. One(EventOf(p) = "flush") \in Nat /\ Coming(left') \in Nat
      BY DEF One, Coming
    <3>3. posted + Held + lost = flushes
      BY DEF IInv, FlushesKept
    <3>4. posted' + Held' + lost' = flushes'
      BY <1>2, <1>4, <3>1, <3>2, <3>3, SumTypes, HeldSum DEF IInv
    <3> QED BY <3>4 DEF FlushesKept
  <2> QED BY <2>2, <2>3, <2>4, <2>5 DEF IInv
<1> QED BY <1>3, <1>4 DEF PushTests

\* The second half: a full buffer drops its oldest event, perhaps a flush event; a
\* thread that was let in before the sensor was disabled is one less to come.
LEMMA PushAppendsKeeps ==
  ASSUME IInv, NEW p \in Threads, PushAppends(p)
  PROVE  IInv'
<1> USE IIOSensorAssumption DEF IIOSensorAssumption
<1> DEFINE Kinds == {"flush", "other"}
           full == Len(queue) >= MaxSize
           kept == IF full THEN Tail(queue) ELSE queue
           dropped == full /\ Head(queue) = "flush"
<1>1. /\ inside[p] /\ left[p] > 0
      /\ left \in [Threads -> Nat] /\ inside \in [Threads -> BOOLEAN]
      /\ queue \in Seq(Kinds) /\ Len(queue) <= MaxSize
  BY DEF PushAppends, IInv, TypeOK, CallsAgree
<1>2. /\ inside' = [inside EXCEPT ![p] = FALSE]
      /\ left' = [left EXCEPT ![p] = @ - 1]
      /\ queue' = Append(kept, EventOf(p))
      /\ lost' = lost + One(dropped)
      /\ late' = IF enabled THEN late ELSE late + 1
      /\ UNCHANGED <<enabled, listened, mode, stamp, injected, activating, flushes,
                     rpc, sample, out, posted, last>>
  BY DEF PushAppends, readerVars
<1>3. EventOf(p) \in Kinds
  BY DEF EventOf
<1>4. /\ kept \in Seq(Kinds) /\ Len(kept) < MaxSize
      /\ full => queue # <<>>
  BY <1>1
<1>5. queue' \in Seq(Kinds) /\ Len(queue') <= MaxSize
  BY <1>2, <1>3, <1>4
<1>6. left' \in [Threads -> Nat] /\ inside' \in [Threads -> BOOLEAN]
  BY <1>1, <1>2
<1>7. TypeOK'
  <2>1. lost' \in Nat
    BY <1>2 DEF IInv, TypeOK, One
  <2>2. late' \in Nat
    BY <1>2 DEF IInv, TypeOK
  <2> QED BY <1>2, <1>5, <1>6, <2>1, <2>2 DEF IInv, TypeOK
<1>8. CallsAgree'
  BY <1>1, <1>2, ThreadsDiffer DEF IInv, CallsAgree
<1>9. Inside(inside') = Inside(inside) \ {p} /\ p \in Inside(inside)
  BY <1>1, <1>2 DEF Inside
<1>10. LateOnlyInHand'
  <2>1. Cardinality(Inside(inside')) = Cardinality(Inside(inside)) - 1
    <3>1. IsFiniteSet(Inside(inside)) /\ p \in Inside(inside)
      BY <1>9, InsideFinite
    <3>2. Cardinality(Inside(inside) \ {p}) = Cardinality(Inside(inside)) - 1
      BY <3>1, FS_RemoveElement
    <3> QED BY <1>9, <3>2
  <2>2. ~enabled => late + Cardinality(Inside(inside)) <= 2
    BY DEF IInv, LateOnlyInHand, Inside
  <2>3. ~enabled => late' = late + 1
    BY <1>2
  <2>4. late \in Nat /\ Cardinality(Inside(inside)) \in Nat
    BY InsideFinite DEF IInv, TypeOK
  <2>5. ~enabled' => late' + Cardinality(Inside(inside')) <= 2
    BY <1>2, <2>1, <2>2, <2>3, <2>4
  <2> QED BY <2>5 DEF LateOnlyInHand, Inside
<1>11. FlushesKept'
  <2>1. FlushEvents(queue) = FlushEvents(kept) + One(dropped)
    <3>1. CASE full
      BY <1>1, <1>4, <3>1, FlushesOfTail
    <3>2. CASE ~full
      BY <1>1, <3>2, FlushesInFinite DEF One
    <3> QED BY <3>1, <3>2
  <2>2. FlushEvents(queue') = FlushEvents(kept) + One(EventOf(p) = "flush")
    BY <1>2, <1>3, <1>4, FlushesOfAppend
  <2>3. Coming(left) = Coming(left') + One(EventOf(p) = "flush")
    BY <1>1, <1>2, ComingAfterPush DEF IInv
  <2>4. FlushEvents(kept) \in Nat
    BY <1>4, FlushesInFinite
  <2> HIDE DEF kept, dropped
  <2>5. One(dropped) \in Nat /\ One(EventOf(p) = "flush") \in Nat /\ Coming(left') \in Nat
    BY DEF One, Coming
  <2>6. out' = out /\ posted' = posted /\ flushes' = flushes
    BY <1>2
  <2>7. posted + Held + lost = flushes
    BY DEF IInv, FlushesKept
  <2>8. Held = Held' + One(dropped)
    BY <2>1, <2>2, <2>3, <2>4, <2>5, <2>6, SumTypes, HeldSum, SMTT(30) DEF IInv
  <2>9. Held' \in Nat /\ lost' = lost + One(dropped)
    <3>1. FlushEvents(queue') \in Nat
      BY <2>2, <2>4, <2>5
    <3>2. out' \in Nat
      BY <2>6, SumTypes DEF IInv
    <3>3. Held' \in Nat
      BY <2>5, <3>1, <3>2, HeldSum
    <3>4. lost' = lost + One(dropped)
      BY <1>2
    <3> QED BY <3>3, <3>4
  <2>10. posted' + Held' + lost' = flushes'
    BY <2>5, <2>6, <2>7, <2>8, <2>9, SumTypes DEF IInv
  <2> QED BY <2>10 DEF FlushesKept
<1> QED BY <1>7, <1>8, <1>10, <1>11 DEF IInv

\* activate: the thread that disables the sensor is not in pushEvent; two that meet may
\* empty the buffers.
LEMMA ActivateKeepsIInv ==
  ASSUME IInv, NEW b \in Binders,
         (\E e \in BOOLEAN : ActivateStores(b, e)) \/ ActivateRest(b)
  PROVE  IInv'
<1> USE IIOSensorAssumption DEF IIOSensorAssumption
<1>0. /\ left \in [Threads -> Nat] /\ inside \in [Threads -> BOOLEAN] /\ b \in Threads
      /\ activating \in [Binders -> {"none", "test", "empty", "stamp"}]
  BY ThreadsDiffer DEF IInv, TypeOK
<1>1. ASSUME NEW e \in BOOLEAN, ActivateStores(b, e) PROVE IInv'
  <2>1. /\ activating[b] = "none" /\ left[b] = 0 /\ enabled' = e
        /\ activating' = [activating EXCEPT ![b] = IF e THEN "stamp" ELSE "test"]
        /\ late' = IF e \/ enabled THEN 0 ELSE late
        /\ UNCHANGED <<listened, mode, stamp, injected, flushes, queue, left, inside, lost,
                       rpc, sample, out, posted, last>>
    BY <1>1 DEF ActivateStores, Idle, readerVars
  <2>2. activating' \in [Binders -> {"none", "test", "empty", "stamp"}] /\ late' \in Nat
    BY <1>0, <2>1 DEF IInv, TypeOK
  <2>3. TypeOK'
    BY <2>1, <2>2 DEF IInv, TypeOK
  <2>4. CallsAgree'
    BY <1>0, <2>1 DEF IInv, CallsAgree
  <2>5. LateOnlyInHand'
    <3>1. b \notin Inside(inside)
      BY <1>0, <2>1 DEF IInv, CallsAgree, Inside
    <3>2. Cardinality(Inside(inside)) \in Nat /\ Cardinality(Inside(inside)) <= 2
      BY <1>0, <3>1, InsideFinite
    <3>3. ~enabled => late + Cardinality(Inside(inside)) <= 2
      BY DEF IInv, LateOnlyInHand, Inside
    <3> QED BY <2>1, <3>2, <3>3 DEF LateOnlyInHand, Inside
  <2>6. FlushesKept'
    BY <2>1, HeldSum DEF IInv, FlushesKept
  <2> QED BY <2>3, <2>4, <2>5, <2>6 DEF IInv
<1>2. CASE ActivateTests(b)
  <2>1. /\ activating[b] = "test"
        /\ activating' = [activating EXCEPT ![b] = IF enabled THEN "empty" ELSE "stamp"]
        /\ UNCHANGED <<enabled, listened, mode, stamp, injected, flushes, queue, left, inside, lost,
                       late, rpc, sample, out, posted, last>>
    BY <1>2 DEF ActivateTests, Activates, bufferVars, readerVars
  <2>2. activating' \in [Binders -> {"none", "test", "empty", "stamp"}]
    BY <1>0, <2>1
  <2>3. TypeOK'
    BY <2>1, <2>2 DEF IInv, TypeOK
  <2>4. CallsAgree'
    BY <1>0, <2>1 DEF IInv, CallsAgree
  <2>5. LateOnlyInHand' /\ FlushesKept'
    BY <2>1, HeldSum DEF IInv, LateOnlyInHand, FlushesKept
  <2> QED BY <2>3, <2>4, <2>5 DEF IInv
<1>3. CASE ActivateEmpties(b)
  <2>1. /\ activating' = [activating EXCEPT ![b] = "none"]
        /\ queue' = <<>> /\ injected' = FALSE
        /\ lost' = lost + FlushEvents(queue)
        /\ UNCHANGED <<enabled, listened, mode, stamp, flushes, left, inside, late,
                       rpc, sample, out, posted, last>>
    BY <1>3 DEF ActivateEmpties, Activates, readerVars
  <2>2. /\ activating' \in [Binders -> {"none", "test", "empty", "stamp"}]
        /\ queue' \in Seq({"flush", "other"}) /\ Len(queue') <= MaxSize
        /\ lost' \in Nat
    BY <1>0, <2>1, SumTypes DEF IInv
  <2>3. TypeOK'
    BY <2>1, <2>2 DEF IInv, TypeOK
  <2>4. CallsAgree'
    BY <1>0, <2>1 DEF IInv, CallsAgree
  <2>5. LateOnlyInHand'
    BY <2>1 DEF IInv, LateOnlyInHand
  <2>6. FlushesKept'
    <3>1. Held' = out + 0 + Coming(left) /\ Held = out + FlushEvents(queue) + Coming(left)
      BY <2>1, HeldSum, FlushesOfNothing
    <3>2. posted + Held + lost = flushes
      BY DEF IInv, FlushesKept
    <3>3. /\ out \in Nat /\ Coming(left) \in Nat /\ FlushEvents(queue) \in Nat
          /\ posted \in Nat /\ lost \in Nat
      BY SumTypes DEF IInv
    <3>4. posted' = posted /\ flushes' = flushes /\ lost' = lost + FlushEvents(queue)
      BY <2>1
    <3>5. Held' = out + Coming(left)
      BY <3>1, <3>3
    <3>6. posted' + Held' + lost' = flushes'
      BY <3>1, <3>2, <3>3, <3>4, <3>5
    <3> QED BY <3>6 DEF FlushesKept
  <2> QED BY <2>3, <2>4, <2>5, <2>6 DEF IInv
<1>4. CASE ActivateStamps(b)
  <2>1. /\ activating[b] = "stamp"
        /\ activating' = [activating EXCEPT ![b] = "none"]
        /\ stamp' \in Stamps /\ last' = 0
        /\ left' = [left EXCEPT ![b] = InfoEvents]
        /\ UNCHANGED <<enabled, listened, mode, injected, flushes, queue, inside, lost, late,
                       rpc, sample, out, posted>>
    BY <1>4 DEF ActivateStamps, Activates
  <2>2. /\ activating' \in [Binders -> {"none", "test", "empty", "stamp"}]
        /\ stamp' \in Nat /\ left' \in [Threads -> Nat]
    BY <1>0, <2>1, StampsType
  <2>3. TypeOK'
    BY <2>1, <2>2 DEF IInv, TypeOK
  <2>4. left[b] = 0 /\ ~inside[b]
    BY <1>0, <2>1 DEF IInv, CallsAgree
  <2>5. CallsAgree'
    BY <1>0, <2>1, <2>4 DEF IInv, CallsAgree
  <2>6. LateOnlyInHand'
    BY <2>1 DEF IInv, LateOnlyInHand
  <2>7. Coming(left') = Coming(left)
    BY <1>0, <2>1, <2>4, ThreadsDiffer DEF Coming, One
  <2>8. FlushesKept'
    BY <2>1, <2>7, HeldSum DEF IInv, FlushesKept
  <2> QED BY <2>3, <2>5, <2>6, <2>8 DEF IInv
<1> QED BY <1>1, <1>2, <1>3, <1>4 DEF ActivateRest

\* The other calls.
LEMMA CallsKeepIInv ==
  ASSUME IInv, (\E b \in Binders : Flush(b)) \/ Listen \/ SetOperationMode \/ InjectEvent
  PROVE  IInv'
<1> USE IIOSensorAssumption DEF IIOSensorAssumption
<1>1. ASSUME NEW b \in Binders, Flush(b) PROVE IInv'
  <2>0. left \in [Threads -> Nat] /\ inside \in [Threads -> BOOLEAN] /\ b \in Threads
    BY ThreadsDiffer DEF IInv, TypeOK
  <2>1. /\ left[b] = 0 /\ activating[b] = "none" /\ flushes' = flushes + 1
        /\ left' = [left EXCEPT ![b] = 1 + InfoEvents]
        /\ UNCHANGED <<enabled, listened, mode, stamp, injected, activating, queue, inside, lost,
                       late, rpc, sample, out, posted, last>>
    BY <1>1 DEF Flush, Idle, readerVars
  <2>2. left' \in [Threads -> Nat] /\ flushes' \in Nat
    BY <2>0, <2>1 DEF IInv, TypeOK
  <2>3. TypeOK'
    BY <2>1, <2>2 DEF IInv, TypeOK
  <2>4. CallsAgree'
    BY <2>0, <2>1 DEF IInv, CallsAgree
  <2>5. LateOnlyInHand'
    BY <2>1 DEF IInv, LateOnlyInHand
  <2>6. Coming(left') = Coming(left) + 1
    BY <2>0, <2>1, ThreadsDiffer DEF Coming, One
  <2>7. posted + Held + lost = flushes
    BY DEF IInv, FlushesKept
  <2>8. posted' + Held' + lost' = flushes'
    BY <2>1, <2>6, <2>7, SumTypes, HeldSum DEF IInv
  <2> QED BY <2>3, <2>4, <2>5, <2>8 DEF IInv, FlushesKept
<1>2. CASE Listen \/ SetOperationMode \/ InjectEvent
  <2>1. /\ listened' \in BOOLEAN
        /\ mode' \in {"NORMAL", "DATA_INJECTION"}
        /\ injected' \in BOOLEAN
    <3>1. CASE Listen
      BY <3>1, Zenon DEF Listen, IInv, TypeOK
    <3>2. CASE SetOperationMode
      BY <3>2 DEF SetOperationMode, IInv, TypeOK
    <3>3. CASE InjectEvent
      BY <3>3 DEF InjectEvent, IInv, TypeOK
    <3> QED BY <1>2, <3>1, <3>2, <3>3
  <2>2. UNCHANGED <<enabled, stamp, activating, flushes, queue, left, inside, lost, late,
                    rpc, sample, out, posted, last>>
    BY <1>2 DEF Listen, SetOperationMode, InjectEvent, bufferVars, readerVars
  <2>3. TypeOK'
    BY <2>1, <2>2 DEF IInv, TypeOK
  <2>4. CallsAgree' /\ LateOnlyInHand'
    BY <2>2 DEF IInv, CallsAgree, LateOnlyInHand
  <2>5. FlushesKept'
    BY <2>2, HeldSum DEF IInv, FlushesKept
  <2> QED BY <2>3, <2>4, <2>5 DEF IInv
<1> QED BY <1>1, <1>2

\* The poll thread: flush events pass from the buffer to outEvents to the count of those
\* posted, or of those lost when the event queue has no room.
LEMMA ReaderKeepsIInv ==
  ASSUME IInv, (\E due \in BOOLEAN : Read(due)) \/ ReaderSteps
  PROVE  IInv'
<1> USE IIOSensorAssumption DEF IIOSensorAssumption
<1>0. left \in [Threads -> Nat] /\ "reader" \in Threads /\ "reader" \notin Binders
  BY ThreadsDiffer DEF IInv, TypeOK
<1>1. CASE (\E due \in BOOLEAN : Read(due)) \/ Check
  <2>1. sample' \in Nat /\ rpc' \in {"read", "check", "store", "push", "test"}
    <3>1. ASSUME NEW due \in BOOLEAN, Read(due)
          PROVE  sample' \in Nat /\ rpc' \in {"read", "check", "store", "push", "test"}
      BY <3>1, StampsType DEF Read, Reader, IInv, TypeOK
    <3>2. CASE Check
      BY <3>2 DEF Check, Reader, IInv, TypeOK
    <3> QED BY <1>1, <3>1, <3>2
  <2>2. UNCHANGED <<enabled, listened, mode, stamp, injected, activating, flushes, bufferVars,
                    out, posted, last>>
    BY <1>1 DEF Read, Check
  <2>3. TypeOK'
    BY <2>1, <2>2 DEF IInv, TypeOK, bufferVars
  <2>4. CallsAgree' /\ LateOnlyInHand'
    BY <2>2 DEF IInv, CallsAgree, LateOnlyInHand, bufferVars
  <2>5. FlushesKept'
    BY <2>2, HeldSum DEF IInv, FlushesKept, bufferVars
  <2> QED BY <2>3, <2>4, <2>5 DEF IInv
<1>2. CASE Store
  <2>1. /\ rpc' = "push" /\ stamp' = sample /\ last' = sample /\ sample' = 0
        /\ left' = [left EXCEPT !["reader"] = 1]
        /\ UNCHANGED <<enabled, listened, mode, injected, activating, flushes, queue, inside, lost,
                       late, out, posted>>
    BY <1>2 DEF Store, Reader
  <2>2. left' \in [Threads -> Nat] /\ \A b \in Binders : left'[b] = left[b]
    BY <1>0, <2>1, ThreadsDiffer
  <2>3. TypeOK'
    BY <2>1, <2>2 DEF IInv, TypeOK
  <2>4. CallsAgree'
    BY <1>0, <2>1, <2>2 DEF IInv, CallsAgree
  <2>5. LateOnlyInHand'
    BY <2>1 DEF IInv, LateOnlyInHand
  <2>6. Coming(left') = Coming(left)
    BY <2>2, ThreadsDiffer DEF Coming
  <2>7. FlushesKept'
    BY <2>1, <2>6, HeldSum DEF IInv, FlushesKept
  <2> QED BY <2>3, <2>4, <2>5, <2>7 DEF IInv
<1>3. CASE Drain
  <2>1. /\ rpc' = "test"
        /\ UNCHANGED <<enabled, listened, mode, stamp, activating, flushes, left, inside, lost,
                       late, sample, posted, last>>
    BY <1>3 DEF Drain, Reader
  <2>2. /\ queue' \in Seq({"flush", "other"}) /\ Len(queue') <= MaxSize
        /\ injected' \in BOOLEAN
        /\ out' \in Nat
        /\ out' + FlushEvents(queue') = out + FlushEvents(queue)
    <3>1. <<>> \in Seq({"flush", "other"}) /\ Len(<<>>) = 0
      OBVIOUS
    <3>2. CASE queue' = <<>> /\ out' = out + FlushEvents(queue) /\ UNCHANGED injected
      BY <3>1, <3>2, FlushesOfNothing, SumTypes DEF IInv, TypeOK
    <3>3. CASE injected' = FALSE /\ UNCHANGED <<queue, out>>
      BY <3>3 DEF IInv, TypeOK
    <3> QED BY <1>3, <3>2, <3>3 DEF Drain
  <2>3. TypeOK'
    BY <2>1, <2>2 DEF IInv, TypeOK
  <2>4. CallsAgree' /\ LateOnlyInHand'
    BY <2>1 DEF IInv, CallsAgree, LateOnlyInHand
  <2>5. Held' = Held
    BY <2>1, <2>2, HeldSum
  <2>6. FlushesKept'
    BY <2>1, <2>5 DEF IInv, FlushesKept
  <2> QED BY <2>3, <2>4, <2>6 DEF IInv
<1>4. CASE Post
  <2>1. /\ rpc' = "read"
        /\ UNCHANGED <<enabled, listened, mode, stamp, injected, activating, flushes, queue, left,
                       inside, late, sample, last>>
    BY <1>4 DEF Post, Reader
  <2>2. /\ out' \in Nat /\ posted' \in Nat /\ lost' \in Nat
        /\ posted' + out' + lost' = posted + out + lost
    BY <1>4, SumTypes DEF Post, IInv
  <2>3. TypeOK'
    BY <2>1, <2>2 DEF IInv, TypeOK
  <2>4. CallsAgree' /\ LateOnlyInHand'
    BY <2>1 DEF IInv, CallsAgree, LateOnlyInHand
  <2>5. posted + Held + lost = flushes
    BY DEF IInv, FlushesKept
  <2>6. posted' + Held' + lost' = flushes'
    BY <2>1, <2>2, <2>5, SumTypes, HeldSum DEF IInv
  <2> QED BY <2>3, <2>4, <2>6 DEF IInv, FlushesKept
<1> QED BY <1>1, <1>2, <1>3, <1>4 DEF ReaderSteps

\* Flush events are conserved, and pushes to a disabled sensor counted, in every
\* reachable state, also when two activates meet and when the event queue is full.
THEOREM Invariance == Spec => []IInv
<1>1. IInv /\ [Next]_vars => IInv'
  <2> SUFFICES ASSUME IInv, [Next]_vars PROVE IInv'
    OBVIOUS
  <2>1. CASE UNCHANGED vars
    BY <2>1, HeldSum DEF vars, bufferVars, readerVars, IInv, TypeOK, CallsAgree, LateOnlyInHand,
       FlushesKept
  <2>2. CASE Pushes
    BY <2>2, PushTestsKeeps, PushAppendsKeeps DEF Pushes
  <2> QED BY <2>1, <2>2, ActivateKeepsIInv, CallsKeepIInv, ReaderKeepsIInv DEF Next
<1> QED BY InitIInv, <1>1, PTL DEF Spec

\* The variables keep their ranges, and the event buffer its bound, whatever that is.
THEOREM TypeCorrect == Spec => []TypeOK
  BY Invariance, PTL DEF IInv

\* Every flush is reported complete once, or its event is on its way or was dropped,
\* once, by a full buffer or queue, a disabled sensor or activates that have met, for
\* any buffer and any number of flushes.
THEOREM FlushEventsKept == Spec => []FlushesKept
  BY Invariance, PTL DEF IInv

\* A sensor that was disabled gets at most two events more before it is enabled again.
THEOREM LateEventsBounded == Spec => []LateOnlyInHand
  BY Invariance, PTL DEF IInv

(***************************************************************************)
(* Timestamps.  Only the poll thread moves last, to the mTimestamp it      *)
(* stores; activate, whenever it comes, stores another mTimestamp and      *)
(* forgets last with it.  What the poll thread has tested is therefore     *)
(* still good when it stores it.                                           *)
(***************************************************************************)
StampInv == stamp >= last /\ (rpc = "store" => sample >= last)

LEMMA NextStampInv == TypeOK /\ TypeOK' /\ StampInv /\ [Next]_vars => StampInv'
<1> SUFFICES ASSUME TypeOK, TypeOK', StampInv, [Next]_vars
             PROVE  StampInv'
  OBVIOUS
<1>1. /\ stamp \in Nat /\ sample \in Nat /\ last \in Nat
      /\ stamp' \in Nat /\ sample' \in Nat /\ last' \in Nat
  BY DEF TypeOK
<1> USE <1>1 DEF StampInv, readerVars, bufferVars
<1>2. CASE Pushes
  BY <1>2 DEF Pushes, PushTests, PushAppends
<1>3. ASSUME NEW b \in Binders, ActivateRest(b) PROVE StampInv'
  <2>1. CASE ActivateStamps(b)
    BY <2>1, StampsType DEF ActivateStamps
  <2>2. CASE ActivateTests(b) \/ ActivateEmpties(b)
    BY <2>2 DEF ActivateTests, ActivateEmpties
  <2> QED BY <1>3, <2>1, <2>2 DEF ActivateRest
<1>4. ASSUME NEW b \in Binders, (\E e \in BOOLEAN : ActivateStores(b, e)) \/ Flush(b)
      PROVE  StampInv'
  BY <1>4 DEF ActivateStores, Flush
<1>5. CASE Listen \/ SetOperationMode \/ InjectEvent
  BY <1>5 DEF Listen, SetOperationMode, InjectEvent
<1>6. CASE \E due \in BOOLEAN : Read(due)
  BY <1>6 DEF Read, Reader
<1>7. CASE ReaderSteps
  <2>1. CASE Check
    BY <2>1 DEF Check, Reader
  <2>2. CASE Store
    BY <2>2 DEF Store, Reader
  <2>3. CASE Drain
    BY <2>3 DEF Drain, Reader
  <2>4. CASE Post
    BY <2>4 DEF Post, Reader
  <2> QED BY <1>7, <2>1, <2>2, <2>3, <2>4 DEF ReaderSteps
<1>8. CASE UNCHANGED vars
  BY <1>8 DEF vars
<1> QED BY <1>2, <1>3, <1>4, <1>5, <1>6, <1>7, <1>8 DEF Next

\* Between two activations no timestamp is accepted that is older than the one before,
\* as far as the float mTimestamp tells them apart, wherever activate cuts in and
\* whatever the spacing of floats is.
THEOREM AcceptedInOrder == Spec => TimestampsInOrder
<1>1. Init => StampInv
  BY DEF Init, StampInv
<1>2. StampInv /\ [Next]_vars => [rpc = "store" /\ rpc' = "push" => sample >= last]_vars
  BY DEF StampInv
<1> QED BY <1>1, <1>2, TypeCorrect, NextStampInv, PTL DEF Spec, TimestampsInOrder

=============================================================================
