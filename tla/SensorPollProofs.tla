-------------------------- MODULE SensorPollProofs --------------------------
(***************************************************************************)
(* Proofs about SensorPoll, for any list of virtual groups and any number  *)
(* of retries.  What a thread holds in outEvents at the test isActive was  *)
(* taken in the turn of the sensor that is tested, and that sensor is still*)
(* active: otherwise somebody has disabled it meanwhile.                   *)
(***************************************************************************)
EXTENDS SensorPoll, VirtualSensor, TLAPS

Places == {"loop", "read", "sensor", "fuse", "notify", "group", "gyro", "reset", "post", "ended"}

\* The variables that have one value per thread.
Threaded ==
    /\ pc \in [Threads -> Places]
    /\ turn \in [Threads -> Nat] /\ \A t \in Threads : turn[t] \in DOMAIN Order[t]
    /\ out \in [Threads -> Seq(0..2)]
    /\ interrupted \in [Threads -> BOOLEAN]

\* outEvents between two tests of isActive, as far as nobody was disabled.
OutOfTurn(t) ==
    ~interrupted[t] =>
        /\ \A i \in DOMAIN out[t] : out[t][i] <= 1
        /\ pc[t] \in {"loop", "read", "sensor", "ended"} => out[t] = <<>>
        /\ pc[t] = "fuse" => \A i \in DOMAIN out[t] : out[t][i] = 0
        /\ out[t] # <<>> => Current(t) \in enabled

IInv == Threaded /\ \A t \in Threads : OutOfTurn(t)

LEMMA OrderFacts ==
  /\ Threads = {"AccMagn", "Gyro"}
  /\ \A t \in Threads : Order[t] \in Seq(Hw) /\ Len(Order[t]) \in {1, 2}
  /\ \A t \in Threads : DOMAIN Order[t] = 1..Len(Order[t])
<1>1. Threads = {"AccMagn", "Gyro"}
  BY DEF Threads, Order
<1>2. Order["AccMagn"] = <<"ACC", "MAG">> /\ Order["Gyro"] = <<"GYR">>
  BY DEF Order
<1>3. \A t \in Threads : Order[t] \in Seq(Hw) /\ Len(Order[t]) \in {1, 2}
  <2>1. <<"ACC", "MAG">> \in Seq(Hw) /\ Len(<<"ACC", "MAG">>) = 2
    BY DEF Hw
  <2>2. <<"GYR">> \in Seq(Hw) /\ Len(<<"GYR">>) = 1
    BY DEF Hw
  <2> QED BY <1>1, <1>2, <2>1, <2>2
<1> QED BY <1>1, <1>3

LEMMA InitIInv == Init => IInv
<1> SUFFICES ASSUME Init PROVE IInv
  OBVIOUS
<1>1. pc \in [Threads -> Places]
  BY DEF Init, Places
<1>2. turn \in [Threads -> Nat] /\ \A t \in Threads : turn[t] \in DOMAIN Order[t]
  BY OrderFacts DEF Init
<1>3. out \in [Threads -> Seq(0..2)]
  BY DEF Init
<1>4. interrupted \in [Threads -> BOOLEAN]
  BY DEF Init
<1>5. \A t \in Threads : OutOfTurn(t)
  BY DEF Init, OutOfTurn
<1> QED BY <1>1, <1>2, <1>3, <1>4, <1>5 DEF IInv, Threaded

\* A call of the client: who disables a sensor interrupts every thread that is not
\* between two rounds, and between two rounds there is nothing in outEvents.
LEMMA CallsKeepIInv ==
  ASSUME IInv, NEW x \in Toggled, Activate(x) \/ Deactivate(x)
  PROVE  IInv'
<1>1. UNCHANGED <<pc, turn, out>>
  BY DEF Activate, Deactivate
<1>2. CASE Activate(x)
  <2>1. interrupted' = interrupted /\ enabled \subseteq enabled'
    BY <1>2 DEF Activate
  <2> QED BY <1>1, <2>1 DEF IInv, Threaded, OutOfTurn, Current
<1>3. CASE Deactivate(x)
  <2>1. interrupted' = [t \in Threads |-> interrupted[t] \/ pc[t] \notin {"loop", "ended"}]
    BY <1>3 DEF Deactivate
  <2>2. Threaded'
    BY <1>1, <2>1 DEF IInv, Threaded
  <2>3. ASSUME NEW t \in Threads PROVE OutOfTurn(t)'
    <3>1. CASE pc[t] \in {"loop", "ended"}
      BY <1>1, <2>1, <3>1 DEF IInv, Threaded, OutOfTurn
    <3>2. CASE pc[t] \notin {"loop", "ended"}
      BY <1>1, <2>1, <3>2 DEF IInv, Threaded, OutOfTurn
    <3> QED BY <3>1, <3>2
  <2> QED BY <2>2, <2>3 DEF IInv
<1> QED BY <1>2, <1>3

\* What a step of one thread has to show: the other threads keep their variables.
LEMMA OneThread ==
  ASSUME IInv, NEW t \in Threads, Threaded', enabled' = enabled, OutOfTurn(t)',
         \A u \in Threads \ {t} : /\ pc'[u] = pc[u] /\ turn'[u] = turn[u]
                                  /\ out'[u] = out[u] /\ interrupted'[u] = interrupted[u]
  PROVE  IInv'
  BY DEF IInv, OutOfTurn, Current

\* Steps that leave outEvents and the turn alone, and go to a place where no less
\* is allowed.
LEMMA PassingSteps ==
  ASSUME IInv, NEW t \in Threads, NEW to \in Places,
         UNCHANGED <<enabled, turn, out, interrupted>>,
         pc' = [pc EXCEPT ![t] = to],
         to \in {"loop", "read", "sensor", "ended"} =>
             pc[t] \in {"loop", "read", "sensor", "ended"},
         to # "fuse"
  PROVE  IInv'
<1>1. Threaded'
  BY DEF IInv, Threaded
<1>2. OutOfTurn(t)'
  BY DEF IInv, Threaded, OutOfTurn, Current
<1> QED BY <1>1, <1>2, OneThread DEF IInv, Threaded

\* The way through notifyListeners.
LEMMA NotifyKeepsIInv ==
  ASSUME IInv, NEW t \in Threads, NotifyListeners(t)
  PROVE  IInv'
<1>1. UNCHANGED <<enabled, turn, out, interrupted>>
  BY DEF NotifyListeners, TestAccel, TestMagn, TestGyro, ResetReadyFlag, callVars
<1>2. PICK to \in {"group", "gyro", "reset", "post"} : pc' = [pc EXCEPT ![t] = to]
  BY DEF NotifyListeners, TestAccel, TestMagn, TestGyro, ResetReadyFlag, NextGroup, Goes
<1> QED BY <1>1, <1>2, PassingSteps DEF Places

LEMMA RoundKeepsIInv ==
  ASSUME IInv, NEW t \in Threads, ThreadSteps(t)
  PROVE  IInv'
<1>1. CASE TestTerminate(t)
  <2>1. PICK to \in {"ended", "read"} : pc' = [pc EXCEPT ![t] = to]
    BY <1>1 DEF TestTerminate, Goes
  <2>2. pc[t] = "loop" /\ UNCHANGED <<enabled, turn, out, interrupted>>
    BY <1>1 DEF TestTerminate, Goes, callVars
  <2> QED BY <2>1, <2>2, PassingSteps DEF Places
<1>2. CASE ReadSucceeds(t)
  <2>1. /\ pc[t] = "read" /\ pc' = [pc EXCEPT ![t] = "sensor"]
        /\ turn' = [turn EXCEPT ![t] = 1]
        /\ UNCHANGED <<enabled, out, interrupted>>
    BY <1>2 DEF ReadSucceeds, Goes, callVars
  <2>2. Threaded'
    BY <2>1, OrderFacts DEF IInv, Threaded, Places
  <2>3. OutOfTurn(t)'
    BY <2>1 DEF IInv, Threaded, OutOfTurn
  <2> QED BY <2>1, <2>2, <2>3, OneThread DEF IInv, Threaded
<1>3. CASE ReadFails(t)
  <2>1. /\ pc[t] = "read" /\ pc' = [pc EXCEPT ![t] = "loop"]
        /\ UNCHANGED <<enabled, turn, out, interrupted>>
    BY <1>3 DEF ReadFails, Goes, callVars
  <2> QED BY <2>1, PassingSteps DEF Places
<1>4. CASE TakeSample(t)
  <2>1. /\ pc[t] = "sensor" /\ pc' = [pc EXCEPT ![t] = "fuse"]
        /\ UNCHANGED <<enabled, turn, interrupted>>
    BY <1>4 DEF TakeSample, Goes, callVars
  <2>2. \/ Current(t) \in enabled /\ out' = [out EXCEPT ![t] = Append(@, 0)]
        \/ out' = out
    BY <1>4 DEF TakeSample
  <2>3. out[t] \in Seq(0..2) /\ Append(out[t], 0) \in Seq(0..2)
    BY DEF IInv, Threaded
  <2>4. Threaded'
    BY <2>1, <2>2, <2>3 DEF IInv, Threaded, Places
  <2>5. ~interrupted[t] => out[t] = <<>>
    BY <2>1 DEF IInv, OutOfTurn
  <2>6. OutOfTurn(t)'
    BY <2>1, <2>2, <2>5 DEF IInv, Threaded, OutOfTurn, Current
  <2>7. \A u \in Threads \ {t} : out'[u] = out[u]
    BY <2>2 DEF IInv, Threaded
  <2> QED BY <2>1, <2>4, <2>6, <2>7, OneThread DEF IInv, Threaded
<1>5. CASE SkipSample(t)
  <2>1. /\ pc[t] = "sensor" /\ pc' = [pc EXCEPT ![t] = "post"]
        /\ UNCHANGED <<enabled, turn, out, interrupted>>
    BY <1>5 DEF SkipSample, Goes, callVars
  <2> QED BY <2>1, PassingSteps DEF Places
<1>6. CASE FuseAndFlag(t)
  <2> DEFINE fused == [i \in DOMAIN out[t] |-> IF out[t][i] < 2 THEN out[t][i] + 1 ELSE 2]
  <2>1. /\ pc[t] = "fuse" /\ pc' = [pc EXCEPT ![t] = "notify"]
        /\ out' = [out EXCEPT ![t] = fused]
        /\ UNCHANGED <<enabled, turn, interrupted>>
    BY <1>6 DEF FuseAndFlag, Goes, callVars
  <2>2. out[t] \in Seq(0..2) /\ DOMAIN out[t] = 1..Len(out[t]) /\ Len(out[t]) \in Nat
    BY DEF IInv, Threaded
  <2>3. \A i \in DOMAIN out[t] : out[t][i] \in 0..2
    BY <2>2
  <2>4. fused \in Seq(0..2)
    BY <2>2, <2>3
  <2>5. Threaded'
    BY <2>1, <2>4 DEF IInv, Threaded, Places
  <2>6. out'[t] = fused /\ pc'[t] = "notify"
    BY <2>1 DEF IInv, Threaded
  <2>7. ~interrupted[t] => \A i \in DOMAIN fused : fused[i] <= 1
    BY <2>1 DEF IInv, OutOfTurn
  <2>8. fused # <<>> => out[t] # <<>>
    BY <2>2
  <2>9. OutOfTurn(t)'
    BY <2>1, <2>6, <2>7, <2>8 DEF IInv, OutOfTurn, Current
  <2> HIDE DEF fused
  <2> QED BY <2>1, <2>5, <2>9, OneThread DEF IInv, Threaded
<1>7. CASE NotifyListeners(t)
  BY <1>7, NotifyKeepsIInv
<1>8. CASE Post(t)
  <2>1. PICK to \in {"sensor", "loop"} : pc' = [pc EXCEPT ![t] = to]
    BY <1>8 DEF Post, Goes
  <2>2. /\ turn' = [turn EXCEPT ![t] = IF @ < Len(Order[t]) THEN @ + 1 ELSE 1]
        /\ enabled' = enabled
    BY <1>8 DEF Post
  <2>3. \/ /\ out' = [out EXCEPT ![t] = <<>>]
           /\ interrupted' = [interrupted EXCEPT ![t] = FALSE]
        \/ Current(t) \notin enabled /\ out' = out /\ interrupted' = interrupted
    BY <1>8 DEF Post
  <2>4. turn' \in [Threads -> Nat] /\ \A u \in Threads : turn'[u] \in DOMAIN Order[u]
    BY <2>2, OrderFacts DEF IInv, Threaded
  <2>5. pc' \in [Threads -> Places]
    BY <2>1 DEF IInv, Threaded, Places
  <2>6. out' \in [Threads -> Seq(0..2)] /\ interrupted' \in [Threads -> BOOLEAN]
    <3>1. <<>> \in Seq(0..2)
      OBVIOUS
    <3> QED BY <2>3, <3>1 DEF IInv, Threaded
  <2>7. ~interrupted'[t] => out'[t] = <<>>
    BY <2>3 DEF IInv, Threaded, OutOfTurn
  <2>8. OutOfTurn(t)'
    BY <2>7 DEF OutOfTurn
  <2>9. \A u \in Threads \ {t} : /\ pc'[u] = pc[u] /\ turn'[u] = turn[u]
                                 /\ out'[u] = out[u] /\ interrupted'[u] = interrupted[u]
    BY <2>1, <2>2, <2>3 DEF IInv, Threaded
  <2> QED BY <2>2, <2>4, <2>5, <2>6, <2>8, <2>9, OneThread DEF Threaded
<1> QED BY <1>1, <1>2, <1>3, <1>4, <1>5, <1>6, <1>7, <1>8 DEF ThreadSteps

\* Between two tests of isActive a thread has in outEvents only what came in the
\* turn of the sensor it is at, or a sensor was disabled on the way.
THEOREM Invariance == Spec => []IInv
<1>1. IInv /\ [Next]_vars => IInv'
  <2> SUFFICES ASSUME IInv, [Next]_vars PROVE IInv'
    OBVIOUS
  <2>1. CASE UNCHANGED vars
    BY <2>1 DEF vars, callVars, IInv, Threaded, OutOfTurn, Current
  <2> QED BY <2>1, CallsKeepIInv, RoundKeepsIInv DEF Next
<1> QED BY InitIInv, <1>1, PTL DEF Spec

\* No sample goes to FusionSensor twice and none stays in outEvents beyond its turn,
\* unless a sensor was disabled on the way, for any virtual groups and any client.
THEOREM SamplesFusedOnce == Spec => []FusedOnce
<1>1. IInv => FusedOnce
  BY DEF IInv, OutOfTurn, FusedOnce
<1> QED BY Invariance, <1>1, PTL

(***************************************************************************)
(* The poll thread of a virtual sensor, for any number of calls and any    *)
(* size of the buffer of injected events.  Each request for a flush event  *)
(* is in one place: in needFlush, in the poll thread's hands (flushEvent), *)
(* posted, or gone with the events of a full event queue.                  *)
(***************************************************************************)
\* The poll thread has a flush event in hand only between the test of mNeedFlush
\* and postEvents: it never fetches a second one.
EventInHand == flushEvent => ppc \in {"clearInfo", "fetch", "process"}

\* One request, or none.
Held(flag) == IF flag THEN 1 ELSE 0

VirtualIInv == VirtualTypeOK /\ EventInHand /\ FlushEventsAsked

LEMMA VirtualInitIInv ==
  ASSUME VirtualInit
  PROVE  VirtualIInv
<1>1. VirtualTypeOK
  <2>1. injected \in 0..InjectMax /\ flushes \in 0..MaxFlushes /\ activates \in 0..MaxActivates
    BY VirtualSensorAssumption DEF VirtualInit
  <2>2. flushEvents \in Nat
    BY DEF VirtualInit
  <2> QED BY <2>1, <2>2, Zenon DEF VirtualInit, VirtualTypeOK
<1>2. ~flushEvent /\ ~needFlush
  BY DEF VirtualInit
<1>3. (IF flushEvent THEN 1 ELSE 0) = 0 /\ (IF needFlush THEN 1 ELSE 0) = 0
  BY <1>2
<1>4. flushes = 0 /\ flushEvents = 0
  BY DEF VirtualInit
<1> QED BY <1>1, <1>2, <1>3, <1>4 DEF VirtualIInv, EventInHand, FlushEventsAsked

\* A notification only wakes a poll thread that waits, with no event in hand.
LEMMA NotifyKeeps ==
  ASSUME VirtualIInv, Notify
  PROVE  /\ ppc' \in {"waiting", "woken", "testFlush", "clearInfo", "fetch", "process"}
         /\ flushEvent => ppc' \in {"clearInfo", "fetch", "process"}
  BY DEF VirtualIInv, VirtualTypeOK, EventInHand, Notify

\* The client's calls: flush asks once for each call it counts.
LEMMA VirtualCallsKeepIInv ==
  ASSUME VirtualIInv,
         \/ Flush \/ ActivateVirtual \/ CallContinues \/ InjectEvent \/ SetOperationMode
  PROVE  VirtualIInv'
<1> USE VirtualSensorAssumption DEF VirtualIInv, VirtualTypeOK, EventInHand, FlushEventsAsked,
        pollVars, clientVars
<1>1. CASE Flush
  BY <1>1 DEF Flush, Call
<1>2. CASE ActivateVirtual
  <2>1. activates' \in 0..MaxActivates
    BY <1>2 DEF ActivateVirtual
  <2>2. bpc' \in {"idle", "flush", "notify", "activate", "enable"}
    BY <1>2 DEF ActivateVirtual, Call
  <2>3. isEnabled' \in BOOLEAN /\ additionalInfo' \in BOOLEAN
    BY <1>2, Zenon DEF ActivateVirtual
  <2>4. UNCHANGED <<needFlush, injected, mode, ppc, pollMode, flushEvent, flushEvents, flushes>>
    BY <1>2 DEF ActivateVirtual
  <2> QED BY <2>1, <2>2, <2>3, <2>4
<1>3. CASE CallContinues
  <2>1. CASE FlushSetsInfo
    BY <2>1 DEF FlushSetsInfo, Call
  <2>2. CASE FlushNotifies
    BY <2>2, NotifyKeeps DEF FlushNotifies, Call
  <2>3. CASE ActivateNotifies
    BY <2>3, NotifyKeeps DEF ActivateNotifies, Call
  <2>4. CASE ActivateEnables
    BY <2>4 DEF ActivateEnables, Call
  <2> QED BY <1>3, <2>1, <2>2, <2>3, <2>4 DEF CallContinues
<1>4. CASE InjectEvent
  BY <1>4 DEF InjectEvent
<1>5. CASE SetOperationMode
  BY <1>5 DEF SetOperationMode
<1> QED BY <1>1, <1>2, <1>3, <1>4, <1>5

\* The threads: an event passes from needFlush to flushEvent to the count.
LEMMA VirtualThreadsKeepIInv ==
  ASSUME VirtualIInv,
         \/ \E h \in Sources : \E sample \in Samples(h) : HardwareSample(h, sample)
         \/ OtherActivates \/ NotifyEventsReady \/ SpuriousWake \/ PollThread
  PROVE  VirtualIInv'
<1> USE VirtualSensorAssumption DEF VirtualIInv, VirtualTypeOK, EventInHand, FlushEventsAsked,
        pollVars, clientVars
<1>1. CASE NotifyEventsReady
  BY <1>1, NotifyKeeps DEF NotifyEventsReady
<1>2. CASE SpuriousWake
  BY <1>2 DEF SpuriousWake, Poll
<1>3. CASE PollThread
  <2>1. CASE TestInfo
    BY <2>1 DEF TestInfo, Poll
  <2>2. CASE TestFlush
    <3>1. ~flushEvent /\ ~needFlush'
      BY <2>2 DEF TestFlush, Poll
    <3>2. flushEvent' = needFlush
      BY <2>2 DEF TestFlush
    <3>3. Held(flushEvent') + Held(needFlush') = Held(flushEvent) + Held(needFlush)
      BY <3>1, <3>2 DEF Held
    <3>4. flushEvents' = flushEvents /\ flushes' = flushes
      BY <2>2 DEF TestFlush
    <3>5. FlushEventsAsked'
      BY <3>3, <3>4 DEF Held
    <3>6. VirtualTypeOK' /\ EventInHand'
      BY <2>2, Zenon DEF TestFlush, Poll
    <3> QED BY <3>5, <3>6
  <2>3. CASE ClearInfo
    BY <2>3 DEF ClearInfo, Poll
  <2>4. CASE Fetch
    BY <2>4 DEF Fetch, Poll
  <2>5. CASE Process
    <3>1. ~flushEvent' /\ needFlush' = needFlush /\ flushes' = flushes
      BY <2>5 DEF Process
    <3>2. flushEvents' \in {flushEvents, flushEvents + Held(flushEvent)}
      BY <2>5 DEF Process, Held
    <3>3. FlushEventsAsked'
      <4>1. flushEvents' <= flushEvents + Held(flushEvent)
        BY <3>2 DEF Held
      <4>2. Held(flushEvent') = 0 /\ Held(needFlush') = Held(needFlush)
        BY <3>1 DEF Held
      <4>3. flushEvents' \in Nat
        BY <3>2 DEF Held
      <4>4. Held(flushEvent) \in Nat /\ Held(needFlush) \in Nat
        BY DEF Held
      <4>5. flushEvents + Held(flushEvent) + Held(needFlush) <= flushes
        BY DEF Held
      <4>6. flushEvents' + Held(flushEvent') + Held(needFlush') <= flushes'
        BY <3>1, <4>1, <4>2, <4>3, <4>4, <4>5
      <4> QED BY <4>6 DEF Held
    <3>4. injected' \in 0..InjectMax /\ flushEvents' \in Nat
      BY <2>5 DEF Process
    <3>5. pollMode' \in {"NORMAL", "DATA_INJECTION"} /\ ppc' = "waiting"
      BY <2>5 DEF Process, Poll
    <3>6. UNCHANGED <<isEnabled, needFlush, additionalInfo, mode, bpc, flushes, activates>>
      BY <2>5 DEF Process
    <3>7. flushEvent' \in BOOLEAN
      BY <2>5, Zenon DEF Process
    <3> QED BY <3>1, <3>3, <3>4, <3>5, <3>6, <3>7
  <2> QED BY <1>3, <2>1, <2>2, <2>3, <2>4, <2>5 DEF PollThread
<1>4. CASE \E h \in Sources : \E sample \in Samples(h) : HardwareSample(h, sample)
  BY <1>4 DEF HardwareSample
<1>5. CASE OtherActivates
  BY <1>5 DEF OtherActivates
<1> QED BY <1>1, <1>2, <1>3, <1>4, <1>5

\* No flush event is posted that was not asked for: the inductive form of it.
THEOREM VirtualInvariance == VirtualSpec => []VirtualIInv
<1>0. VirtualInit => VirtualIInv
  BY VirtualInitIInv
<1>1. VirtualIInv /\ [VirtualNext]_virtualVars => VirtualIInv'
  <2> SUFFICES ASSUME VirtualIInv, [VirtualNext]_virtualVars PROVE VirtualIInv'
    OBVIOUS
  <2>1. CASE UNCHANGED virtualVars
    BY <2>1 DEF virtualVars, pollVars, clientVars, VirtualIInv, VirtualTypeOK, EventInHand,
       FlushEventsAsked
  <2> QED BY <2>1, VirtualCallsKeepIInv, VirtualThreadsKeepIInv DEF VirtualNext
<1> QED BY <1>0, <1>1, PTL DEF VirtualSpec

\* The variables keep their ranges, the buffer of injected events its bound.
THEOREM VirtualTypeCorrect == VirtualSpec => []VirtualTypeOK
  BY VirtualInvariance, PTL DEF VirtualIInv

\* No flush is reported complete that was not asked for, however many flushes,
\* activations and rounds of the poll thread there are.
THEOREM FlushesAsked == VirtualSpec => []FlushEventsAsked
  BY VirtualInvariance, PTL DEF VirtualIInv

=============================================================================
