------------------------------ MODULE IIOSensor ------------------------------
(***************************************************************************)
(* A hardware sensor (sensors/IIOSensor) between its callers and the poll  *)
(* thread of its group (Sensors::pollIIODeviceGroupBuffer).  flush and     *)
(* activate leave events in mEventBuffer with pushEvent, which the poll    *)
(* thread also uses for its samples; it drains the buffer into outEvents   *)
(* when the sensor is due, and posts what it has when the sensor is active.*)
(*                                                                         *)
(* There are two binder threads (service.cpp), and either may be in any    *)
(* call, both in activate too.  mIsEnabled is atomic, the buffers have a   *)
(* mutex each, and mTimestamp has nothing.                                 *)
(***************************************************************************)
EXTENDS Naturals, Sequences, FiniteSets

CONSTANTS
    MaxSize,     \* AtomicBuffer::maxSize (50)
    InfoEvents,  \* the events generateAdditionalEvent makes (3)
    Granule,     \* the spacing of floats at the times in hand, in ticks of the clock
    MaxStamp,    \* bound: timestamps
    MaxFlushes   \* bound: calls of flush

ASSUME IIOSensorAssumption ==
    /\ MaxSize \in Nat \ {0} /\ InfoEvents \in Nat /\ Granule \in Nat \ {0}
    /\ MaxStamp \in Nat /\ MaxFlushes \in Nat

Binders == {"binder1", "binder2"}
Threads == Binders \cup {"reader"}

VARIABLES
    enabled,     \* mIsEnabled
    listened,    \* mListenerHandlers is not empty
    mode,        \* mMode of Sensors
    stamp,       \* mTimestamp
    queue,       \* mEventBuffer: "flush" for a flush event, "other" for the rest
    injected,    \* mInjectEventBuffer is not empty
    left,        \* per thread: events it still has to push onto mEventBuffer
    inside,      \* per thread: it is in pushEvent, past the test of mIsEnabled
    activating,  \* per binder thread: what its activate has still to do
    rpc,         \* where the poll thread is
    sample,      \* the timestamp of the sample it has read, 0 when it is done with it
    out,         \* the flush events in outEvents
    flushes,     \* calls of flush that were answered OK
    posted,      \* flush events posted
    lost,        \* history: flush events that were dropped
    late,        \* history: events pushed since the sensor was disabled
    last         \* history: the timestamp accepted last since activate

bufferVars == <<queue, left, inside, lost, late>>
readerVars == <<rpc, sample, out, posted, last>>
vars == <<enabled, listened, mode, stamp, injected, activating, flushes, bufferVars, readerVars>>

\* The conversion of an int64_t timestamp to the float mTimestamp: to the nearest
\* multiple of what 24 bits of mantissa tell apart (16 ms after two days).
Float(t) == ((t + Granule \div 2) \div Granule) * Granule

Stamps == {Float(t) : t \in 0..MaxStamp}

\* The constructor; the poll threads start in initialize, and have nothing to do
\* before the sensor is activated.
Init ==
    /\ enabled = FALSE /\ listened = FALSE /\ mode = "NORMAL" /\ stamp = 0
    /\ queue = <<>> /\ injected = FALSE
    /\ left = [p \in Threads |-> 0] /\ inside = [p \in Threads |-> FALSE]
    /\ activating = [b \in Binders |-> "none"]
    /\ rpc = "read" /\ sample = 0 /\ out = 0
    /\ flushes = 0 /\ posted = 0
    /\ lost = 0 /\ late = 0 /\ last = 0

(***************************************************************************)
(* pushEvent: mIsEnabled is tested before the mutex of the buffer is taken.*)
(***************************************************************************)
\* flush pushes its event before the additional ones.
EventOf(p) == IF p \in Binders /\ left[p] = 1 + InfoEvents THEN "flush" ELSE "other"

One(b) == IF b THEN 1 ELSE 0

\* mIsEnabled is not tested.
PushTestsBug(p) ==
    /\ left[p] > 0 /\ ~inside[p]
    /\ inside' = [inside EXCEPT ![p] = TRUE]
    /\ UNCHANGED <<enabled, listened, mode, stamp, injected, activating, flushes, queue, left,
                   lost, late, readerVars>>

PushTests(p) ==
    /\ left[p] > 0 /\ ~inside[p]
    /\ \/ enabled /\ inside' = [inside EXCEPT ![p] = TRUE] /\ UNCHANGED <<left, lost>>
       \/ /\ ~enabled
          /\ left' = [left EXCEPT ![p] = @ - 1]
          /\ lost' = lost + One(EventOf(p) = "flush")
          /\ UNCHANGED inside
    /\ UNCHANGED <<enabled, listened, mode, stamp, injected, activating, flushes, queue, late,
                   readerVars>>

\* A full buffer drops its oldest event.
PushAppends(p) ==
    LET full == Len(queue) >= MaxSize
    IN  /\ inside[p]
        /\ inside' = [inside EXCEPT ![p] = FALSE]
        /\ left' = [left EXCEPT ![p] = @ - 1]
        /\ queue' = Append(IF full THEN Tail(queue) ELSE queue, EventOf(p))
        /\ lost' = lost + One(full /\ Head(queue) = "flush")
        /\ late' = IF enabled THEN late ELSE late + 1
        /\ UNCHANGED <<enabled, listened, mode, stamp, injected, activating, flushes, readerVars>>

Pushes == \E p \in Threads : PushTests(p) \/ PushAppends(p)

(***************************************************************************)
(* The calls.                                                              *)
(***************************************************************************)
Idle(b) == activating[b] = "none" /\ left[b] = 0

SomeIdle == \E b \in Binders : Idle(b)

FlushEvents(q) == Cardinality({i \in DOMAIN q : q[i] = "flush"})

ActivateStores(b, e) ==
    /\ Idle(b)
    /\ enabled' = e
    /\ activating' = [activating EXCEPT ![b] = IF e THEN "stamp" ELSE "test"]
    /\ late' = IF e \/ enabled THEN 0 ELSE late
    /\ UNCHANGED <<listened, mode, stamp, injected, flushes, queue, left, inside, lost, readerVars>>

Activates(b, from, to) == activating[b] = from /\ activating' = [activating EXCEPT ![b] = to]

\* mIsEnabled is tested again after it was set to the argument: it is true only if
\* another activate has come in between.
ActivateTests(b) ==
    /\ Activates(b, "test", IF enabled THEN "empty" ELSE "stamp")
    /\ UNCHANGED <<enabled, listened, mode, stamp, injected, flushes, bufferVars, readerVars>>

\* One buffer, then the other, which the poll thread never looks at in the same round.
ActivateEmpties(b) ==
    /\ Activates(b, "empty", "none")
    /\ queue' = <<>>
    /\ injected' = FALSE
    /\ lost' = lost + FlushEvents(queue)
    /\ UNCHANGED <<enabled, listened, mode, stamp, flushes, left, inside, late, readerVars>>

\* The time is stored and the additional events are pushed, which pushEvent drops if
\* the sensor is disabled.
ActivateStamps(b) ==
    /\ Activates(b, "stamp", "none")
    /\ stamp' \in Stamps
    /\ last' = 0
    /\ left' = [left EXCEPT ![b] = InfoEvents]
    /\ UNCHANGED <<enabled, listened, mode, injected, flushes, queue, inside, lost, late, rpc, sample,
                   out, posted>>

ActivateRest(b) == ActivateTests(b) \/ ActivateEmpties(b) \/ ActivateStamps(b)

\* flush of an enabled sensor; of another one it answers BAD_VALUE.
Flush(b) ==
    /\ Idle(b)
    /\ enabled
    /\ flushes < MaxFlushes
    /\ flushes' = flushes + 1
    /\ left' = [left EXCEPT ![b] = 1 + InfoEvents]
    /\ UNCHANGED <<enabled, listened, mode, stamp, injected, activating, queue, inside, lost, late,
                   readerVars>>

\* addVirtualListener and removeVirtualListener, for the first and the last one.
Listen ==
    /\ SomeIdle
    /\ listened' = ~listened
    /\ UNCHANGED <<enabled, mode, stamp, injected, activating, flushes, bufferVars, readerVars>>

SetOperationMode ==
    /\ SomeIdle
    /\ mode' = IF mode = "NORMAL" THEN "DATA_INJECTION" ELSE "NORMAL"
    /\ UNCHANGED <<enabled, listened, stamp, injected, activating, flushes, bufferVars, readerVars>>

\* injectSensorData and injectEvent; pushEvent on the other buffer, whose overflow is
\* left out.
InjectEvent ==
    /\ SomeIdle
    /\ mode = "DATA_INJECTION"
    /\ enabled
    /\ injected' = TRUE
    /\ UNCHANGED <<enabled, listened, mode, stamp, activating, flushes, bufferVars, readerVars>>

(***************************************************************************)
(* The poll thread.                                                        *)
(***************************************************************************)
Reader(from, to) == rpc = from /\ rpc' = to

\* The device delivers; due: the ticks of the sensor have come up.
Read(due) ==
    /\ \/ due /\ (enabled \/ listened) /\ Reader("read", "check") /\ sample' \in Stamps
       \/ ~(due /\ (enabled \/ listened)) /\ Reader("read", "test") /\ UNCHANGED sample
    /\ UNCHANGED <<enabled, listened, mode, stamp, injected, activating, flushes, bufferVars, out,
                   posted, last>>

\* The timestamp is not looked at.
CheckBug ==
    /\ Reader("check", "store")
    /\ UNCHANGED <<enabled, listened, mode, stamp, injected, activating, flushes, bufferVars,
                   sample, out, posted, last>>

\* A sample that is too old ends the turn of the sensor.
CheckReturnsBug ==
    /\ Reader("check", IF sample < stamp THEN "test" ELSE "store")
    /\ sample' = IF sample < stamp THEN 0 ELSE sample
    /\ UNCHANGED <<enabled, listened, mode, stamp, injected, activating, flushes, bufferVars, out,
                   posted, last>>

\* transformData: a sample that is older than mTimestamp is dropped; the buffer is
\* drained all the same.
Check ==
    /\ Reader("check", IF sample < stamp THEN "push" ELSE "store")
    /\ sample' = IF sample < stamp THEN 0 ELSE sample
    /\ UNCHANGED <<enabled, listened, mode, stamp, injected, activating, flushes, bufferVars, out,
                   posted, last>>

Store ==
    /\ Reader("store", "push")
    /\ stamp' = sample
    /\ last' = sample
    /\ sample' = 0
    /\ left' = [left EXCEPT !["reader"] = 1]
    /\ UNCHANGED <<enabled, listened, mode, injected, activating, flushes, queue, inside, lost, late,
                   out, posted>>

\* getReadyEvents: the buffer of the current mode is emptied into outEvents.
Drain ==
    /\ left["reader"] = 0
    /\ Reader("push", "test")
    /\ \/ mode = "NORMAL" /\ queue' = <<>> /\ out' = out + FlushEvents(queue) /\ UNCHANGED injected
       \/ mode = "DATA_INJECTION" /\ injected' = FALSE /\ UNCHANGED <<queue, out>>
    /\ UNCHANGED <<enabled, listened, mode, stamp, activating, flushes, left, inside, lost, late,
                   sample, posted, last>>

\* outEvents is cleared in either case.
PostBug ==
    /\ Reader("test", "read")
    /\ out' = 0
    /\ posted' = IF enabled THEN posted + out ELSE posted
    /\ UNCHANGED <<enabled, listened, mode, stamp, injected, activating, flushes, bufferVars, sample,
                   last>>

\* The events of a sensor that is not active are kept in outEvents; those of an active
\* one are gone, also when the event queue has no room for them.
Post ==
    /\ Reader("test", "read")
    /\ \/ enabled /\ posted' = posted + out /\ out' = 0 /\ UNCHANGED lost
       \/ enabled /\ lost' = lost + out /\ out' = 0 /\ UNCHANGED posted
       \/ ~enabled /\ UNCHANGED <<out, posted, lost>>
    /\ UNCHANGED <<enabled, listened, mode, stamp, injected, activating, flushes, queue, left, inside,
                   late, sample, last>>

ReaderSteps == Check \/ Store \/ Drain \/ Post

Next == \/ Pushes \/ Listen \/ SetOperationMode \/ InjectEvent
        \/ \E b \in Binders : \/ \E e \in BOOLEAN : ActivateStores(b, e)
                              \/ ActivateRest(b) \/ Flush(b)
        \/ \E due \in BOOLEAN : Read(due)
        \/ ReaderSteps

Spec == Init /\ [][Next]_vars

\* Threads run on.  While the sensor is enabled its device delivers, and it is due
\* again and again (Sensors!SampledAtItsRate).
FairSpec ==
    /\ Spec
    /\ WF_vars(ReaderSteps) /\ \A b \in Binders : WF_vars(ActivateRest(b))
    /\ \A p \in Threads : WF_vars(PushTests(p) \/ PushAppends(p))
    /\ WF_vars(enabled /\ \E due \in BOOLEAN : Read(due))
    /\ SF_vars(enabled /\ Read(TRUE))

(***************************************************************************)
(* Properties.                                                             *)
(***************************************************************************)
\* The variables keep their ranges; the event buffer its bound.
TypeOK ==
    /\ enabled \in BOOLEAN /\ listened \in BOOLEAN
    /\ mode \in {"NORMAL", "DATA_INJECTION"}
    /\ stamp \in Nat /\ sample \in Nat /\ last \in Nat
    /\ queue \in Seq({"flush", "other"}) /\ Len(queue) <= MaxSize
    /\ injected \in BOOLEAN
    /\ left \in [Threads -> Nat] /\ inside \in [Threads -> BOOLEAN]
    /\ activating \in [Binders -> {"none", "test", "empty", "stamp"}]
    /\ rpc \in {"read", "check", "store", "push", "test"}
    /\ out \in Nat /\ flushes \in Nat /\ posted \in Nat
    /\ lost \in Nat /\ late \in Nat

\* The flush events on their way.
Held ==
    out + FlushEvents(queue) + (One(EventOf("binder1") = "flush") + One(EventOf("binder2") = "flush"))

\* However calls, pushes and the poll thread interleave, a flush is reported complete
\* exactly once, unless its event is dropped, and that once: by a full buffer, by a
\* sensor that is disabled while it is pushed, by an activate(false) that empties the
\* buffers because another activate has met it, or by a full event queue.
FlushesKept == posted + Held + lost = flushes

\* pushEvent tests mIsEnabled before it takes the lock: a sensor that has been
\* disabled still gets one event of each thread that was between the two, and no more.
LateOnlyInHand ==
    ~enabled => late + Cardinality({p \in Threads : inside[p]}) <= 2

\* The timestamps that are accepted between two activations do not go back by as
\* much as mTimestamp can tell, though activate stores the time while the poll
\* thread is between its test and its own store.
TimestampsInOrder == [][rpc = "store" /\ rpc' = "push" => sample >= last]_vars

\* Every flush of a sensor that stays enabled in normal mode is reported complete, or
\* dropped as above, once the sensor is due, even when the samples that come are too
\* old.
FlushAnswered ==
    flushes > posted + lost /\ enabled /\ mode = "NORMAL"
      ~> flushes = posted + lost \/ ~enabled \/ mode # "NORMAL"

=============================================================================
