--------------------------- MODULE VirtualSensor ---------------------------
(***************************************************************************)
(* A virtual sensor (sensors/VirtualSensor) and its poll thread            *)
(* (Sensors::pollVirtualDeviceGroupBuffer): flush, activate and injected   *)
(* events are left in flags and a queue for the poll thread, which a       *)
(* condition variable wakes.  Nobody's mutex goes with that condition:     *)
(* the poll thread waits with a mutex of its own and without a predicate,  *)
(* so a notification that comes while it is busy is lost.                  *)
(*                                                                         *)
(* In normal mode it computes its events from the lists of FusionSensor,   *)
(* which the threads of the hardware groups fill.                          *)
(***************************************************************************)
EXTENDS FusionSensor

CONSTANTS
    MaxFlushes,     \* bound: calls of flush
    MaxActivates,   \* bound: calls of activate, whoever's
    InjectMax       \* AtomicBuffer::maxSize

ASSUME VirtualSensorAssumption ==
    MaxFlushes \in Nat /\ MaxActivates \in Nat /\ InjectMax \in Nat \ {0}

VARIABLES
    isEnabled,       \* mIsEnabled
    needFlush,       \* mNeedFlush
    additionalInfo,  \* mAdditionalInfoNeeded
    injected,        \* the size of mInjectEventBuffer
    mode,            \* mMode of Sensors
    ppc,             \* where the poll thread is
    pollMode,        \* the mode it was called with, before it waited
    flushEvent,      \* it holds a flush event to post
    computing,       \* it has new data to make events of
    lists,           \* the lists of FusionSensor, as mTimestamp sees them
    interpolate,     \* mCurrODR is above the rate of the hardware
    fed,             \* the hardware sensors it uses are enabled, and so is it
    bpc,             \* where the client's call is
    flushes,         \* calls of flush that were answered OK
    flushEvents,     \* flush events posted
    activates        \* calls of activate, whoever's

pollVars == <<ppc, pollMode, flushEvent, flushEvents>>
clientVars == <<bpc, flushes, activates>>
fusionVars == <<computing, lists, interpolate, fed>>
virtualVars == <<isEnabled, needFlush, additionalInfo, injected, mode, pollVars, clientVars, fusionVars>>

\* initialize has activated the sensor and starts the poll thread.  mCurrODR is not
\* initialised, and Sensors::batch sets that of the hardware sensors only.
VirtualInit ==
    /\ isEnabled = TRUE /\ needFlush = FALSE /\ additionalInfo = TRUE
    /\ injected = 0 /\ mode = "NORMAL"
    /\ ppc = "waiting" /\ pollMode = "NORMAL" /\ flushEvent = FALSE
    /\ bpc = "idle"
    /\ flushes = 0 /\ flushEvents = 0 /\ activates = 0
    /\ computing = FALSE /\ lists = NoSamples /\ interpolate \in BOOLEAN /\ fed = TRUE

\* mNotifier.notify_one
Notify == ppc' = IF ppc = "waiting" THEN "woken" ELSE ppc

(***************************************************************************)
(* The calls.                                                              *)
(***************************************************************************)
Call(from, to) == bpc = from /\ bpc' = to

\* flush of an enabled sensor; of another one it answers BAD_VALUE.
Flush ==
    /\ Call("idle", "flush")
    /\ isEnabled
    /\ flushes < MaxFlushes
    /\ flushes' = flushes + 1
    /\ needFlush' = TRUE
    /\ UNCHANGED <<isEnabled, additionalInfo, injected, mode, pollVars, activates, fusionVars>>

\* mAdditionalInfoNeeded, then the notification.
FlushSetsInfo ==
    /\ Call("flush", "notify")
    /\ additionalInfo' = TRUE
    /\ UNCHANGED <<isEnabled, needFlush, injected, mode, pollVars, flushes, activates, fusionVars>>

FlushNotifies ==
    /\ Call("notify", "idle")
    /\ Notify
    /\ UNCHANGED <<isEnabled, needFlush, additionalInfo, injected, mode, pollMode, flushEvent,
                   flushEvents, flushes, activates, fusionVars>>

\* mTimestamp becomes the time of now: what is in the lists is old.  Data interpolated
\* between the last sample and the next may still be to come, and a poll thread that is
\* in process may store its own mTimestamp last.
Stamped(l) == LET size == Len(l["GYR"])
              IN  {Used(l, n) : n \in (IF interpolate THEN size - 1 ELSE size)..size}
                    \cup (IF ppc = "process" THEN {l} ELSE {})

\* activate(true) of a sensor that is not enabled asks for the additional
\* information, and notifies, before the sensor is enabled.  activate(false) disables
\* the hardware sensors too, whoever else uses them.
ActivateVirtual ==
    /\ activates < MaxActivates
    /\ activates' = activates + 1
    /\ \/ Call("idle", "activate") /\ ~isEnabled /\ additionalInfo' = TRUE
          /\ UNCHANGED <<isEnabled, lists, fed>>
       \/ Call("idle", "enable") /\ isEnabled
          /\ UNCHANGED <<isEnabled, additionalInfo, lists, fed>>
       \/ /\ Call("idle", "idle")
          /\ isEnabled' = FALSE
          /\ lists' \in Stamped(lists)
          /\ fed' = FALSE
          /\ UNCHANGED additionalInfo
    /\ UNCHANGED <<needFlush, injected, mode, pollVars, flushes, computing, interpolate>>

ActivateNotifies ==
    /\ Call("activate", "enable")
    /\ Notify
    /\ UNCHANGED <<isEnabled, needFlush, additionalInfo, injected, mode, pollMode, flushEvent,
                   flushEvents, flushes, activates, fusionVars>>

\* FusionSensor::activate empties, without its lock, the lists that nobody has been
\* listening to: those of a sensor that every virtual sensor uses, or its own only.
ActivateEnables ==
    /\ Call("enable", "idle")
    /\ isEnabled' = TRUE
    /\ \E stamped \in Stamped(lists), unheard \in {{}, {"MAG"}, {"ACC", "GYR", "MAG"}} :
          /\ isEnabled => unheard = {}
          /\ lists' = [h \in Sources |-> IF h \in unheard THEN <<>> ELSE stamped[h]]
    /\ fed' = TRUE
    /\ UNCHANGED <<needFlush, additionalInfo, injected, mode, pollVars, flushes, activates,
                   computing, interpolate>>

\* injectSensorData and injectEvent: a full buffer drops its oldest event, and
\* nobody is notified.
InjectEvent ==
    /\ bpc = "idle"
    /\ mode = "DATA_INJECTION"
    /\ injected' = IF injected < InjectMax THEN injected + 1 ELSE injected
    /\ UNCHANGED <<isEnabled, needFlush, additionalInfo, mode, pollVars, clientVars, fusionVars>>

SetOperationMode ==
    /\ bpc = "idle"
    /\ mode' = IF mode = "NORMAL" THEN "DATA_INJECTION" ELSE "NORMAL"
    /\ UNCHANGED <<isEnabled, needFlush, additionalInfo, injected, pollVars, clientVars, fusionVars>>

\* Another virtual sensor, or a client of the hardware sensors, enables or disables them.
OtherActivates ==
    /\ isEnabled
    /\ activates < MaxActivates
    /\ activates' = activates + 1
    /\ fed' = ~fed
    /\ UNCHANGED <<isEnabled, needFlush, additionalInfo, injected, mode, pollVars, bpc, flushes,
                   computing, lists, interpolate>>

\* FusionSensor::pushEvents, on the thread of a hardware group, which may have taken the
\* sample before the sensors were disabled.  One that comes too late ends a time without
\* samples: the sensors were disabled, or gave injected events instead.
HardwareSample(h, sample) ==
    /\ sample = "old" => ~fed \/ mode # "NORMAL"
    /\ lists' = PushEvent(lists, h, sample)
    /\ UNCHANGED <<isEnabled, needFlush, additionalInfo, injected, mode, pollVars, clientVars,
                   computing, interpolate, fed>>

\* Sensors::notifyListeners, on the thread of a hardware group.
NotifyEventsReady ==
    /\ isEnabled
    /\ ppc = "waiting"
    /\ Notify
    /\ UNCHANGED <<isEnabled, needFlush, additionalInfo, injected, mode, pollMode, flushEvent,
                   flushEvents, clientVars, fusionVars>>

(***************************************************************************)
(* The poll thread.                                                        *)
(***************************************************************************)
Poll(from, to) == ppc = from /\ ppc' = to

\* wait may return without a notification.
SpuriousWake ==
    /\ Poll("waiting", "woken")
    /\ UNCHANGED <<isEnabled, needFlush, additionalInfo, injected, mode, pollMode, flushEvent,
                   flushEvents, clientVars, fusionVars>>

TestInfo ==
    /\ Poll("woken", IF additionalInfo THEN "testFlush" ELSE "fetch")
    /\ UNCHANGED <<isEnabled, needFlush, additionalInfo, injected, mode, pollMode, flushEvent,
                   flushEvents, clientVars, fusionVars>>

\* mNeedFlush is left set.
TestFlushBug ==
    /\ Poll("testFlush", "clearInfo")
    /\ flushEvent' = needFlush
    /\ UNCHANGED <<isEnabled, needFlush, additionalInfo, injected, mode, pollMode, flushEvents,
                   clientVars, fusionVars>>

\* mNeedFlush is tested and, if set, cleared; only the client sets it.
TestFlush ==
    /\ Poll("testFlush", "clearInfo")
    /\ needFlush' = FALSE
    /\ flushEvent' = needFlush
    /\ UNCHANGED <<isEnabled, additionalInfo, injected, mode, pollMode, flushEvents, clientVars,
                   fusionVars>>

\* The three additional events are in, and the flag is cleared.
ClearInfo ==
    /\ Poll("clearInfo", "fetch")
    /\ additionalInfo' = FALSE
    /\ UNCHANGED <<isEnabled, needFlush, injected, mode, pollMode, flushEvent, flushEvents,
                   clientVars, fusionVars>>

\* What the lists have for this sensor, with data in between if its rate is higher.
Data == IF interpolate THEN LERP(GetFusionEvents(lists)) ELSE GetFusionEvents(lists)

\* In normal mode the data of the moment, as far as it is new, is for process.
Fetch ==
    /\ Poll("fetch", "process")
    /\ \/ /\ pollMode = "NORMAL"
          /\ computing' = (NewData(Data) # {})
          /\ lists' = Used(lists, Len(Data))
       \/ pollMode = "DATA_INJECTION" /\ UNCHANGED <<computing, lists>>
    /\ UNCHANGED <<isEnabled, needFlush, additionalInfo, injected, mode, pollMode, flushEvent,
                   flushEvents, clientVars, interpolate, fed>>

\* The mode is the one of the first call.
ProcessBug ==
    /\ Poll("process", "waiting")
    /\ injected' = IF pollMode = "DATA_INJECTION" THEN 0 ELSE injected
    /\ flushEvents' = IF flushEvent THEN flushEvents + 1 ELSE flushEvents
    /\ flushEvent' = FALSE /\ computing' = FALSE
    /\ UNCHANGED <<isEnabled, needFlush, additionalInfo, mode, pollMode, clientVars, lists,
                   interpolate, fed>>

\* The rest of getReadyEvents in the mode it was called with, postEvents, which drops
\* all of them if the event queue has no room, and the next call with the mode of now.
Process ==
    /\ Poll("process", "waiting")
    /\ injected' = IF pollMode = "DATA_INJECTION" THEN 0 ELSE injected
    /\ \/ flushEvents' = IF flushEvent THEN flushEvents + 1 ELSE flushEvents
       \/ flushEvents' = flushEvents
    /\ flushEvent' = FALSE /\ computing' = FALSE
    /\ pollMode' = mode
    /\ UNCHANGED <<isEnabled, needFlush, additionalInfo, mode, clientVars, lists, interpolate,
                   fed>>

PollThread == TestInfo \/ TestFlush \/ ClearInfo \/ Fetch \/ Process
CallContinues == FlushSetsInfo \/ FlushNotifies \/ ActivateNotifies \/ ActivateEnables

VirtualNext ==
    \/ Flush \/ ActivateVirtual \/ CallContinues \/ InjectEvent \/ SetOperationMode
    \/ \E h \in Sources : \E sample \in Samples(h) : HardwareSample(h, sample)
    \/ OtherActivates \/ NotifyEventsReady \/ SpuriousWake \/ PollThread

VirtualSpec == VirtualInit /\ [][VirtualNext]_virtualVars

\* Threads run on; while the sensor is enabled so are its group's polls, and while the
\* hardware sensors are too their samples keep coming.
VirtualFairSpec ==
    /\ VirtualSpec
    /\ WF_virtualVars(PollThread) /\ WF_virtualVars(CallContinues) /\ WF_virtualVars(NotifyEventsReady)
    /\ \A h \in Sources : WF_virtualVars(fed /\ HardwareSample(h, "new"))

(***************************************************************************)
(* Properties.                                                             *)
(***************************************************************************)
\* The variables keep their ranges; the buffer of injected events its bound.
VirtualTypeOK ==
    /\ isEnabled \in BOOLEAN /\ needFlush \in BOOLEAN /\ additionalInfo \in BOOLEAN
    /\ injected \in 0..InjectMax
    /\ mode \in {"NORMAL", "DATA_INJECTION"} /\ pollMode \in {"NORMAL", "DATA_INJECTION"}
    /\ ppc \in {"waiting", "woken", "testFlush", "clearInfo", "fetch", "process"}
    /\ flushEvent \in BOOLEAN
    /\ bpc \in {"idle", "flush", "notify", "activate", "enable"}
    /\ flushes \in 0..MaxFlushes /\ flushEvents \in Nat /\ activates \in 0..MaxActivates

\* No flush is reported complete that was not asked for, however flush, activate
\* and the poll thread interleave.
FlushEventsAsked ==
    flushEvents + (IF flushEvent THEN 1 ELSE 0) + (IF needFlush THEN 1 ELSE 0) <= flushes

\* Injected events of an enabled sensor are taken for posting: the next notification
\* makes good for one that was lost, though injectEvent itself does not notify and the
\* poll thread waits with the mode of its last round.
InjectedPosted ==
    injected > 0 /\ isEnabled /\ mode = "DATA_INJECTION"
      ~> injected = 0 \/ ~isEnabled \/ mode = "NORMAL"

\* A virtual sensor that stays enabled in normal mode keeps computing new events, as long
\* as nobody disables the hardware sensors it uses: the samples are paired by their place
\* in lists that are emptied one without the other and never when they are used, some of
\* them come too late, and still the new ones come up.
DataComputed == []<>(computing \/ ~fed \/ mode # "NORMAL")

=============================================================================
