----------------------------- MODULE SensorPoll -----------------------------
(***************************************************************************)
(* The poll threads of the two hardware devices                            *)
(* (Sensors::pollIIODeviceGroupBuffer).  From each buffer that is read, a  *)
(* thread takes the samples of its sensors one after the other, hands them *)
(* to FusionSensor, sets the ready flag of the sensor, and notifies the    *)
(* virtual sensors (notifyListeners) for which every flag is set.  The     *)
(* flags belong to both threads: they are tested one by one, and reset for *)
(* every mode once any virtual sensor has been notified.                   *)
(*                                                                         *)
(* What a sample goes through inside a sensor is IIOSensor; which sensors  *)
(* are due is Sensors; calls of the client are atomic.                     *)
(***************************************************************************)
EXTENDS Naturals, Sequences, SequencesExt

CONSTANTS
    VirtualGroups,   \* the virtual groups of sensorGroupDescriptors, in their order
    Toggled,         \* the sensors a client disables and enables
    MaxReadRetries,  \* maxReadRetries (5)
    MaxDeactivates   \* bound: calls of activate(false)

Hw == {"ACC", "MAG", "GYR"}
Virtual == ToSet(VirtualGroups)
ModeOf(v) == IF v \in {"ROTV", "ORIENT"} THEN "9AXIS" ELSE "NOMAG"

ASSUME SensorPollAssumption ==
    /\ VirtualGroups \in Seq({"GRAV", "ROTV", "GEOMAG", "LINACC", "GAME", "ORIENT"})
    /\ Toggled \subseteq Hw \cup Virtual
    /\ MaxReadRetries \in Nat /\ MaxDeactivates \in Nat

\* The sensors of a device in the order of sensorHandles.
Order == [AccMagn |-> <<"ACC", "MAG">>, Gyro |-> <<"GYR">>]
Threads == DOMAIN Order

\* The mode of a hardware group is not given, and therefore the first one.
ModesOfGroups == <<"9AXIS", "9AXIS">> \o [i \in DOMAIN VirtualGroups |-> ModeOf(VirtualGroups[i])]

Uses(v) == IF ModeOf(v) = "9AXIS" THEN Hw ELSE {"ACC", "GYR"}

VARIABLES
    enabled,      \* the hardware sensors with mIsEnabled
    virtuals,     \* the virtual sensors that are enabled, and so are listeners
    ready,        \* mAccelEventReady, mMagnEventReady, mGyroEventReady
    terminate,    \* mTerminatePollThreads
    pc,           \* where a thread is
    turn,         \* the sensor of the group it is at
    group,        \* the group notifyListeners is at
    processed,    \* isEventsProcessed
    retries,      \* retryCount
    out,          \* outEvents: per sample, how often it went to FusionSensor, up to 2
    deactivates,  \* calls of activate(false)
    interrupted   \* history: a sensor was disabled since outEvents was cleared

callVars == <<enabled, virtuals, deactivates, interrupted>>
notifyVars == <<group, processed>>
vars == <<callVars, notifyVars, ready, terminate, pc, turn, retries, out>>

\* initialize has enabled every sensor and starts the threads whose device could be
\* opened; the constructor does not set mTerminatePollThreads.
Init ==
    /\ enabled = Hw /\ virtuals = Virtual
    /\ ready = [h \in Hw |-> FALSE]
    /\ terminate \in BOOLEAN
    /\ \E open \in SUBSET Threads : pc = [t \in Threads |-> IF t \in open THEN "loop" ELSE "ended"]
    /\ turn = [t \in Threads |-> 1] /\ group = [t \in Threads |-> 1]
    /\ processed = [t \in Threads |-> FALSE]
    /\ retries = [t \in Threads |-> 0] /\ out = [t \in Threads |-> <<>>]
    /\ deactivates = 0 /\ interrupted = [t \in Threads |-> FALSE]

(***************************************************************************)
(* The calls.                                                              *)
(***************************************************************************)
\* activate of a hardware sensor, or of a virtual one, which passes it on to the
\* hardware sensors it uses.
Touched(x) == IF x \in Hw THEN {x} ELSE Uses(x)

Activate(x) ==
    /\ enabled' = enabled \cup Touched(x)
    /\ virtuals' = IF x \in Hw THEN virtuals ELSE virtuals \cup {x}
    /\ UNCHANGED <<deactivates, interrupted, notifyVars, ready, terminate, pc, turn, retries, out>>

Deactivate(x) ==
    /\ deactivates < MaxDeactivates
    /\ deactivates' = deactivates + 1
    /\ enabled' = enabled \ Touched(x)
    /\ virtuals' = virtuals \ {x}
    /\ interrupted' = [t \in Threads |-> interrupted[t] \/ pc[t] \notin {"loop", "ended"}]
    /\ UNCHANGED <<notifyVars, ready, terminate, pc, turn, retries, out>>

(***************************************************************************)
(* A round of a poll thread.                                               *)
(***************************************************************************)
Goes(t, from, to) == pc[t] = from /\ pc' = [pc EXCEPT ![t] = to]

Current(t) == Order[t][turn[t]]

\* A thread ends by its own count.
TestTerminateBug(t) ==
    /\ Goes(t, "loop", IF terminate /\ retries[t] > MaxReadRetries THEN "ended" ELSE "read")
    /\ UNCHANGED <<callVars, notifyVars, ready, terminate, turn, retries, out>>

TestTerminate(t) ==
    /\ Goes(t, "loop", IF terminate THEN "ended" ELSE "read")
    /\ UNCHANGED <<callVars, notifyVars, ready, terminate, turn, retries, out>>

ReadSucceeds(t) ==
    /\ Goes(t, "read", "sensor")
    /\ turn' = [turn EXCEPT ![t] = 1]
    /\ UNCHANGED <<callVars, notifyVars, ready, terminate, retries, out>>

\* retryCount is never reset, and the flag ends both threads.
ReadFails(t) ==
    /\ Goes(t, "read", "loop")
    /\ retries' = [retries EXCEPT ![t] = @ + 1]
    /\ terminate' = (terminate \/ retries'[t] > MaxReadRetries)
    /\ UNCHANGED <<callVars, notifyVars, ready, turn, out>>

Wanted(h) == h \in enabled \/ \E v \in virtuals : h \in Uses(v)

\* A sensor that is due: its sample is added unless it is disabled, when pushEvent
\* drops it, or too old.
TakeSample(t) ==
    /\ Goes(t, "sensor", "fuse")
    /\ Wanted(Current(t))
    /\ \/ Current(t) \in enabled /\ out' = [out EXCEPT ![t] = Append(@, 0)]
       \/ UNCHANGED out
    /\ UNCHANGED <<callVars, notifyVars, ready, terminate, turn, retries>>

SkipSample(t) ==
    /\ Goes(t, "sensor", "post")
    /\ UNCHANGED <<callVars, notifyVars, ready, terminate, turn, retries, out>>

\* FusionSensor::pushEvents, with everything that is in outEvents; then setReadyFlag,
\* also when there was no sample.
FuseAndFlag(t) ==
    /\ Goes(t, "fuse", "notify")
    /\ out' = [out EXCEPT ![t] = [i \in DOMAIN @ |-> IF @[i] < 2 THEN @[i] + 1 ELSE 2]]
    /\ ready' = [ready EXCEPT ![Current(t)] = TRUE]
    /\ UNCHANGED <<callVars, notifyVars, terminate, turn, retries>>

\* The events go to postEvents once all sensors of the device have had their turn.
PostBug(t) ==
    /\ Goes(t, "post", IF turn[t] < Len(Order[t]) THEN "sensor" ELSE "loop")
    /\ turn' = [turn EXCEPT ![t] = IF @ < Len(Order[t]) THEN @ + 1 ELSE 1]
    /\ IF Current(t) \in enabled /\ turn[t] = Len(Order[t])
       THEN out' = [out EXCEPT ![t] = <<>>] /\ interrupted' = [interrupted EXCEPT ![t] = FALSE]
       ELSE UNCHANGED <<out, interrupted>>
    /\ UNCHANGED <<enabled, virtuals, deactivates, notifyVars, ready, terminate, retries>>

\* If the sensor whose turn it is is active, the events go to postEvents, and are gone
\* from outEvents whether or not the event queue had room for them.
Post(t) ==
    /\ Goes(t, "post", IF turn[t] < Len(Order[t]) THEN "sensor" ELSE "loop")
    /\ turn' = [turn EXCEPT ![t] = IF @ < Len(Order[t]) THEN @ + 1 ELSE 1]
    /\ IF Current(t) \in enabled
       THEN out' = [out EXCEPT ![t] = <<>>] /\ interrupted' = [interrupted EXCEPT ![t] = FALSE]
       ELSE UNCHANGED <<out, interrupted>>
    /\ UNCHANGED <<enabled, virtuals, deactivates, notifyVars, ready, terminate, retries>>

(***************************************************************************)
(* notifyListeners.                                                        *)
(***************************************************************************)
TestAccel(t) ==
    /\ Goes(t, "notify", IF ready["ACC"] THEN "group" ELSE "post")
    /\ UNCHANGED <<callVars, notifyVars, ready, terminate, turn, retries, out>>

\* The flags are reset whether or not anybody was notified.
NextGroupBug(t, from, done) ==
    /\ processed' = [processed EXCEPT ![t] = done]
    /\ IF group[t] < Len(VirtualGroups)
       THEN Goes(t, from, "group") /\ group' = [group EXCEPT ![t] = @ + 1]
       ELSE Goes(t, from, "reset") /\ group' = [group EXCEPT ![t] = 1]

\* On to the next group, or to the end of the loop.
NextGroup(t, from, done) ==
    /\ processed' = [processed EXCEPT ![t] = done]
    /\ IF group[t] < Len(VirtualGroups)
       THEN Goes(t, from, "group") /\ group' = [group EXCEPT ![t] = @ + 1]
       ELSE Goes(t, from, IF done THEN "reset" ELSE "post") /\ group' = [group EXCEPT ![t] = 1]

\* The flags of one virtual group: the magnetometer's if its mode needs it ...
TestMagn(t) ==
    /\ pc[t] = "group"
    /\ IF ModeOf(VirtualGroups[group[t]]) = "9AXIS" /\ ~ready["MAG"]
       THEN NextGroup(t, "group", processed[t])
       ELSE Goes(t, "group", "gyro") /\ UNCHANGED notifyVars
    /\ UNCHANGED <<callVars, ready, terminate, turn, retries, out>>

\* ... and the gyroscope's.  notifyEventsReady: a virtual sensor that is not enabled
\* counts as processed too.
TestGyro(t) ==
    /\ NextGroup(t, "gyro", processed[t] \/ ready["GYR"])
    /\ UNCHANGED <<callVars, ready, terminate, turn, retries, out>>

\* resetReadyFlag
FlagsReset(m) == IF m = "9AXIS" THEN Hw ELSE {"ACC", "GYR"}

\* The loop over all groups; the stores for one of them are one step.
ResetReadyFlag(t) ==
    /\ Goes(t, "reset", IF group[t] < Len(ModesOfGroups) THEN "reset" ELSE "post")
    /\ ready' = [h \in Hw |-> ready[h] /\ h \notin FlagsReset(ModesOfGroups[group[t]])]
    /\ group' = [group EXCEPT ![t] = IF @ < Len(ModesOfGroups) THEN @ + 1 ELSE 1]
    /\ processed' = [processed EXCEPT ![t] = @ /\ group[t] < Len(ModesOfGroups)]
    /\ UNCHANGED <<callVars, terminate, turn, retries, out>>

NotifyListeners(t) ==
    TestAccel(t) \/ TestMagn(t) \/ TestGyro(t) \/ ResetReadyFlag(t)

ThreadSteps(t) ==
    \/ TestTerminate(t) \/ ReadSucceeds(t) \/ ReadFails(t)
    \/ TakeSample(t) \/ SkipSample(t) \/ FuseAndFlag(t) \/ NotifyListeners(t)
    \/ Post(t)

Next == \/ \E x \in Toggled : Activate(x) \/ Deactivate(x)
        \/ \E t \in Threads : ThreadSteps(t)

Spec == Init /\ [][Next]_vars

\* Threads run on, devices deliver again and again, and so every sensor is due again
\* and again (Sensors!SampledAtItsRate).
FairSpec ==
    /\ Spec
    /\ \A t \in Threads : WF_vars(ThreadSteps(t)) /\ SF_vars(ReadSucceeds(t))
    /\ \A t \in Threads : \A i \in DOMAIN Order[t] : SF_vars(turn[t] = i /\ TakeSample(t))

(***************************************************************************)
(* Properties.                                                             *)
(***************************************************************************)
TypeOK ==
    /\ enabled \subseteq Hw /\ virtuals \subseteq Virtual
    /\ ready \in [Hw -> BOOLEAN] /\ terminate \in BOOLEAN
    /\ \A t \in Threads :
          /\ turn[t] \in DOMAIN Order[t]
          /\ group[t] \in 1..Len(ModesOfGroups)
          /\ retries[t] \in 0..(MaxReadRetries + 1)
          /\ out[t] \in Seq(0..2)
    /\ deactivates \in 0..MaxDeactivates

\* Each sample goes to FusionSensor once and leaves outEvents in the same turn, posted
\* or dropped by a full event queue, unless a sensor was disabled on the way: then it
\* waits in outEvents, and is fused again with every sample that comes meanwhile.
FusedOnce ==
    \A t \in Threads : ~interrupted[t] =>
        /\ \A i \in DOMAIN out[t] : out[t][i] <= 1
        /\ pc[t] \in {"loop", "read", "sensor"} => out[t] = <<>>

\* As long as accelerometer and gyroscope are read, virtual sensors are notified
\* again and again: a flag that one thread resets while the other has just set it
\* may cost a notification, but never all of them.
Running == enabled = Hw /\ ~terminate /\ \A t \in Threads : pc[t] # "ended"
SomebodyNotified == []<>(~Running \/ \E t \in Threads : processed[t])

\* A flag that ends one thread ends both.
BothEnd == terminate ~> \A t \in Threads : pc[t] = "ended"

=============================================================================
