------------------------------ MODULE Sensors ------------------------------
(***************************************************************************)
(* The sensors HAL (sensors/Sensors): which sensors are enabled, which     *)
(* hardware buffers are switched on and at which rate they are triggered.  *)
(* Accelerometer and magnetometer share a device (one buffer switch, one   *)
(* trigger), the gyroscope has its own, and each virtual sensor is computed*)
(* from two or three of them (FusionSensor), whose listener it is.         *)
(*                                                                         *)
(* The poll threads of the two devices take from each buffer they read the *)
(* samples of the sensors that are due: each sensor counts ticks, and is   *)
(* due when they reach the rate of the trigger.                            *)
(*                                                                         *)
(* The calls are atomic: the sensor service makes one at a time.  So is the*)
(* reading of a buffer.                                                    *)
(***************************************************************************)
EXTENDS Integers, FiniteSets, FiniteSetsExt

CONSTANTS
    Virtual,     \* the virtual sensors: a subset of "GRAV", ..., "ORIENT"
    Sysfs,       \* per hardware sensor: the rates its driver lists, if it can be read
    MinODR,      \* per hardware sensor: minODR of its descriptor ...
    MaxODR,      \* ... maxODR ...
    DefaultODR,  \* ... and defaultODR
    Periods,     \* the sampling periods a client asks for, in nanoseconds
    TickModulus, \* the values of a uint32_t
    FirstTicks,  \* what mTicks, which nothing initialises, may hold at first
    MaxInits     \* bound: calls of initialize

Hw == {"ACC", "MAG", "GYR"}
Groups == {"AccMagn", "Gyro"}

\* Rates are of a uint16_t, and ticks have room for two of them.
ASSUME SensorsAssumption ==
    /\ Virtual \subseteq {"GRAV", "ROTV", "GEOMAG", "LINACC", "GAME", "ORIENT"}
    /\ \A h \in Hw : /\ Sysfs[h] \subseteq Nat \ {0} /\ IsFiniteSet(Sysfs[h])
                     /\ {MinODR[h], MaxODR[h], DefaultODR[h]} \subseteq Nat \ {0}
                     /\ 2 * MaxODR[h] <= TickModulus /\ 2 * DefaultODR[h] <= TickModulus
    /\ Periods \subseteq {0} \cup {p \in Nat : p > 15258}
    /\ TickModulus \in Nat \ {0} /\ FirstTicks \subseteq 0..(TickModulus - 1)
    /\ MaxInits \in Nat

VARIABLES
    enabled,     \* mIsEnabled
    listeners,   \* per hardware sensor: mListenerHandlers
    switch,      \* per group: what was last written to buffer/enable
    odr,         \* per hardware sensor: mCurrODR
    trigger,     \* per group: what was last written to sampling_frequency
    ticks,       \* per hardware sensor: mTicks
    failed,      \* some write, or the event flag, has failed
    inits,       \* calls of initialize
    leftOff,     \* history: groups initialize has found off, not activated since
    counted,     \* history: the sensors that have been due, which sets mTicks
    waited       \* history: buffers read since a sensor was due or a rate was set

rateVars == <<odr, trigger>>
tickVars == <<ticks, counted, waited>>
vars == <<enabled, listeners, switch, rateVars, tickVars, failed, inits, leftOff>>

\* sensorGroupDescriptors: the members of a group, and the mode of a virtual one.
GroupOf(h) == IF h = "GYR" THEN "Gyro" ELSE "AccMagn"
Members(g) == {h \in Hw : GroupOf(h) = g}
Mode(v) == IF v \in {"ROTV", "ORIENT"} THEN "9AXIS" ELSE "NOMAG"

\* The hardware sensors FusionSensor and activateGroup touch for v.
Uses(v) == {"ACC"} \cup (IF Mode(v) # "NOMAG" THEN {"MAG"} ELSE {})
                   \cup (IF Mode(v) # "NOGYRO" THEN {"GYR"} ELSE {})

(***************************************************************************)
(* The rates of a hardware sensor.                                         *)
(***************************************************************************)
\* IIOSensor::getAvailFreqTable, and what the constructor puts in an empty table.
Available ==
    [h \in Hw |-> LET listed == {o \in Sysfs[h] : MinODR[h] <= o /\ o <= MaxODR[h]}
                  IN  IF listed = {} THEN {DefaultODR[h]} ELSE listed]

\* IIOSensor::getClosestOdr: the next rate above, or the highest.
ClosestOdr(h, r) ==
    LET above == {o \in Available[h] : o >= r}
    IN  IF above = {} THEN Max(Available[h]) ELSE Min(above)

(***************************************************************************)
(* activate.  hal is a record of enabled, listeners and switch.            *)
(***************************************************************************)
hal == [enabled |-> enabled, listeners |-> listeners, switch |-> switch]

\* Listeners are not looked at.
IsActiveGroupBug(s, g) == \E h \in Members(g) : s.enabled[h]

IsActiveGroup(s, g) == \E h \in Members(g) : s.enabled[h] \/ s.listeners[h] # {}

\* activate of a hardware sensor: the group's switch follows, if it can be written.
ActivateHw(s, h, e, written) ==
    LET t == [s EXCEPT !.enabled[h] = e]
        g == GroupOf(h)
    IN  IF g \in written THEN [t EXCEPT !.switch[g] = IsActiveGroup(t, g)] ELSE t

\* The virtual sensor stays a listener.
FusionActivateBug(s, v, e) ==
    IF e THEN [s EXCEPT !.enabled = [x \in DOMAIN @ |-> x = v \/ x \in Uses(v) \/ @[x]],
                        !.listeners = [h \in Hw |-> IF h \in Uses(v) THEN @[h] \cup {v} ELSE @[h]]]
    ELSE [s EXCEPT !.enabled[v] = FALSE]

\* VirtualSensor::activate and FusionSensor::activate: a hardware sensor is
\* enabled with the virtual one, and only loses a listener with it.
FusionActivate(s, v, e) ==
    IF e THEN [s EXCEPT !.enabled = [x \in DOMAIN @ |-> x = v \/ x \in Uses(v) \/ @[x]],
                        !.listeners = [h \in Hw |-> IF h \in Uses(v) THEN @[h] \cup {v} ELSE @[h]]]
    ELSE [s EXCEPT !.enabled[v] = FALSE,
                   !.listeners = [h \in Hw |-> IF h \in Uses(v) THEN @[h] \ {v} ELSE @[h]]]

\* activateGroup of a virtual group calls activate for the hardware sensors with
\* the same value, whoever else has activated them.
ActivateVirtual(s, v, e, written) ==
    LET f == FusionActivate(s, v, e)
        a == ActivateHw(f, "ACC", e, written)
        m == IF "MAG" \in Uses(v) THEN ActivateHw(a, "MAG", e, written) ELSE a
    IN  IF "GYR" \in Uses(v) THEN ActivateHw(m, "GYR", e, written) ELSE m

Becomes(s) == enabled' = s.enabled /\ listeners' = s.listeners /\ switch' = s.switch

\* The groups whose switch activate writes.
Reached(x) == {GroupOf(h) : h \in IF x \in Hw THEN {x} ELSE Uses(x)}

\* written: the groups whose switch can be written during the call.
Activate(x, e) ==
    /\ \E written \in SUBSET Groups :
          /\ Becomes(IF x \in Hw THEN ActivateHw(hal, x, e, written)
                                 ELSE ActivateVirtual(hal, x, e, written))
          /\ failed' = (failed \/ written # Groups)
    /\ leftOff' = leftOff \ Reached(x)
    /\ UNCHANGED <<rateVars, tickVars, inits>>

\* initialize enables every sensor and writes no switch; it stops half way when
\* the event flag cannot be made, with every sensor disabled.
Initialize ==
    /\ inits < MaxInits
    /\ inits' = inits + 1
    /\ \E ok \in BOOLEAN :
          /\ enabled' = [x \in Hw \cup Virtual |-> ok]
          /\ listeners' = [h \in Hw |-> IF ok THEN {v \in Virtual : h \in Uses(v)} ELSE {}]
          /\ failed' = (failed \/ ~ok)
    /\ leftOff' = {g \in Groups : ~switch[g]}
    /\ UNCHANGED <<switch, rateVars, tickVars>>

(***************************************************************************)
(* batch.  b is a record of odr and trigger.                               *)
(***************************************************************************)
\* The rate for a period, as a uint16_t.  That of a period of less than 15259 ns is
\* not defined; the framework asks for none below minDelay.
SamplingPeriodNsToODR(p) == IF p = 0 THEN 65535 ELSE 1000000000 \div p

GroupMax(o, g) == Max({o[h] : h \in Members(g)})

\* IIOSensor::batch.  A rate the sensor has is its own closest.
HWRate(h, p) == ClosestOdr(h, SamplingPeriodNsToODR(p))

\* The trigger follows the sensor and not its group.
HWBatchBug(b, h, p, written) ==
    LET o == [b.odr EXCEPT ![h] = HWRate(h, p)]
        g == GroupOf(h)
    IN  [odr |-> o,
         trigger |-> IF o[h] # b.odr[h] /\ g \in written
                     THEN [b.trigger EXCEPT ![g] = o[h]] ELSE b.trigger]

\* HWBatch: the trigger is written when the highest rate of the group changes.
HWBatch(b, h, p, written) ==
    LET o == [b.odr EXCEPT ![h] = HWRate(h, p)]
        g == GroupOf(h)
    IN  [odr |-> o,
         trigger |-> IF GroupMax(o, g) # GroupMax(b.odr, g) /\ g \in written
                     THEN [b.trigger EXCEPT ![g] = GroupMax(o, g)] ELSE b.trigger]

\* virtualBatch: the hardware sensors get the rate of the virtual one.
VirtualBatch(b, v, p, written) ==
    LET a == HWBatch(b, "ACC", p, written)
        m == IF "MAG" \in Uses(v) THEN HWBatch(a, "MAG", p, written) ELSE a
    IN  IF "GYR" \in Uses(v) THEN HWBatch(m, "GYR", p, written) ELSE m

Batch(x, p) ==
    /\ \E written \in SUBSET Groups :
          LET b == [odr |-> odr, trigger |-> trigger]
              c == IF x \in Hw THEN HWBatch(b, x, p, written) ELSE VirtualBatch(b, x, p, written)
          IN  /\ odr' = c.odr /\ trigger' = c.trigger
              /\ failed' = (failed \/ written # Groups)
    /\ waited' = [h \in Hw |-> 0]
    /\ UNCHANGED <<enabled, listeners, switch, ticks, counted, inits, leftOff>>

(***************************************************************************)
(* The poll threads.                                                       *)
(***************************************************************************)
\* A sensor at the rate of the trigger is never due.
IsDueBug(h) == (ticks[h] + odr[h]) % TickModulus > GroupMax(odr, GroupOf(h))

\* addTicks, and the test against the highest rate of the group.
IsDue(h) == (ticks[h] + odr[h]) % TickModulus >= GroupMax(odr, GroupOf(h))

\* pollIIODeviceGroupBuffer counts the ticks of every sensor of the group, also of
\* those that are disabled.
ReadBuffer(g) ==
    /\ inits > 0
    /\ switch[g]
    /\ LET due == {h \in Members(g) : IsDue(h)}
       IN  /\ ticks' = [h \in Hw |-> IF h \in due THEN 0
                                     ELSE IF h \in Members(g) THEN (ticks[h] + odr[h]) % TickModulus
                                     ELSE ticks[h]]
           /\ counted' = counted \cup due
           /\ waited' = [h \in Hw |-> IF h \in due THEN 0
                                      ELSE IF h \in Members(g) \cap counted THEN waited[h] + 1
                                      ELSE waited[h]]
    /\ UNCHANGED <<enabled, listeners, switch, rateVars, failed, inits, leftOff>>

(***************************************************************************)
(* The constructor: IIOSensor takes the lowest rate; activateAllGroups     *)
(* enables what the virtual groups use and switches on and triggers every  *)
(* group.                                                                  *)
(***************************************************************************)
Init ==
    /\ odr = [h \in Hw |-> Min(Available[h])]
    /\ trigger = [g \in Groups |-> GroupMax(odr, g)]
    /\ enabled = [x \in Hw \cup Virtual |-> \E v \in Virtual : x \in Uses(v)]
    /\ listeners = [h \in Hw |-> {}]
    /\ switch = [g \in Groups |-> TRUE]
    /\ ticks \in [Hw -> FirstTicks]
    /\ failed = FALSE
    /\ inits = 0 /\ leftOff = {}
    /\ counted = {} /\ waited = [h \in Hw |-> 0]

\* The framework calls initialize before anything else.
Next == \/ Initialize
        \/ \E g \in Groups : ReadBuffer(g)
        \/ \E x \in Hw \cup Virtual : /\ inits > 0
                                      /\ \/ \E e \in BOOLEAN : Activate(x, e)
                                         \/ \E p \in Periods : Batch(x, p)

Spec == Init /\ [][Next]_vars

(***************************************************************************)
(* Properties.                                                             *)
(***************************************************************************)
\* The variables keep their ranges; a sensor's rate is one it supports.
TypeOK ==
    /\ enabled \in [Hw \cup Virtual -> BOOLEAN]
    /\ listeners \in [Hw -> SUBSET Virtual]
    /\ switch \in [Groups -> BOOLEAN]
    /\ odr \in [Hw -> Nat] /\ \A h \in Hw : odr[h] \in Available[h]
    /\ trigger \in [Groups -> Nat]
    /\ ticks \in [Hw -> 0..(TickModulus - 1)]
    /\ counted \subseteq Hw /\ waited \in [Hw -> Nat]
    /\ failed \in BOOLEAN
    /\ inits \in 0..MaxInits
    /\ leftOff \subseteq Groups

\* FusionSensor's lists agree with the sensors' flags: a hardware sensor's
\* listeners are the enabled virtual sensors that use it, through every
\* activation, initialize and failed write.
ListenersFollow ==
    inits > 0 => \A h \in Hw : listeners[h] = {v \in Virtual : enabled[v] /\ h \in Uses(v)}

\* As long as writes succeed a group's buffer is on exactly when a member of it is
\* enabled or listened to: activate reaches every group it has to.  But a second
\* initialize enables every sensor and writes no switch (the first finds them on), so
\* that a group it finds off stays off, with all its members enabled, until one of
\* them is activated or deactivated.
SwitchFollows ==
    ~failed /\ inits > 0 =>
        /\ inits = 1 => leftOff = {}
        /\ \A g \in Groups :
              switch[g] <=> /\ g \notin leftOff
                            /\ \E h \in Members(g) : enabled[h] \/ listeners[h] # {}

\* As long as writes succeed a device is triggered at the highest rate of its
\* sensors, so that pollIIODeviceGroupBuffer can derive each one's rate; and
\* always at a rate that one of them supports, whatever the client asks for.
TriggerIsMax ==
    \A g \in Groups : /\ ~failed => trigger[g] = GroupMax(odr, g)
                       /\ \E h \in Members(g) : trigger[g] \in Available[h]

\* The buffers between two samples of a sensor take no more time than its rate
\* allows, whatever rate the other sensors of the device ask for, though ticks are
\* left over when a rate changes, and from its first sample on: what mTicks holds at
\* first may delay that one.
SampledAtItsRate == \A h \in Hw : waited[h] * odr[h] < GroupMax(odr, GroupOf(h))

=============================================================================
