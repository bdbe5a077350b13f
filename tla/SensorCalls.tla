----------------------------- MODULE SensorCalls -----------------------------
(***************************************************************************)
(* activate and batch of the sensors HAL on several binder threads: the    *)
(* service has two (service.cpp), and no call takes a lock.  A step of a   *)
(* call is one load or store: of a flag, a list of listeners or a rate in  *)
(* memory, of a buffer switch or a trigger in sysfs.                       *)
(*                                                                         *)
(* Sensors is what the calls promise when they come one at a time, which   *)
(* SensorCallsAlone shows.  A sysfs file can always be written here; what  *)
(* failures lead to is in Sensors.  activate and batch share no variable,  *)
(* so a mix of calls need not have both.                                   *)
(***************************************************************************)
EXTENDS Naturals, FiniteSets

CONSTANTS
    Threads,     \* the binder threads
    Mixes,       \* sets of calls, [kind, of, arg]: what the clients may be doing
    NoCall,
    Virtual, Sysfs, MinODR, MaxODR, DefaultODR, Periods   \* as in Sensors

VARIABLES
    enabled, listeners, switch, odr, trigger,   \* as in Sensors
    calls,     \* the calls the clients make: one of Mixes
    call,      \* per thread: the call it is in
    at,        \* where it is in it
    local,     \* its local values
    shared,    \* history: the groups which another call of its kind has touched meanwhile
    doubtful   \* history: [kind, group] left by such calls

halVars == <<enabled, listeners, switch, odr, trigger>>
threadVars == <<calls, call, at, local>>
historyVars == <<shared, doubtful>>
vars == <<halVars, threadVars, historyVars>>

\* The groups, the uses of the virtual sensors and the rates are those of Sensors, whose
\* ticks do not come in here: 131072 has room for twice any uint16_t rate.
Sensor == INSTANCE Sensors WITH ticks <- 0, counted <- {}, waited <- 0, failed <- FALSE,
              inits <- 1, leftOff <- {}, TickModulus <- 131072, FirstTicks <- {0}, MaxInits <- 1

Hw == Sensor!Hw
Groups == Sensor!Groups
GroupOf(h) == Sensor!GroupOf(h)

Calls == [kind : {"activate"}, of : Hw \cup Virtual, arg : BOOLEAN]
             \cup [kind : {"batch"}, of : Hw \cup Virtual, arg : Periods]

ASSUME SensorCallsAssumption ==
    /\ Sensor!SensorsAssumption
    /\ Mixes \subseteq SUBSET Calls /\ NoCall \notin Calls

(***************************************************************************)
(* Where a call is: left are the hardware sensors it has to go to, with    *)
(* the one it is at, and looks the sensors of the group it has still to    *)
(* look at, both in the order of First.                                    *)
(***************************************************************************)
Place(s, l, k) == [stage |-> s, left |-> l, looks |-> k]
Out == Place("out", {}, {})
Done == Place("done", {}, {})

First(s) == IF "ACC" \in s THEN "ACC" ELSE IF "MAG" \in s THEN "MAG" ELSE "GYR"

\* The hardware sensors of a call: those of activateGroup, for a virtual sensor.
Parts(x) == IF x \in Hw THEN {x} ELSE Sensor!Uses(x)
Touches(c) == {GroupOf(h) : h \in Parts(c.of)}

\* activate of the hardware sensors l, one after the other.
ActivateFrom(l) == IF l = {} THEN Done ELSE Place("set", l, {})

\* FusionSensor::activate, and then isActiveGroup of the virtual group.
FusionFrom(x, e, l) ==
    IF l = {} THEN Place("ask", Parts(x), {}) ELSE Place(IF e THEN "use" ELSE "listen", l, {})

\* HWBatch of the hardware sensors l, one after the other.
HWBatchFrom(l) == IF l = {} THEN Done ELSE Place("old", l, Sensor!Members(GroupOf(First(l))))

Entry(c) == IF c.kind = "batch" THEN HWBatchFrom(Parts(c.of))
            ELSE IF c.of \in Hw THEN ActivateFrom({c.of})
            ELSE Place("enable", Parts(c.of), {})

(***************************************************************************)
(* The history of calls that meet.                                         *)
(***************************************************************************)
InCall(t) == call[t] # NoCall

\* The groups that both c and the call thread t is in touch.
Common(c, t) == IF InCall(t) /\ call[t].kind = c.kind THEN Touches(c) \cap Touches(call[t]) ELSE {}

Busy(kind, g) == \E t \in Threads : InCall(t) /\ call[t].kind = kind /\ g \in Touches(call[t])

(***************************************************************************)
(* The threads.                                                            *)
(***************************************************************************)
\* value: the argument of the nested calls; seen: what isActiveGroup has found; old
\* and new: what getMaxODRFromGroup has found; wrote: the groups triggered.
Fresh(e) == [value |-> e, seen |-> FALSE, old |-> 0, new |-> 0, wrote |-> {}]

Init ==
    /\ odr = [h \in Hw |-> Sensor!Min(Sensor!Available[h])]
    /\ trigger = [g \in Groups |-> Sensor!GroupMax(odr, g)]
    /\ enabled = [x \in Hw \cup Virtual |-> TRUE]
    /\ listeners = [h \in Hw |-> {v \in Virtual : h \in Sensor!Uses(v)}]
    /\ switch = [g \in Groups |-> TRUE]
    /\ calls \in Mixes
    /\ call = [t \in Threads |-> NoCall]
    /\ at = [t \in Threads |-> Out]
    /\ local = [t \in Threads |-> Fresh(FALSE)]
    /\ shared = [t \in Threads |-> {}]
    /\ doubtful = {}

Begin(t, c) ==
    /\ ~InCall(t)
    /\ call' = [call EXCEPT ![t] = c]
    /\ at' = [at EXCEPT ![t] = Entry(c)]
    /\ local' = [local EXCEPT ![t] = Fresh(c.kind = "activate" /\ c.arg)]
    /\ LET met == [u \in Threads \ {t} |-> Common(c, u)]
           all == UNION {met[u] : u \in DOMAIN met}
       IN  /\ shared' = [u \in Threads |-> IF u = t THEN all ELSE shared[u] \cup met[u]]
           /\ doubtful' = doubtful \cup {[kind |-> c.kind, group |-> g] : g \in all}
    /\ UNCHANGED <<halVars, calls>>

GoTo(t, p) == at' = [at EXCEPT ![t] = p] /\ UNCHANGED <<calls, call, historyVars>>

\* The hardware sensor t is at, and the one it looks at.
Here(t) == First(at[t].left)
Seen(t) == First(at[t].looks)
Rest(t) == at[t].left \ {Here(t)}
Unseen(t) == at[t].looks \ {Seen(t)}

\* VirtualSensor::activate
EnableVirtual(t) ==
    /\ at[t].stage = "enable"
    /\ enabled' = [enabled EXCEPT ![call[t].of] = local[t].value]
    /\ GoTo(t, FusionFrom(call[t].of, local[t].value, at[t].left))
    /\ UNCHANGED <<listeners, switch, odr, trigger, local>>

\* FusionSensor::activate enables what it listens to.
Use(t) ==
    /\ at[t].stage = "use"
    /\ enabled' = [enabled EXCEPT ![Here(t)] = TRUE]
    /\ GoTo(t, Place("listen", at[t].left, {}))
    /\ UNCHANGED <<listeners, switch, odr, trigger, local>>

\* The listener is never removed.
ListenBug(t) ==
    /\ at[t].stage = "listen"
    /\ listeners' = [listeners EXCEPT ![Here(t)] = @ \cup {call[t].of}]
    /\ GoTo(t, FusionFrom(call[t].of, local[t].value, Rest(t)))
    /\ UNCHANGED <<enabled, switch, odr, trigger, local>>

\* addVirtualListener or removeVirtualListener.  The list is a vector without a lock:
\* when another thread is about to change it too, anything may be in it.
Listen(t) ==
    /\ at[t].stage = "listen"
    /\ LET h == Here(t)
           v == call[t].of
           race == \E u \in Threads \ {t} : at[u].stage = "listen" /\ Here(u) = h
           changed == IF local[t].value THEN listeners[h] \cup {v} ELSE listeners[h] \ {v}
       IN  \E handlers \in IF race THEN SUBSET Virtual ELSE {changed} :
               listeners' = [listeners EXCEPT ![h] = handlers]
    /\ GoTo(t, FusionFrom(call[t].of, local[t].value, Rest(t)))
    /\ UNCHANGED <<enabled, switch, odr, trigger, local>>

\* isActiveGroup of a virtual group, which has no listeners.
AskVirtual(t) ==
    /\ at[t].stage = "ask"
    /\ local' = [local EXCEPT ![t].value = enabled[call[t].of]]
    /\ GoTo(t, ActivateFrom(at[t].left))
    /\ UNCHANGED halVars

\* activate of a hardware sensor, which goes on with isActiveGroup.
SetHw(t) ==
    /\ at[t].stage = "set"
    /\ enabled' = [enabled EXCEPT ![Here(t)] = local[t].value]
    /\ GoTo(t, Place("flag", at[t].left, Sensor!Members(GroupOf(Here(t)))))
    /\ UNCHANGED <<listeners, switch, odr, trigger, local>>

\* isActiveGroup returns when it has found a sensor that is active or listened to.
LookAtFlag(t) ==
    /\ at[t].stage = "flag"
    /\ LET active == enabled[Seen(t)]
       IN  /\ local' = [local EXCEPT ![t].seen = active]
           /\ GoTo(t, IF active THEN Place("switch", at[t].left, {})
                                ELSE Place("list", at[t].left, at[t].looks))
    /\ UNCHANGED halVars

LookAtList(t) ==
    /\ at[t].stage = "list"
    /\ LET active == listeners[Seen(t)] # {}
       IN  /\ local' = [local EXCEPT ![t].seen = active]
           /\ GoTo(t, IF active \/ Unseen(t) = {} THEN Place("switch", at[t].left, {})
                                                  ELSE Place("flag", at[t].left, Unseen(t)))
    /\ UNCHANGED halVars

WriteSwitch(t) ==
    /\ at[t].stage = "switch"
    /\ switch' = [switch EXCEPT ![GroupOf(Here(t))] = local[t].seen]
    /\ local' = [local EXCEPT ![t].seen = FALSE]
    /\ GoTo(t, ActivateFrom(Rest(t)))
    /\ UNCHANGED <<enabled, listeners, odr, trigger>>

\* getMaxODRFromGroup
Larger(a, b) == IF b > a THEN b ELSE a

OldRate(t) ==
    /\ at[t].stage = "old"
    /\ local' = [local EXCEPT ![t].old = Larger(@, odr[Seen(t)])]
    /\ GoTo(t, Place(IF Unseen(t) = {} THEN "rate" ELSE "old", at[t].left, Unseen(t)))
    /\ UNCHANGED halVars

StoreRate(t) ==
    /\ at[t].stage = "rate"
    /\ odr' = [odr EXCEPT ![Here(t)] = Sensor!HWRate(Here(t), call[t].arg)]
    /\ GoTo(t, Place("new", at[t].left, Sensor!Members(GroupOf(Here(t)))))
    /\ UNCHANGED <<enabled, listeners, switch, trigger, local>>

NewRate(t) ==
    /\ at[t].stage = "new"
    /\ local' = [local EXCEPT ![t].new = Larger(@, odr[Seen(t)])]
    /\ GoTo(t, Place(IF Unseen(t) = {} THEN "trigger" ELSE "new", at[t].left, Unseen(t)))
    /\ UNCHANGED halVars

\* The trigger only rises.
WriteTriggerBug(t) ==
    /\ at[t].stage = "trigger"
    /\ LET g == GroupOf(Here(t))
           changed == local[t].new > local[t].old
       IN  /\ trigger' = IF changed THEN [trigger EXCEPT ![g] = local[t].new] ELSE trigger
           /\ local' = [local EXCEPT ![t].old = 0, ![t].new = 0,
                                     ![t].wrote = IF changed THEN @ \cup {g} ELSE @]
    /\ GoTo(t, HWBatchFrom(Rest(t)))
    /\ UNCHANGED <<enabled, listeners, switch, odr>>

\* The trigger is written when the rate of the group has changed.
WriteTrigger(t) ==
    /\ at[t].stage = "trigger"
    /\ LET g == GroupOf(Here(t))
           changed == local[t].new # local[t].old
       IN  /\ trigger' = IF changed THEN [trigger EXCEPT ![g] = local[t].new] ELSE trigger
           /\ local' = [local EXCEPT ![t].old = 0, ![t].new = 0,
                                     ![t].wrote = IF changed THEN @ \cup {g} ELSE @]
    /\ GoTo(t, HWBatchFrom(Rest(t)))
    /\ UNCHANGED <<enabled, listeners, switch, odr>>

\* A call that was alone has put right what it has written.
PutRight(t) ==
    LET right == IF call[t].kind = "batch" THEN local[t].wrote ELSE Touches(call[t])
    IN  {[kind |-> call[t].kind, group |-> g] : g \in right \ shared[t]}

Return(t) ==
    /\ at[t].stage = "done"
    /\ call' = [call EXCEPT ![t] = NoCall]
    /\ at' = [at EXCEPT ![t] = Out]
    /\ local' = [local EXCEPT ![t] = Fresh(FALSE)]
    /\ shared' = [shared EXCEPT ![t] = {}]
    /\ doubtful' = doubtful \ PutRight(t)
    /\ UNCHANGED <<halVars, calls>>

Steps(t) ==
    \/ \E c \in calls : Begin(t, c)
    \/ EnableVirtual(t) \/ Use(t) \/ Listen(t) \/ AskVirtual(t)
    \/ SetHw(t) \/ LookAtFlag(t) \/ LookAtList(t) \/ WriteSwitch(t)
    \/ OldRate(t) \/ StoreRate(t) \/ NewRate(t) \/ WriteTrigger(t)
    \/ Return(t)

Next == \E t \in Threads : Steps(t)

Spec == Init /\ [][Next]_vars

(***************************************************************************)
(* Properties.                                                             *)
(***************************************************************************)
IsActiveGroup(g) == \E h \in Hw : GroupOf(h) = g /\ (enabled[h] \/ listeners[h] # {})

Right(kind, g) ==
    IF kind = "activate" THEN switch[g] <=> IsActiveGroup(g) ELSE trigger[g] = Sensor!GroupMax(odr, g)

\* A buffer switch that does not agree with the flags and lists, or a trigger that is not
\* the highest rate, was left by two calls that met in its group.  ("If any sensor in
\* group is active, we can't disable whole group", says Sensors::activate: two calls
\* can.)  Whatever the race has done, the next activate that is alone puts the switch
\* right, and the next batch that changes the highest rate the trigger; calls in the
\* other group do no harm.
CallsPutRight ==
    \A kind \in {"activate", "batch"}, g \in Groups :
        Right(kind, g) \/ Busy(kind, g) \/ [kind |-> kind, group |-> g] \in doubtful

=============================================================================
