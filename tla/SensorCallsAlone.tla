-------------------------- MODULE SensorCallsAlone --------------------------
(***************************************************************************)
(* The calls of SensorCalls implement the atomic calls of Sensors as long  *)
(* as they come one at a time.  The atomic state is the one between calls. *)
(***************************************************************************)
EXTENDS SensorCalls

VARIABLES
    rest,  \* history: the state when last no thread was in a call
    met    \* history: two calls have met

shown == [enabled |-> enabled, listeners |-> listeners, switch |-> switch,
          odr |-> odr, trigger |-> trigger]

\* Once calls have met, rest says nothing.
Unknown == [enabled |-> <<>>, listeners |-> <<>>, switch |-> <<>>, odr |-> <<>>, trigger |-> <<>>]

Callers == {t \in Threads : InCall(t)}

RestInit == Init /\ rest = shown /\ met = FALSE

RestNext ==
    /\ Next
    /\ met' = (met \/ \E t, u \in Callers' : t # u)
    /\ rest' = IF met' THEN Unknown ELSE IF Callers' = {} THEN shown' ELSE rest

RestSpec == RestInit /\ [][RestNext]_<<vars, rest, met>>

\* The poll threads of Sensors do not move, and initialize is over.
Atomic == INSTANCE Sensors WITH
    enabled <- rest.enabled, listeners <- rest.listeners, switch <- rest.switch,
    odr <- rest.odr, trigger <- rest.trigger,
    ticks <- [h \in Hw |-> 0], waited <- [h \in Hw |-> 0], counted <- {},
    failed <- FALSE, inits <- 1, leftOff <- {},
    TickModulus <- 1, FirstTicks <- {0}, MaxInits <- 1

\* Access by access, over flags, lists, rates and the nested calls of virtual sensors,
\* activate and batch do what their atomic forms do, until two of them meet: so what
\* the other runs and proofs say of Sensors is true of the state between calls.
ImplementsSensors == [][met' \/ Atomic!Next]_(Atomic!vars)

=============================================================================
