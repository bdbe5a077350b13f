---------------------------- MODULE FusionSensor ----------------------------
(***************************************************************************)
(* FusionSensor (sensors/FusionSensor) as operators on its lists: the last *)
(* samples of accelerometer, gyroscope and magnetometer, from which every  *)
(* virtual sensor takes data by place, and which nobody empties when they  *)
(* are used.  A sample is "new" to a virtual sensor while process would    *)
(* make an event of it, or of data interpolated from it, and "old" from    *)
(* then on.  It is old as it comes if that is more than a second after the *)
(* mTimestamp of that sensor: process then makes no event of it, but goes  *)
(* on from there.  Samples are far enough apart for the float dt to tell   *)
(* them apart.                                                             *)
(***************************************************************************)
EXTENDS Integers, Sequences, FiniteSetsExt

CONSTANTS
    Mode,           \* mFusionMode; no sensor has the third one, FUSION_NOGYRO
    MaxFusionData   \* mMaxFusionData (20)

ASSUME FusionSensorAssumption ==
    Mode \in {"9AXIS", "NOMAG"} /\ MaxFusionData \in Nat \ {0}

\* The sensors whose samples make up one FusionData.
Sources == {"ACC", "GYR"} \cup (IF Mode = "9AXIS" THEN {"MAG"} ELSE {})

\* process goes by the timestamp of the gyroscope only.
Samples(h) == IF h = "GYR" THEN {"new", "old"} ELSE {"new"}

NoSamples == [h \in Sources |-> <<>>]

\* A full list takes no more.
PushEventBug(lists, h, sample) ==
    [lists EXCEPT ![h] = IF Len(@) >= MaxFusionData THEN @ ELSE Append(@, sample)]

\* pushEvents, one sample: a full list drops its oldest.
PushEvent(lists, h, sample) ==
    [lists EXCEPT ![h] = Append(IF Len(@) >= MaxFusionData THEN Tail(@) ELSE @, sample)]

\* getFusionEvents: as many as the shortest list has, the first with the first.
GetFusionEvents(lists) ==
    [i \in 1..Min({Len(lists[h]) : h \in Sources}) |-> [h \in Sources |-> lists[h][i]]]

\* VirtualSensor::LERP puts interpolated data behind each but the last, which is left
\* out; the interpolated ones, used together with what they follow, are not listed.
LERP(data) == IF data = <<>> THEN data ELSE SubSeq(data, 1, Len(data) - 1)

\* What process makes events of.
NewData(data) == {i \in DOMAIN data : data[i]["GYR"] = "new"}

\* What is used up, and what is older, is old.
Used(lists, n) == [lists EXCEPT !["GYR"] = [i \in DOMAIN @ |-> IF i <= n THEN "old" ELSE @[i]]]

=============================================================================
