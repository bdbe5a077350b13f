---------------------------- MODULE MCSensorCalls ----------------------------
\* Rates as in MCSensors; calls of each kind on sensors that share a group, and on a
\* virtual sensor that touches both groups.
EXTENDS SensorCallsAlone, TLC

Listed == [ACC |-> {3, 50, 100, 1600}, MAG |-> {3, 25, 100}, GYR |-> {}]
Lowest == [ACC |-> 25, MAG |-> 25, GYR |-> 95]
Highest == [ACC |-> 100, MAG |-> 100, GYR |-> 190]
Defaults == [ACC |-> 25, MAG |-> 25, GYR |-> 95]

Activates == [kind : {"activate"}, of : {"ACC", "MAG"} \cup Virtual, arg : BOOLEAN]
Batches == [kind : {"batch"}, of : {"ACC", "MAG"} \cup Virtual, arg : Periods]
ActivatesOrBatches == {Activates, Batches}

AnyThread == Permutations(Threads)

=============================================================================
