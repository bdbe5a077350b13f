---------------------------- MODULE MCSensorPoll ----------------------------
\* A virtual sensor that uses two hardware sensors and one that uses three.
EXTENDS SensorPoll

GravityAndRotation == <<"GRAV", "ROTV">>

=============================================================================
