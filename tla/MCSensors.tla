------------------------------ MODULE MCSensors ------------------------------
\* Some of the rates of the LSM9DS0, and the limits of sensors_descriptors.  The
\* file of the gyroscope cannot be read.
EXTENDS Sensors

Listed == [ACC |-> {3, 50, 100, 1600}, MAG |-> {3, 25, 100}, GYR |-> {}]
Lowest == [ACC |-> 25, MAG |-> 25, GYR |-> 95]
Highest == [ACC |-> 100, MAG |-> 100, GYR |-> 190]
Defaults == [ACC |-> 25, MAG |-> 25, GYR |-> 95]

=============================================================================
