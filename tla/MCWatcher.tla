------------------------------ MODULE MCWatcher ------------------------------
(* Instances of Watcher for TLC: the readings that pin 16 can give.        *)
EXTENDS Watcher

Unplugged == 200     \* the cable hangs free
Cranking  == 8000    \* between the thresholds: hysteresis
Battery   == 12600   \* a vehicle at rest

AllReadings   == {Unplugged, Cranking, Battery}
PlainReadings == {Unplugged, Battery}

=============================================================================
