--------------------------- MODULE MCJ2534Channel ---------------------------
(* Instances of J2534Channel for TLC: the requests of the harvest that can be *)
(* taken for one another, by service or by parameter.                      *)
EXTENDS J2534Channel, TLC

Support == [sid |-> 1, pid |-> 0]   \* 01 00, the support map
Status  == [sid |-> 1, pid |-> 1]   \* 01 01, MIL and DTC count
Vin     == [sid |-> 9, pid |-> 2]   \* 09 02, the VIN

HarvestRequests == {Support, Status, Vin}
TwoRequests     == {Support, Status}

\* No action tells one ECU from another.
Symmetry == Permutations(ECUs)

=============================================================================
