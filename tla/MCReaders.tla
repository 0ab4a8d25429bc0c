----------------------------- MODULE MCReaders -----------------------------
\* Groups of three ids, three bits for a byte.
EXTENDS Readers

Test(mid, tid, uasid, value, min, max) ==
  [mid |-> mid, tid |-> tid, uasid |-> uasid, value |-> value, min |-> min, max |-> max]

\* Ids in both groups; a test of each kind: unsigned, signed and passed, signed
\* and failed, of an id that the table does not have.
Engine == [pids |-> {1, 3, 6}, vin |-> TRUE,
           tests |-> <<Test(1, 1, 1, 12, 3, 13), Test(1, 2, 4, 62, 57, 3), Test(5, 1, 4, 5, 57, 3),
                       Test(5, 2, 5, 62, 57, 3)>>]

\* One group only, or none.
Gearbox == [pids |-> {1, 2}, vin |-> FALSE, tests |-> <<Test(1, 1, 1, 2, 3, 13)>>]
Silent  == [pids |-> {}, vin |-> FALSE, tests |-> <<>>]

MCVehicles == {(1 :> Engine @@ 2 :> Gearbox), (1 :> Gearbox @@ 2 :> Engine), (1 :> Engine @@ 2 :> Silent)}
MCModels   == {Engine, Gearbox}
=============================================================================
