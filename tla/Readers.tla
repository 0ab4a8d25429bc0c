------------------------------ MODULE Readers ------------------------------
(***************************************************************************)
(* The two programs that read a vehicle, each with its own decoders:       *)
(* the daemon's harvest and the client of the first version.  A process is *)
(* one or the other.                                                       *)
(***************************************************************************)
EXTENDS Harvest, Obd2Client

VARIABLE program

vars == <<hvars, cvars, program>>

\* The one that is not run is left in some state of those it may start in.
Init ==
  /\ HarvestInit /\ ClientInit
  /\ \/ program = "daemon" /\ ecu = (CHOOSE m \in Models : TRUE) /\ matching
     \/ program = "tool" /\ vehicle = (CHOOSE v \in Vehicles : TRUE) /\ clearable

Next ==
  \/ program = "daemon" /\ HarvestNext /\ UNCHANGED <<cvars, program>>
  \/ program = "tool" /\ ClientNext /\ UNCHANGED <<hvars, program>>

Spec == Init /\ [][Next]_vars

\* Type correctness.
TypeOK == HarvestTypeOK /\ ClientTypeOK /\ program \in {"daemon", "tool"}
=============================================================================
