---------------------------- MODULE WatcherProofs ----------------------------
(***************************************************************************)
(* Theorems about Watcher, for every number of devices, profiles, passes   *)
(* and readings, every debounce, and every set of faults: who holds what,  *)
(* and what the log says.                                                  *)
(*                                                                         *)
(* None of the invariants that the runs check is inductive: that the       *)
(* driver never has two channels open depends on where the thread is and   *)
(* on which exception is unwinding.  Holdings says what the driver and the *)
(* Watcher hold at each control point, Flow which exception may be in      *)
(* flight there and whose handler the thread is in.  TypeOK, Holdings and  *)
(* Flow together are inductive (CoreStep), one step of the proof for each  *)
(* action of Watcher; the theorems about the holdings follow from them.    *)
(*                                                                         *)
(* LogAt says what the last line of the log is at each control point.      *)
(* With the holdings it is inductive, gives LogTellsDriver, and maps every *)
(* step of the daemon to a step or a stutter of EventStream.  Evidence     *)
(* bounds the streaks by the readings there really were.                   *)
(***************************************************************************)
EXTENDS Watcher, TLAPS

\* The points of probe() with a channel the Watcher does not know of yet, and
\* those of harvest() and of the drop, with the Watcher's own channel.
Unowned == {"configure", "confirm", "won"}
Harvest == {"vin", "census", "pids", "mil", "mode06", "volts", "complete"}
Unwinding == {"lost", "disconnect", "close"}
Ended == {"stopped", "exited"}

\* Who holds what, by control point.  The driver's holdings are the Watcher's
\* everywhere but in the probe and while an error that left the probe unwinds.
Holdings ==
  /\ session = handle
  /\ channel # None => open = 1
  /\ open <= 1
  /\ pc = "scan" => session = None
  /\ session = None => open = 0
  /\ pc = "loop" /\ state = "SCANNING" => session = None
  /\ pc = "loop" /\ state # "SCANNING" => session # None
  /\ pc = "loop" /\ state \in {"HOLDING", "INTERROGATING"} => open = 0
  /\ state = "ATTACHED" /\ pc \in {"loop", "drop"} => channel # None
  /\ pc = "connect" => open = 0 /\ session # None
  /\ pc \in Unowned => open = 1 /\ channel = None /\ session # None
  /\ pc \in Harvest \cup {"drop"} => channel # None /\ session # None
  /\ pc = "close" => channel = None
  /\ pc \in Unwinding /\ exc = "DeviceLost" => session # None
  /\ pc \in Ended => session = None

\* The exception in flight, and the state whose handler the thread is in.
Flow ==
  /\ pc \notin Unwinding \cup Ended => exc = "none"
  /\ pc = "lost" => exc = "DeviceLost"
  /\ pc \in {"disconnect", "close"} => stop \/ exc # "none"
  /\ pc \in Ended => (stop \/ exc # "none") /\ exc # "DeviceLost"
  /\ pc = "scan" => state = "SCANNING"
  /\ pc \in Unowned \cup Harvest \cup {"connect"} => state = "INTERROGATING"
  /\ pc = "drop" => state = "ATTACHED"
  /\ pc \in Unwinding /\ open = 1 /\ channel = None
       => state = "INTERROGATING" /\ exc # "none"

Core == TypeOK /\ Holdings /\ Flow

\* Names of tuples, of sets of control points and of ranges.
USE DEF world, driver, owned, streaks, loops, readings, daemon,
        None, Devices, Profiles, Unowned, Harvest, Unwinding, Ended

-----------------------------------------------------------------------------
(* Types.                                                                  *)

\* The values the code gives its counters are in their ranges.
LEMMA Ranges ==
  /\ 1 \in Devices /\ 1 \in Profiles /\ 1 \in 1 .. Passes /\ 1 \in 1 .. MaxQueries
  /\ 0 \in 0 .. Debounce
  /\ \A n \in 0 .. Debounce : Bump(n) \in 0 .. Debounce
BY WatcherAssumption DEF Bump

\* After a failed attempt the loops of probe() are in range, or over.
LEMMA NextAttemptTypes ==
  ASSUME TypeOK, NextAttempt
  PROVE  /\ pass' \in 1 .. Passes /\ step' \in Profiles
         /\ state' \in States /\ pc' \in Points /\ last' \in Log!Events
<1>1. pass \in 1 .. Passes /\ step \in 1 .. NumProfiles
  BY DEF TypeOK
<1>2. pass' \in 1 .. Passes /\ step' \in Profiles
  BY <1>1, Ranges, WatcherAssumption DEF NextAttempt
<1>3. state' \in States /\ pc' \in Points /\ last' \in Log!Events
  BY DEF TypeOK, NextAttempt, Emit, States, Points,
         Log!Events, Log!Unheld, Log!GivesUp, Log!CallsNext
<1> QED BY <1>2, <1>3

\* A reading keeps the history of readings in range.
LEMMA SampleTypes ==
  ASSUME TypeOK, Sample
  PROVE  highs' \in 0 .. Debounce /\ lows' \in 0 .. Debounce
BY Ranges DEF TypeOK, Sample

-----------------------------------------------------------------------------
(* The inductive invariant.                                                *)

\* The daemon starts with nothing held and no exception in flight.
LEMMA CoreInit == Init => Core
<1> SUFFICES ASSUME Init PROVE Core
  OBVIOUS
<1>1. TypeOK
  BY WatcherAssumption, Ranges
     DEF Init, TypeOK, States, Points, Log!Events, Log!Unheld
<1>2. Holdings /\ Flow
  BY DEF Init, Holdings, Flow
<1> QED BY <1>1, <1>2 DEF Core

\* An error that leaves a handler keeps it, whichever driver call raised it:
\* the probe's channel becomes the one nobody but the driver knows of.
LEMMA EscapesCore ==
  ASSUME Core, Escapes(Errors),
         pc \in Unowned \cup Harvest \/ (pc = "loop" /\ state # "SCANNING")
  PROVE  Core'
<1> USE DEF Core, Escapes, Outcome, Caught, OutOfScope
<1>1. TypeOK'
  BY Ranges DEF TypeOK, Points, Errors
<1>2. Holdings'
  BY DEF TypeOK, Holdings
<1>3. Flow'
  BY DEF Holdings, Flow, TypeOK, Errors, States
<1> QED BY <1>1, <1>2, <1>3

\* Every step of the daemon and of the world keeps it.
LEMMA CoreStep == Core /\ [Next]_vars => Core'
<1> SUFFICES ASSUME Core, [Next]_vars PROVE Core'
  OBVIOUS
<1> USE DEF Core, Emit
<1>1. CASE SkipDevice
  <2>1. TypeOK'
    BY <1>1, Ranges, WatcherAssumption DEF SkipDevice, TypeOK, Holdings,
       States, Points
  <2>2. Holdings' /\ Flow'
    BY <1>1 DEF SkipDevice, Scanning, Begin, TypeOK, States, Holdings, Flow
  <2> QED BY <2>1, <2>2
<1>2. CASE OpenDevice
  <2>1. TypeOK'
    BY <1>2, Ranges, WatcherAssumption DEF OpenDevice, TypeOK, Holdings,
       States, Points, Log!Events, Log!Unheld, Log!GivesUp, Log!CallsNext
  <2>2. Holdings' /\ Flow'
    BY <1>2 DEF OpenDevice, Scanning, Begin, TypeOK, States, Holdings, Flow
  <2> QED BY <2>1, <2>2
<1>3. CASE HoldingRead
  <2>1. TypeOK'
    <3>1. present_streak' \in 0 .. Debounce
      BY <1>3, Ranges DEF HoldingRead, PresentStreakAfter, TypeOK
    <3> QED
      BY <1>3, <3>1, SampleTypes DEF HoldingRead, TypeOK, States, Points,
         Log!Events, Log!Unheld, Log!GivesUp, Log!CallsNext
  <2>2. Holdings' /\ Flow'
    BY <1>3 DEF HoldingRead, PresentStreakAfter, Sample, Outcome, Begin,
       TypeOK, States, Holdings, Flow
  <2> QED BY <2>1, <2>2
<1>4. CASE ProbeStart
  <2>1. TypeOK'
    BY <1>4, Ranges, WatcherAssumption DEF ProbeStart, TypeOK, Holdings,
       States, Points, Log!Events, Log!Unheld, Log!GivesUp, Log!CallsNext
  <2>2. Holdings' /\ Flow'
    BY <1>4 DEF ProbeStart, Begin, TypeOK, States, Holdings, Flow
  <2> QED BY <2>1, <2>2
<1>5. CASE ConnectRejected
  <2>1. TypeOK'
    BY <1>5, NextAttemptTypes DEF ConnectRejected, TypeOK
  <2>2. Holdings' /\ Flow'
    BY <1>5 DEF ConnectRejected, NextAttempt, Outcome, TypeOK, States,
       Holdings, Flow
  <2> QED BY <2>1, <2>2
<1>6. CASE Connect
  <2>1. TypeOK'
    BY <1>6, Ranges, WatcherAssumption DEF Connect, TypeOK, Holdings, States,
       Points
  <2>2. Holdings' /\ Flow'
    BY <1>6 DEF Connect, Outcome, TypeOK, States, Holdings, Flow
  <2> QED BY <2>1, <2>2
<1>7. CASE Configure
  <2>1. TypeOK'
    BY <1>7, Ranges, WatcherAssumption DEF Configure, TypeOK, Holdings, States,
       Points
  <2>2. Holdings' /\ Flow'
    BY <1>7 DEF Configure, Outcome, TypeOK, States, Holdings, Flow
  <2> QED BY <2>1, <2>2
<1>8. CASE ProbeWins
  <2>1. TypeOK'
    BY <1>8, Ranges, WatcherAssumption DEF ProbeWins, TypeOK, Holdings, States,
       Points, Log!Events, Log!Unheld, Log!GivesUp, Log!CallsNext
  <2>2. Holdings' /\ Flow'
    BY <1>8 DEF ProbeWins, Answers, Outcome, TypeOK, States, Holdings, Flow
  <2> QED BY <2>1, <2>2
<1>9. CASE ProbeNoReply
  <2>1. TypeOK'
    <3>1. open' \in Nat
      BY <1>9 DEF ProbeNoReply, DriverDisconnect, TypeOK, Holdings
    <3> QED
      BY <1>9, <3>1, NextAttemptTypes DEF ProbeNoReply, DriverDisconnect,
         TypeOK
  <2>2. Holdings' /\ Flow'
    BY <1>9 DEF ProbeNoReply, NextAttempt, DriverDisconnect, Uncaught, Outcome,
       Answers, TypeOK, States, Holdings, Flow
  <2> QED BY <2>1, <2>2
<1>10. CASE ProbeReturns
  <2>1. TypeOK'
    <3>1. last' \in Log!Events
      BY <1>10 DEF ProbeReturns, OutOfScope, TypeOK, Log!Events, Log!Unheld,
         Log!GivesUp, Log!CallsNext
    <3>2. open' \in Nat
      BY <1>10 DEF ProbeReturns, OutOfScope, TypeOK, Holdings
    <3> QED
      BY <1>10, <3>1, <3>2, Ranges, WatcherAssumption DEF ProbeReturns,
         OutOfScope, TypeOK, States, Points
  <2>2. Holdings' /\ Flow'
    BY <1>10 DEF ProbeReturns, OutOfScope, TypeOK, States, Holdings, Flow
  <2> QED BY <2>1, <2>2
<1>11. CASE ReadVin
  <2>1. TypeOK'
    <3>1. last' \in Log!Events
      BY <1>11 DEF ReadVin, TypeOK, Log!Events, Log!Unheld, Log!GivesUp,
         Log!CallsNext
    <3>2. open' \in Nat
      BY <1>11 DEF ReadVin, TypeOK, Holdings
    <3> QED
      BY <1>11, <3>1, <3>2, Ranges, WatcherAssumption DEF ReadVin, TypeOK,
         States, Points
  <2>2. Holdings' /\ Flow'
    BY <1>11 DEF ReadVin, Answers, Outcome, Uncaught, TypeOK, States, Holdings,
       Flow
  <2> QED BY <2>1, <2>2
<1>12. CASE CensusGroup
  <2>1. TypeOK'
    BY <1>12, Ranges, WatcherAssumption DEF CensusGroup, TypeOK, Holdings,
       States, Points
  <2>2. Holdings' /\ Flow'
    BY <1>12 DEF CensusGroup, Answers, Outcome, TypeOK, States, Holdings, Flow
  <2> QED BY <2>1, <2>2
<1>13. CASE CensusDone
  <2>1. TypeOK'
    BY <1>13, Ranges, WatcherAssumption DEF CensusDone, OutOfScope, TypeOK,
       Holdings, States, Points, Log!Events, Log!Unheld, Log!GivesUp,
       Log!CallsNext
  <2>2. Holdings' /\ Flow'
    BY <1>13 DEF CensusDone, OutOfScope, Answers, Outcome, TypeOK, States,
       Holdings, Flow
  <2> QED BY <2>1, <2>2
<1>14. CASE CensusEmpty
  <2>1. TypeOK'
    <3>1. last' \in Log!Events
      BY <1>14 DEF CensusEmpty, OutOfScope, DisconnectChannel,
         DriverDisconnect, TypeOK, Log!Events, Log!Unheld, Log!GivesUp,
         Log!CallsNext
    <3>2. open' \in Nat
      BY <1>14 DEF CensusEmpty, OutOfScope, DisconnectChannel,
         DriverDisconnect, TypeOK, Holdings
    <3> QED
      BY <1>14, <3>1, <3>2, Ranges, WatcherAssumption DEF CensusEmpty,
         OutOfScope, DisconnectChannel, DriverDisconnect, TypeOK, States,
         Points
  <2>2. Holdings' /\ Flow'
    BY <1>14 DEF CensusEmpty, OutOfScope, DisconnectChannel, DriverDisconnect,
       Answers, Outcome, TypeOK, States, Holdings, Flow
  <2> QED BY <2>1, <2>2
<1>15. CASE ReportPids
  <2>1. TypeOK'
    BY <1>15, Ranges, WatcherAssumption DEF ReportPids, TypeOK, Holdings,
       States, Points, Log!Events, Log!Unheld, Log!GivesUp, Log!CallsNext
  <2>2. Holdings' /\ Flow'
    BY <1>15 DEF ReportPids, TypeOK, States, Holdings, Flow
  <2> QED BY <2>1, <2>2
<1>16. CASE ReadMil
  <2>1. TypeOK'
    BY <1>16, Ranges, WatcherAssumption DEF ReadMil, TypeOK, Holdings, States,
       Points, Log!Events, Log!Unheld, Log!GivesUp, Log!CallsNext
  <2>2. Holdings' /\ Flow'
    BY <1>16 DEF ReadMil, Answers, Outcome, Uncaught, TypeOK, States, Holdings,
       Flow
  <2> QED BY <2>1, <2>2
<1>17. CASE Mode06Query
  <2>1. TypeOK'
    BY <1>17, Ranges, WatcherAssumption DEF Mode06Query, TypeOK, Holdings,
       States, Points, Log!Events, Log!Unheld, Log!GivesUp, Log!CallsNext
  <2>2. Holdings' /\ Flow'
    BY <1>17 DEF Mode06Query, Outcome, TypeOK, States, Holdings, Flow
  <2> QED BY <2>1, <2>2
<1>18. CASE Mode06Done
  <2>1. TypeOK'
    BY <1>18, Ranges, WatcherAssumption DEF Mode06Done, OutOfScope, TypeOK,
       Holdings, States, Points, Log!Events, Log!Unheld, Log!GivesUp,
       Log!CallsNext
  <2>2. Holdings' /\ Flow'
    BY <1>18 DEF Mode06Done, OutOfScope, Outcome, TypeOK, States, Holdings,
       Flow
  <2> QED BY <2>1, <2>2
<1>19. CASE FinalVoltage
  <2>1. TypeOK'
    BY <1>19, Ranges, WatcherAssumption DEF FinalVoltage, Sample, TypeOK,
       Holdings, States, Points, Log!Events, Log!Unheld, Log!GivesUp,
       Log!CallsNext
  <2>2. Holdings' /\ Flow'
    BY <1>19 DEF FinalVoltage, Sample, Outcome, TypeOK, States, Holdings, Flow
  <2> QED BY <2>1, <2>2
<1>20. CASE Complete
  <2>1. TypeOK'
    BY <1>20, Ranges, WatcherAssumption DEF Complete, TypeOK, Holdings, States,
       Points, Log!Events, Log!Unheld, Log!GivesUp, Log!CallsNext
  <2>2. Holdings' /\ Flow'
    BY <1>20 DEF Complete, TypeOK, States, Holdings, Flow
  <2> QED BY <2>1, <2>2
<1>21. CASE AttachedRead
  <2>1. TypeOK'
    <3>1. absent_streak' \in 0 .. Debounce
      BY <1>21, Ranges DEF AttachedRead, AbsentStreakAfter, TypeOK
    <3> QED
      BY <1>21, <3>1, SampleTypes DEF AttachedRead, TypeOK, States, Points,
         Log!Events, Log!Unheld, Log!GivesUp, Log!CallsNext
  <2>2. Holdings' /\ Flow'
    BY <1>21 DEF AttachedRead, AbsentStreakAfter, Sample, Outcome, Begin,
       TypeOK, States, Holdings, Flow
  <2> QED BY <2>1, <2>2
<1>22. CASE Drop
  <2>1. TypeOK'
    BY <1>22, Ranges, WatcherAssumption DEF Drop, DisconnectChannel,
       DriverDisconnect, TypeOK, Holdings, States, Points, Log!Events,
       Log!Unheld, Log!GivesUp, Log!CallsNext
  <2>2. Holdings' /\ Flow'
    BY <1>22 DEF Drop, DisconnectChannel, DriverDisconnect, TypeOK, States,
       Holdings, Flow
  <2> QED BY <2>1, <2>2
<1>23. CASE OnDeviceLost
  <2>1. TypeOK'
    BY <1>23, Ranges, WatcherAssumption DEF OnDeviceLost, TypeOK, Holdings,
       States, Points, Log!Events, Log!Unheld, Log!GivesUp, Log!CallsNext
  <2>2. Holdings' /\ Flow'
    BY <1>23 DEF OnDeviceLost, TypeOK, States, Holdings, Flow
  <2> QED BY <2>1, <2>2
<1>24. CASE LeaveLoop
  <2>1. TypeOK'
    BY <1>24, Ranges, WatcherAssumption DEF LeaveLoop, TypeOK, Holdings,
       States, Points
  <2>2. Holdings' /\ Flow'
    BY <1>24 DEF LeaveLoop, TypeOK, States, Holdings, Flow
  <2> QED BY <2>1, <2>2
<1>25. CASE ReleaseChannel
  <2>1. TypeOK'
    <3>2. open' \in Nat
      BY <1>25 DEF ReleaseChannel, DriverDisconnect, TypeOK, Holdings
    <3> QED
      BY <1>25, <3>2, Ranges, WatcherAssumption DEF ReleaseChannel,
         DriverDisconnect, TypeOK, States, Points
  <2>2. Holdings' /\ Flow'
    BY <1>25 DEF ReleaseChannel, DriverDisconnect, TypeOK, States, Holdings,
       Flow
  <2> QED BY <2>1, <2>2
<1>26. CASE ReleaseSession
  <2>1. TypeOK'
    <3>1. last' \in Log!Events
      BY <1>26 DEF ReleaseSession, AfterRelease, CloseSession, DriverClose,
         TypeOK, Log!Events, Log!Unheld, Log!GivesUp, Log!CallsNext
    <3>2. open' \in Nat
      BY <1>26 DEF ReleaseSession, AfterRelease, CloseSession, DriverClose,
         TypeOK, Holdings
    <3> QED
      BY <1>26, <3>1, <3>2, Ranges, WatcherAssumption DEF ReleaseSession,
         AfterRelease, CloseSession, DriverClose, TypeOK, States, Points
  <2>2. Holdings' /\ Flow'
    BY <1>26 DEF ReleaseSession, AfterRelease, Caught, CloseSession,
       DriverClose, TypeOK, States, Holdings, Flow
  <2> QED BY <2>1, <2>2
<1>27. CASE DaemonStop
  <2>1. TypeOK'
    BY <1>27, Ranges, WatcherAssumption DEF DaemonStop, TypeOK, Holdings,
       States, Points, Log!Events, Log!Unheld, Log!GivesUp, Log!CallsNext
  <2>2. Holdings' /\ Flow'
    BY <1>27 DEF DaemonStop, TypeOK, States, Holdings, Flow
  <2> QED BY <2>1, <2>2
<1>28. CASE \/ HoldingRaises \/ ConfigureRaises \/ ProbeRaises \/ VinRaises
            \/ CensusRaises \/ MilRaises \/ Mode06Raises \/ FinalVoltageRaises
            \/ AttachedRaises
  BY <1>28, EscapesCore DEF HoldingRaises, ConfigureRaises, ProbeRaises,
     VinRaises, CensusRaises, MilRaises, Mode06Raises, FinalVoltageRaises,
     AttachedRaises, Begin, Escapes, Errors, Uncaught
<1>29. CASE World
  <2> USE <1>29 DEF World, RequestStop, Unplug, Plug, OtherTakes,
              OtherFrees, DriverTurns, VoltageTurns, BusTurns
  <2>1. TypeOK'
    BY DEF TypeOK
  <2>2. Holdings' /\ Flow'
    BY DEF Holdings, Flow
  <2> QED BY <2>1, <2>2
<1>30. CASE UNCHANGED vars
  BY <1>30 DEF vars, TypeOK, Holdings, Flow
<1> QED
  BY <1>1, <1>2, <1>3, <1>4, <1>5, <1>6, <1>7, <1>8, <1>9, <1>10, <1>11, <1>12,
     <1>13, <1>14, <1>15, <1>16, <1>17, <1>18, <1>19, <1>20, <1>21, <1>22,
     <1>23, <1>24, <1>25, <1>26, <1>27, <1>28, <1>29, <1>30 DEF Next, Thread

\* Closing the device, from wherever in the code, is what ReleaseSession does.
LEMMA OnlyReleaseCloses ==
  ASSUME Core, [Next]_vars, Closing
  PROVE  ReleaseSession
<1> USE DEF Core, Closing
<1>1. CASE OpenDevice
  BY <1>1 DEF OpenDevice, TypeOK
<1>2. CASE \/ SkipDevice \/ HoldingRead \/ ProbeStart \/ ConnectRejected
          \/ Connect \/ Configure \/ ProbeWins \/ ProbeNoReply \/ ProbeReturns
          \/ ReadVin \/ CensusGroup \/ CensusDone \/ CensusEmpty \/ ReportPids
          \/ ReadMil \/ Mode06Query \/ Mode06Done \/ FinalVoltage \/ Complete
          \/ AttachedRead \/ Drop \/ OnDeviceLost \/ LeaveLoop
          \/ ReleaseChannel \/ DaemonStop
  BY <1>2 DEF SkipDevice, HoldingRead, ProbeStart, ConnectRejected,
     NextAttempt, Connect, Configure, ProbeWins, ProbeNoReply,
     DriverDisconnect, ProbeReturns, ReadVin, CensusGroup, CensusDone,
     CensusEmpty, DisconnectChannel, ReportPids, ReadMil, Mode06Query,
     Mode06Done, FinalVoltage, Complete, AttachedRead, Drop, OnDeviceLost,
     LeaveLoop, ReleaseChannel, DaemonStop
<1>3. CASE \/ HoldingRaises \/ ConfigureRaises \/ ProbeRaises \/ VinRaises
          \/ CensusRaises \/ MilRaises \/ Mode06Raises \/ FinalVoltageRaises
          \/ AttachedRaises
  BY <1>3 DEF HoldingRaises, ConfigureRaises, ProbeRaises, VinRaises,
     CensusRaises, MilRaises, Mode06Raises, FinalVoltageRaises, AttachedRaises,
     Escapes
<1>4. CASE World
  BY <1>4 DEF World, RequestStop, Unplug, Plug, OtherTakes, OtherFrees,
     DriverTurns, VoltageTurns, BusTurns
<1>5. CASE UNCHANGED vars
  BY <1>5 DEF vars
<1> QED
  BY <1>1, <1>2, <1>3, <1>4, <1>5 DEF Next, Thread

-----------------------------------------------------------------------------
(* Theorems.                                                               *)

\* Types, holdings and control flow agree in every reachable state.
THEOREM CoreInvariant == Spec => []Core
BY CoreInit, CoreStep, PTL DEF Spec

\* Every variable keeps its type: the probe's loops stay in range and the
\* driver never disconnects a channel it has not connected.
THEOREM TypeCorrect == Spec => []TypeOK
<1>1. Core => TypeOK
  BY DEF Core
<1> QED BY <1>1, CoreInvariant, PTL

\* The driver never has two channels open for the daemon, whatever failed before.
THEOREM OneChannelHolds == Spec => []OneChannel
<1>1. Core => OneChannel
  BY DEF Core, Holdings, OneChannel
<1> QED BY <1>1, CoreInvariant, PTL

\* Between two handlers the state tells what the driver holds.
THEOREM StateTellsDriverHolds == Spec => []StateTellsDriver
<1>1. Core => StateTellsDriver
  BY DEF Core, TypeOK, States, Holdings, StateTellsDriver
<1> QED BY <1>1, CoreInvariant, PTL

\* When run() has ended, stopped or crashed, the driver holds nothing.
THEOREM ExitReleasesHolds == Spec => []ExitReleases
<1>1. Core => ExitReleases
  BY DEF Core, Holdings, ExitReleases
<1> QED BY <1>1, CoreInvariant, PTL

\* No unplugged device, at whichever call it shows, ends the daemon.
THEOREM UnplugNeverExitsHolds == Spec => []UnplugNeverExits
<1>1. Core => UnplugNeverExits
  BY DEF Core, TypeOK, Flow, UnplugNeverExits
<1> QED BY <1>1, CoreInvariant, PTL

\* Outside the probe a device is closed only once its channel is disconnected.
THEOREM SacredOrderOutsideProbeHolds == Spec => SacredOrderOutsideProbe
<1> DEFINE Probing == state = "INTERROGATING" /\ channel = None /\ exc # "none"
<1>1. Core /\ [Next]_vars => [Closing /\ open > 0 => Probing]_vars
  <2> SUFFICES ASSUME Core, [Next]_vars, Closing, open > 0 PROVE Probing
    OBVIOUS
  <2>1. pc = "close"
    BY OnlyReleaseCloses DEF ReleaseSession
  <2> QED BY <2>1 DEF Core, TypeOK, Holdings, Flow
<1> QED BY <1>1, CoreInvariant, PTL DEF Spec, SacredOrderOutsideProbe

-----------------------------------------------------------------------------
(* The contract.                                                           *)

\* The last line of the log, by control point.
LogAt ==
  /\ pc \in {"scan", "stopped"} => last \in Log!Unheld
  /\ pc = "loop" /\ state = "SCANNING" => last \in Log!Unheld
  /\ pc = "loop" /\ state = "HOLDING"
       => last \in {"device_opened", "probe_failed", "channel_closed"}
  /\ pc = "loop" /\ state = "INTERROGATING" => last = "voltage_detected"
  /\ pc = "loop" /\ state = "ATTACHED" => last = "connection_complete"
  /\ pc \in {"connect", "configure", "confirm"} => last = "probe_start"
  /\ pc = "won" => last = "probe_success"
  /\ pc = "vin" => last \in {"probe_success", "rx_clear_unsupported"}
  /\ pc = "census" => last \in Log!Connected
  /\ pc = "pids" => last = "ecu_census"
  /\ pc = "mil" => last = "supported_pids"
  /\ pc = "mode06" => last \in {"supported_pids", "mil_and_dtc", "mode_06_results"}
  /\ pc = "volts" => last = "mode_06_results"
  /\ pc = "complete" => last = "voltage_read"
  /\ pc = "drop" => last = "voltage_dropped"
  /\ pc = "lost" => last \in Log!CallsNext
  /\ pc \in {"disconnect", "close"} /\ session # None => last \in Log!GivesUp
  /\ pc \in {"disconnect", "close"} /\ session = None => last \in Log!Unheld
  /\ pc = "exited" => last = "daemon_stop"
  /\ last = "connection_complete" => channel # None \/ pc = "close"
  /\ last \in {"voltage_detected", "probe_failed", "channel_closed"} => open = 0

\* The streaks never claim more than the readings of the session gave.
Evidence ==
  /\ state \in {"HOLDING", "INTERROGATING"} /\ pc # "complete" => present_streak <= highs
  /\ state = "ATTACHED" => absent_streak <= lows
  /\ last = "voltage_detected" => highs = Debounce
  /\ last = "voltage_dropped" => lows = Debounce

\* A step writes nothing, or a line that may come after the last one.
LineFollows == last' = last \/ Log!MayFollow(last, last')

\* daemon_start is the first line.
LEMMA LogInit == Init => LogAt
BY DEF Init, LogAt, Log!Unheld

\* An error that leaves a handler writes nothing, and device_lost may follow.
LEMMA EscapesLog ==
  ASSUME Core, LogAt, Escapes(Errors),
         \/ pc \in {"configure", "confirm", "vin", "census", "mil", "mode06", "volts"}
         \/ pc = "loop" /\ state \in {"HOLDING", "ATTACHED"}
  PROVE  LogAt' /\ LineFollows
<1>1. LogAt'
  BY DEF Core, Escapes, Outcome, Caught, TypeOK, Holdings, LogAt,
         Log!Connected, Log!Unheld, Log!GivesUp, Log!CallsNext
<1> QED BY <1>1 DEF Escapes, LineFollows

\* The world writes nothing.
LEMMA WorldLog ==
  ASSUME LogAt, World
  PROVE  LogAt' /\ LineFollows
BY DEF LogAt, LineFollows, World, RequestStop, Unplug, Plug, OtherTakes, OtherFrees,
       DriverTurns, VoltageTurns, BusTurns,
       Log!Connected, Log!Unheld, Log!GivesUp, Log!CallsNext

\* Every step of the daemon writes a line its last one allows, or none.
LEMMA LogStep ==
  ASSUME Core, Core', LogAt, [Next]_vars
  PROVE  LogAt' /\ LineFollows
<1> USE DEF Core, TypeOK, States, Holdings, Flow, LogAt, Emit, LineFollows,
            Log!MayFollow, Log!Connected, Log!Unheld, Log!GivesUp, Log!CallsNext
<1>1. CASE SkipDevice
  BY <1>1 DEF SkipDevice, Scanning, Begin
<1>2. CASE OpenDevice
  BY <1>2 DEF OpenDevice, Scanning, Begin
<1>3. CASE HoldingRead
  BY <1>3 DEF HoldingRead, Begin
<1>4. CASE ProbeStart
  BY <1>4 DEF ProbeStart, Begin
<1>5. CASE ConnectRejected
  BY <1>5 DEF ConnectRejected, NextAttempt
<1>6. CASE Connect
  BY <1>6 DEF Connect
<1>7. CASE Configure
  BY <1>7 DEF Configure
<1>8. CASE ProbeWins
  BY <1>8 DEF ProbeWins
<1>9. CASE ProbeNoReply
  BY <1>9 DEF ProbeNoReply, NextAttempt, DriverDisconnect
<1>10. CASE ProbeReturns
  BY <1>10 DEF ProbeReturns
<1>11. CASE ReadVin
  BY <1>11 DEF ReadVin
<1>12. CASE CensusGroup
  BY <1>12 DEF CensusGroup
<1>13. CASE CensusDone
  BY <1>13 DEF CensusDone
<1>14. CASE CensusEmpty
  BY <1>14 DEF CensusEmpty, DisconnectChannel, DriverDisconnect
<1>15. CASE ReportPids
  BY <1>15 DEF ReportPids
<1>16. CASE ReadMil
  BY <1>16 DEF ReadMil
<1>17. CASE Mode06Query
  BY <1>17 DEF Mode06Query
<1>18. CASE Mode06Done
  BY <1>18 DEF Mode06Done
<1>19. CASE FinalVoltage
  BY <1>19 DEF FinalVoltage
<1>20. CASE Complete
  BY <1>20 DEF Complete
<1>21. CASE AttachedRead
  BY <1>21 DEF AttachedRead, Begin
<1>22. CASE Drop
  BY <1>22 DEF Drop, DisconnectChannel, DriverDisconnect
<1>23. CASE OnDeviceLost
  BY <1>23 DEF OnDeviceLost
<1>24. CASE LeaveLoop
  BY <1>24 DEF LeaveLoop
<1>25. CASE ReleaseChannel
  BY <1>25 DEF ReleaseChannel, DriverDisconnect
<1>26. CASE ReleaseSession
  BY <1>26 DEF ReleaseSession, AfterRelease, Caught, CloseSession, DriverClose
<1>27. CASE DaemonStop
  BY <1>27 DEF DaemonStop
<1>28. CASE \/ HoldingRaises \/ ConfigureRaises \/ ProbeRaises \/ VinRaises
            \/ CensusRaises \/ MilRaises \/ Mode06Raises \/ FinalVoltageRaises
            \/ AttachedRaises
  BY <1>28, EscapesLog DEF HoldingRaises, ConfigureRaises, ProbeRaises,
     VinRaises, CensusRaises, MilRaises, Mode06Raises, FinalVoltageRaises,
     AttachedRaises, Begin, Escapes, Errors, Uncaught
<1>29. CASE World
  BY <1>29, WorldLog
<1>30. CASE UNCHANGED vars
  BY <1>30 DEF vars
<1> QED
  BY <1>1, <1>2, <1>3, <1>4, <1>5, <1>6, <1>7, <1>8, <1>9, <1>10, <1>11, <1>12,
     <1>13, <1>14, <1>15, <1>16, <1>17, <1>18, <1>19, <1>20, <1>21, <1>22,
     <1>23, <1>24, <1>25, <1>26, <1>27, <1>28, <1>29, <1>30 DEF Next, Thread

\* The last line and the control point fix what the driver holds.
LEMMA LogAtTells == Core /\ LogAt => LogTellsDriver
BY DEF Core, TypeOK, States, Points, Holdings, Flow, LogAt, LogTellsDriver,
       Log!Unheld, Log!CallsNext, Log!GivesUp, Log!Connected

\* Control point and last line of the log agree in every reachable state.
THEOREM LogInvariant == Spec => [](Core /\ LogAt)
<1>1. Init => Core /\ LogAt
  BY CoreInit, LogInit
<1>2. Core /\ LogAt /\ [Next]_vars => Core' /\ LogAt'
  BY CoreStep, LogStep
<1> QED BY <1>1, <1>2, PTL DEF Spec

\* The log never lies about possession.
THEOREM LogTellsDriverHolds == Spec => []LogTellsDriver
BY LogInvariant, LogAtTells, PTL

\* The daemon implements the contract of its log: initial state to initial
\* state, and every step to a line that may follow or to a stutter.
THEOREM Contract == Spec => FollowsContract
<1>1. Init => Log!Init
  BY DEF Init, Log!Init
<1>2. Core /\ Core' /\ LogAt /\ [Next]_vars => [Log!Next]_last
  <2> SUFFICES ASSUME Core, Core', LogAt, [Next]_vars PROVE [Log!Next]_last
    OBVIOUS
  <2>1. LineFollows
    BY LogStep
  <2>2. last' \in Log!Events
    BY DEF Core, TypeOK, Log!Events, Log!Unheld, Log!GivesUp, Log!CallsNext
  <2> QED BY <2>1, <2>2 DEF LineFollows, Log!Next
<1> QED BY <1>1, <1>2, LogInvariant, PTL DEF Spec, FollowsContract, Log!Spec

-----------------------------------------------------------------------------
(* The evidence of the voltage events.                                     *)

\* A streak that is bounded by another stays so when both grow.
LEMMA Bumps ==
  ASSUME NEW m \in 0 .. Debounce, NEW n \in 0 .. Debounce, m <= n
  PROVE  /\ Bump(m) <= Bump(n)
         /\ Bump(m) >= Debounce => Bump(n) = Debounce
         /\ Bump(n) \in 0 .. Debounce
BY WatcherAssumption DEF Bump

\* Every step keeps the streaks within the evidence.
LEMMA EvidenceStep ==
  ASSUME Core, LogAt, Evidence, [Next]_vars
  PROVE  Evidence'
<1> USE DEF Core, Emit
<1>0. /\ present_streak \in 0 .. Debounce /\ absent_streak \in 0 .. Debounce
      /\ highs \in 0 .. Debounce /\ lows \in 0 .. Debounce
  BY DEF TypeOK
<1>1. CASE OpenDevice
  BY <1>1, <1>0, Bumps, WatcherAssumption DEF OpenDevice, Scanning, Begin,
     Evidence, LogAt, Holdings, Flow, Log!Connected, Log!Unheld, Log!GivesUp,
     Log!CallsNext
<1>2. CASE HoldingRead
  BY <1>2, <1>0, Bumps, WatcherAssumption DEF HoldingRead, PresentStreakAfter,
     Sample, Begin, Evidence, LogAt, Holdings, Flow, Log!Connected, Log!Unheld,
     Log!GivesUp, Log!CallsNext
<1>3. CASE FinalVoltage
  BY <1>3, <1>0, Bumps, WatcherAssumption DEF FinalVoltage, Sample, Evidence,
     LogAt, Holdings, Flow, Log!Connected, Log!Unheld, Log!GivesUp,
     Log!CallsNext
<1>4. CASE Complete
  BY <1>4, <1>0, Bumps, WatcherAssumption DEF Complete, Evidence, LogAt,
     Holdings, Flow, Log!Connected, Log!Unheld, Log!GivesUp, Log!CallsNext
<1>5. CASE AttachedRead
  BY <1>5, <1>0, Bumps, WatcherAssumption DEF AttachedRead, AbsentStreakAfter,
     Sample, Begin, Evidence, LogAt, Holdings, Flow, Log!Connected, Log!Unheld,
     Log!GivesUp, Log!CallsNext
<1>6. CASE Drop
  BY <1>6, <1>0, Bumps, WatcherAssumption DEF Drop, DisconnectChannel,
     DriverDisconnect, Evidence, LogAt, Holdings, Flow, Log!Connected,
     Log!Unheld, Log!GivesUp, Log!CallsNext
<1>7. CASE ReleaseSession
  BY <1>7, <1>0, Bumps, WatcherAssumption DEF ReleaseSession, AfterRelease,
     Caught, CloseSession, DriverClose, Evidence, LogAt, Holdings, Flow,
     Log!Connected, Log!Unheld, Log!GivesUp, Log!CallsNext
<1>8. CASE \/ SkipDevice \/ ProbeStart \/ ConnectRejected \/ Connect
           \/ Configure \/ ProbeWins \/ ProbeNoReply \/ ProbeReturns \/ ReadVin
           \/ CensusGroup \/ CensusDone \/ CensusEmpty \/ ReportPids \/ ReadMil
           \/ Mode06Query \/ Mode06Done \/ OnDeviceLost \/ LeaveLoop
           \/ ReleaseChannel \/ DaemonStop
  BY <1>8, <1>0 DEF SkipDevice, Scanning, Begin, ProbeStart, ConnectRejected,
     NextAttempt, Connect, Configure, ProbeWins, ProbeNoReply,
     DriverDisconnect, ProbeReturns, ReadVin, CensusGroup, CensusDone,
     CensusEmpty, DisconnectChannel, ReportPids, ReadMil, Mode06Query,
     Mode06Done, OnDeviceLost, LeaveLoop, ReleaseChannel, DaemonStop, Evidence,
     LogAt, Flow, Holdings
<1>9. CASE \/ HoldingRaises \/ ConfigureRaises \/ ProbeRaises \/ VinRaises
           \/ CensusRaises \/ MilRaises \/ Mode06Raises \/ FinalVoltageRaises
           \/ AttachedRaises
  BY <1>9 DEF HoldingRaises, ConfigureRaises, ProbeRaises, VinRaises,
     CensusRaises, MilRaises, Mode06Raises, FinalVoltageRaises, AttachedRaises,
     Escapes, Evidence, Flow, Begin
<1>10. CASE World
  BY <1>10 DEF Evidence, World, RequestStop, Unplug, Plug, OtherTakes,
     OtherFrees, DriverTurns, VoltageTurns, BusTurns
<1>11. CASE UNCHANGED vars
  BY <1>11 DEF vars, Evidence
<1> QED
  BY <1>1, <1>2, <1>3, <1>4, <1>5, <1>6, <1>7, <1>8, <1>9, <1>10, <1>11 DEF
     Next, Thread

\* voltage_detected and voltage_dropped rest on Debounce consecutive readings.
THEOREM DebounceEvidenceHolds == Spec => []DebounceEvidence
<1>1. Init => Evidence
  BY DEF Init, Evidence
<1>2. Core /\ LogAt /\ Evidence /\ [Next]_vars => Evidence'
  BY EvidenceStep
<1>3. Evidence => DebounceEvidence
  BY DEF Evidence, DebounceEvidence
<1> QED BY <1>1, <1>2, <1>3, LogInvariant, PTL DEF Spec
=============================================================================
