------------------------------- MODULE Watcher -------------------------------
(***************************************************************************)
(* The daemon: the Watcher state machine (daemon/watcher.py), the probe    *)
(* and the harvest it drives (daemon/interrogate.py), and the order of the *)
(* lines it writes to the event log (daemon/events.py), over a device      *)
(* driver, a vehicle and a human who act whenever they like.               *)
(*                                                                         *)
(* The program is one thread.  What makes it hard is that every call it    *)
(* makes to the driver may find the cable pulled, the battery dipping, the *)
(* ECUs silent, or the driver failing with an error of the taxonomy that   *)
(* no handler expects, and that a stop may be requested between any two    *)
(* calls.  So each action below is the code from one driver call to the    *)
(* next; pc names the call the thread is about to make.  Reading loops,    *)
(* frames and replies are in other modules: here a call answers or raises. *)
(***************************************************************************)
EXTENDS Naturals

CONSTANTS
  NumDevices,   \* devices enumerate() lists, tried in the order 1..NumDevices
  NumProfiles,  \* connection profiles of the probe list
  Passes,       \* times the full list is tried (PROBE_PASSES)
  Debounce,     \* consecutive readings needed to believe a change
  PresentMv,    \* a reading at or above it says a vehicle is plugged in
  AbsentMv,     \* a reading below it says the vehicle is gone
  MilliVolts,   \* the readings pin 16 can give
  MaxQueries,   \* bound: ask_all calls of one support walk or Mode 06 harvest
  Faults        \* errors, other than DeviceLost, a driver call may come to raise

ASSUME WatcherAssumption ==
  /\ NumDevices \in Nat \ {0}
  /\ NumProfiles \in Nat \ {0}
  /\ Passes \in Nat \ {0}
  /\ Debounce \in Nat \ {0}
  /\ PresentMv \in Nat
  /\ AbsentMv \in Nat
  /\ MilliVolts \subseteq Nat /\ MilliVolts # {}
  /\ MaxQueries \in Nat \ {0}
  /\ Faults \subseteq {"Timeout", "NotSupported", "InternalError"}

VARIABLES
  state,           \* Watcher._state
  session,         \* Watcher._session: the device it is open on, or None
  channel,         \* Watcher._channel: the profile it was won on, or None
  present_streak,  \* Watcher._present_streak, saturated at Debounce
  absent_streak,   \* Watcher._absent_streak, saturated at Debounce
  stop,            \* Watcher._stop
  pc,              \* where the thread is: the driver call it makes next
  exc,             \* the exception being handled, or that left run(); or "none"
  device,          \* loop variable of _scanning
  pass, step,      \* loop variables of probe()
  query, found,    \* ask_all calls made in the current walk; has an ECU answered?
  last,            \* last line of the event log
  handle,          \* driver: the device PassThruOpen holds for us, or None
  open,            \* driver: number of channels PassThruConnect holds for us
  dead,            \* driver: the held device was unplugged since it was opened
  dev,             \* world: who has each device
  lib,             \* world: the error driver calls raise now, or "ok"
  mv,              \* world: voltage on pin 16
  bus,             \* world: the profile the vehicle's ECUs answer on, or None
  nrc,             \* world: do they answer with negative responses only?
  highs, lows      \* history: the latest run of readings of this session that
                   \* were present (absent), saturated at Debounce

world    == <<stop, dev, lib, mv, bus, nrc>>
driver   == <<handle, open, dead>>
owned    == <<session, channel>>
streaks  == <<present_streak, absent_streak>>
loops    == <<device, pass, step, query, found>>
readings == <<highs, lows>>
vars == <<state, pc, exc, last, owned, streaks, loops, driver, readings, world>>

None     == 0
Devices  == 1 .. NumDevices
Profiles == 1 .. NumProfiles

States == {"SCANNING", "HOLDING", "INTERROGATING", "ATTACHED"}
Points == {"loop", "scan", "connect", "configure", "confirm", "won", "vin", "census",
           "pids", "mil", "mode06", "volts", "complete", "drop", "lost",
           "disconnect", "close", "stopped", "exited"}

\* The order of the log's lines, which the last one stands for.
Log == INSTANCE EventStream

\* TransportErrors a driver call can raise through _check.
Errors == {"DeviceLost", "Timeout", "NotSupported", "InternalError"}
\* Those probe() and harvest() do not catch around ask().
Uncaught == {"DeviceLost", "InternalError"}

-----------------------------------------------------------------------------
(* The driver, and what every call has in common.                          *)

\* What a call on the held device comes to: "ok", or the error it raises.
Outcome == IF lib # "ok" THEN lib ELSE IF dead THEN "DeviceLost" ELSE "ok"

\* The ECUs answer a request sent on profile p.
Answers(p) == Outcome = "ok" /\ bus = p

\* Mutant of Caught: the except clause names the wrong error.
CaughtInternalOnly(e) == e = "InternalError"

\* step() recovers from this exception; any other ends run() through finally.
Caught(e) == e = "DeviceLost"

\* The handler is left: its loop variables are gone.
OutOfScope == device' = 1 /\ pass' = 1 /\ step' = 1 /\ query' = 1 /\ found' = FALSE

\* The call raises one of kinds, which leaves the handler.
Escapes(kinds) ==
  /\ Outcome \in kinds
  /\ exc' = Outcome
  /\ pc' = IF Caught(Outcome) THEN "lost" ELSE "disconnect"
  /\ OutOfScope
  /\ UNCHANGED <<state, last, owned, streaks, driver, readings, world>>

\* PassThruDisconnect, and PassThruClose, which takes the channels with it.
DriverDisconnect == open' = open - 1 /\ UNCHANGED <<handle, dead>>
DriverClose      == handle' = None /\ open' = 0 /\ dead' = FALSE

Emit(e) == last' = e

\* One more reading of a streak; beyond Debounce its value makes no difference.
Bump(n) == IF n < Debounce THEN n + 1 ELSE n

Sample ==
  /\ highs' = IF mv >= PresentMv THEN Bump(highs) ELSE 0
  /\ lows' = IF mv < AbsentMv THEN Bump(lows) ELSE 0

\* Mutant of Begin: the loop does not look at the stop flag.
BeginDespiteStop(s) == pc = "loop" /\ state = s

\* The run loop starts the handler of state s.
Begin(s) == pc = "loop" /\ ~stop /\ state = s

-----------------------------------------------------------------------------
(* SCANNING: open the first device that can be opened.                     *)

Scanning == pc = "scan" \/ Begin("SCANNING")

\* open() raises DeviceBusy, DeviceLost or InternalError: try the next device;
\* after the last one, sleep and scan again.
SkipDevice ==
  /\ Scanning
  /\ dev[device] # "free" \/ lib # "ok"
  /\ \/ device < NumDevices /\ device' = device + 1 /\ pc' = "scan"
     \/ device = NumDevices /\ device' = 1 /\ pc' = "loop"
  /\ UNCHANGED <<state, exc, last, owned, streaks, pass, step, query, found,
                 driver, readings, world>>

OpenDevice ==
  /\ Scanning
  /\ dev[device] = "free" /\ lib = "ok"
  /\ session' = device /\ handle' = device /\ dead' = FALSE
  /\ Emit("device_opened")
  /\ present_streak' = 0
  /\ highs' = 0 /\ lows' = 0
  /\ state' = "HOLDING" /\ pc' = "loop" /\ device' = 1
  /\ UNCHANGED <<exc, channel, absent_streak, pass, step, query, found, open, world>>

-----------------------------------------------------------------------------
(* HOLDING: wait for Debounce consecutive readings of a vehicle.           *)

\* Mutant of PresentStreakAfter: a low reading does not restart the streak.
PresentStreakKept == IF mv >= PresentMv THEN Bump(present_streak) ELSE present_streak

PresentStreakAfter == IF mv >= PresentMv THEN Bump(present_streak) ELSE 0

HoldingRead ==
  /\ Begin("HOLDING")
  /\ Outcome = "ok"
  /\ Sample
  /\ present_streak' = PresentStreakAfter
  /\ \/ /\ PresentStreakAfter >= Debounce
        /\ Emit("voltage_detected")
        /\ state' = "INTERROGATING"
     \/ /\ PresentStreakAfter < Debounce
        /\ UNCHANGED <<last, state>>
  /\ UNCHANGED <<pc, exc, owned, absent_streak, loops, driver, world>>

HoldingRaises == Begin("HOLDING") /\ Escapes(Errors)

-----------------------------------------------------------------------------
(* INTERROGATING, first half: probe().                                     *)

ProbeStart ==
  /\ Begin("INTERROGATING")
  /\ Emit("probe_start")
  /\ pass' = 1 /\ step' = 1 /\ pc' = "connect"
  /\ UNCHANGED <<state, exc, owned, streaks, device, query, found, driver, readings, world>>

\* Mutant of NextAttempt: one pass too many.
NextAttemptOnePassMore ==
  \/ /\ step < NumProfiles
     /\ step' = step + 1 /\ pc' = "connect"
     /\ UNCHANGED <<pass, state, last>>
  \/ /\ step = NumProfiles /\ pass <= Passes
     /\ step' = 1 /\ pass' = pass + 1 /\ pc' = "connect"
     /\ UNCHANGED <<state, last>>
  \/ /\ step = NumProfiles /\ pass > Passes
     /\ Emit("probe_failed")
     /\ state' = "HOLDING" /\ pc' = "loop"
     /\ step' = 1 /\ pass' = 1

\* Mutant of NextAttempt: gives up a pass at its first profile.
NextAttemptFirstProfile ==
  \/ /\ pass < Passes
     /\ pass' = pass + 1 /\ pc' = "connect"
     /\ UNCHANGED <<step, state, last>>
  \/ /\ pass = Passes
     /\ Emit("probe_failed")
     /\ state' = "HOLDING" /\ pc' = "loop"
     /\ step' = 1 /\ pass' = 1

\* This profile did not win: the next one, the next pass, or probe_failed.
NextAttempt ==
  \/ /\ step < NumProfiles
     /\ step' = step + 1 /\ pc' = "connect"
     /\ UNCHANGED <<pass, state, last>>
  \/ /\ step = NumProfiles /\ pass < Passes
     /\ step' = 1 /\ pass' = pass + 1 /\ pc' = "connect"
     /\ UNCHANGED <<state, last>>
  \/ /\ step = NumProfiles /\ pass = Passes
     /\ Emit("probe_failed")
     /\ state' = "HOLDING" /\ pc' = "loop"
     /\ step' = 1 /\ pass' = 1

\* connect() answers every failure of PassThruConnect, a device that is gone
\* included, with ConnectError; the virtual backend refuses a wrong profile too.
ConnectRejected ==
  /\ pc = "connect"
  /\ Outcome # "ok" \/ bus # step
  /\ NextAttempt
  /\ UNCHANGED <<exc, owned, streaks, device, query, found, driver, readings, world>>

\* J2534 opens the channel whether or not anyone is out there.
Connect ==
  /\ pc = "connect"
  /\ Outcome = "ok"
  /\ open' = open + 1 /\ pc' = "configure"
  /\ UNCHANGED <<state, exc, last, owned, streaks, loops, handle, dead, readings, world>>

\* The tail of connect(): the filters only warn, SET_CONFIG raises.
Configure ==
  /\ pc = "configure"
  /\ Outcome = "ok"
  /\ pc' = "confirm"
  /\ UNCHANGED <<state, exc, last, owned, streaks, loops, driver, readings, world>>

ConfigureRaises == pc = "configure" /\ Escapes(Errors)

\* Any reply, a negative response too, wins the profile.
ProbeWins ==
  /\ pc = "confirm"
  /\ Answers(step)
  /\ Emit("probe_success")
  /\ pc' = "won"
  /\ UNCHANGED <<state, exc, owned, streaks, loops, driver, readings, world>>

\* Mutant of ProbeNoReply: the channel of the failed attempt stays open.
ProbeNoReplyKeepsChannel ==
  /\ pc = "confirm"
  /\ ~Answers(step) /\ Outcome \notin Uncaught
  /\ NextAttempt
  /\ UNCHANGED <<exc, owned, streaks, device, query, found, driver, readings, world>>

ProbeNoReply ==
  /\ pc = "confirm"
  /\ ~Answers(step) /\ Outcome \notin Uncaught
  /\ DriverDisconnect
  /\ NextAttempt
  /\ UNCHANGED <<exc, owned, streaks, device, query, found, readings, world>>

ProbeRaises == pc = "confirm" /\ Escapes(Uncaught)

\* probe() returns and _interrogating keeps the channel for teardown; a driver
\* that cannot clear its receive buffer is reported on the way.
ProbeReturns ==
  /\ pc = "won"
  /\ channel' = step
  /\ pc' = "vin"
  /\ Emit("rx_clear_unsupported") \/ UNCHANGED last
  /\ OutOfScope
  /\ UNCHANGED <<state, exc, session, streaks, driver, readings, world>>

-----------------------------------------------------------------------------
(* INTERROGATING, second half: harvest().                                  *)

\* Mutant of DisconnectChannel: no event.
DisconnectChannelSilently ==
  /\ DriverDisconnect
  /\ channel' = None
  /\ UNCHANGED last

\* _disconnect_channel: the channel goes, the device stays held.
DisconnectChannel ==
  /\ DriverDisconnect
  /\ Emit("channel_closed")
  /\ channel' = None

\* VIN: best effort, an answer that does not decode is no VIN.
ReadVin ==
  /\ pc = "vin"
  /\ Outcome \notin Uncaught
  /\ \/ Answers(channel) /\ ~nrc /\ Emit("vin_read")
     \/ UNCHANGED last
  /\ pc' = "census" /\ query' = 1 /\ found' = FALSE
  /\ UNCHANGED <<state, exc, owned, streaks, device, pass, step, driver, readings, world>>

VinRaises == pc = "vin" /\ Escapes(Uncaught)

\* One more bitmask group of the support walk: someone answered it and
\* advertises a further group.
CensusGroup ==
  /\ pc = "census"
  /\ Answers(channel) /\ ~nrc
  /\ query < MaxQueries
  /\ query' = query + 1 /\ found' = TRUE
  /\ UNCHANGED <<state, pc, exc, last, owned, streaks, device, pass, step, driver,
                 readings, world>>

\* The walk ends: the last group was answered or nobody answers (any more).
CensusDone ==
  /\ pc = "census"
  /\ Outcome = "ok"
  /\ found \/ (Answers(channel) /\ ~nrc)
  /\ Emit("ecu_census")
  /\ pc' = "pids"
  /\ OutOfScope
  /\ UNCHANGED <<state, exc, owned, streaks, driver, readings, world>>

\* Mutant of CensusEmpty: back to HOLDING without _disconnect_channel.
CensusEmptyKeepsChannel ==
  /\ pc = "census"
  /\ Outcome = "ok"
  /\ ~found /\ (~Answers(channel) \/ nrc)
  /\ state' = "HOLDING" /\ pc' = "loop"
  /\ OutOfScope
  /\ UNCHANGED <<exc, last, owned, streaks, driver, readings, world>>

\* Nobody answered with a support map: a failed probe, not a connection.
CensusEmpty ==
  /\ pc = "census"
  /\ Outcome = "ok"
  /\ ~found /\ (~Answers(channel) \/ nrc)
  /\ DisconnectChannel
  /\ state' = "HOLDING" /\ pc' = "loop"
  /\ OutOfScope
  /\ UNCHANGED <<exc, session, streaks, readings, world>>

\* ask_all is not guarded: a write that times out is not caught either.
CensusRaises == pc = "census" /\ Escapes(Errors)

ReportPids ==
  /\ pc = "pids"
  /\ Emit("supported_pids")
  /\ pc' = "mil"
  /\ UNCHANGED <<state, exc, owned, streaks, loops, driver, readings, world>>

ReadMil ==
  /\ pc = "mil"
  /\ Outcome \notin Uncaught
  /\ \/ Answers(channel) /\ ~nrc /\ Emit("mil_and_dtc")
     \/ UNCHANGED last
  /\ pc' = "mode06" /\ query' = 1
  /\ UNCHANGED <<state, exc, owned, streaks, device, pass, step, found, driver, readings,
                 world>>

MilRaises == pc = "mil" /\ Escapes(Uncaught)

\* A MID walk, then the MIDs of one ECU after the other, an event for each ECU.
Mode06Query ==
  /\ pc = "mode06"
  /\ Outcome = "ok"
  /\ query < MaxQueries
  /\ query' = query + 1
  /\ Emit("mode_06_results") \/ UNCHANGED last
  /\ UNCHANGED <<state, pc, exc, owned, streaks, device, pass, step, found, driver,
                 readings, world>>

Mode06Done ==
  /\ pc = "mode06"
  /\ Outcome = "ok"
  /\ Emit("mode_06_results")
  /\ pc' = "volts"
  /\ OutOfScope
  /\ UNCHANGED <<state, exc, owned, streaks, driver, readings, world>>

Mode06Raises == pc = "mode06" /\ Escapes(Errors)

\* The reading is recorded; nothing compares it with a threshold.
FinalVoltage ==
  /\ pc = "volts"
  /\ Outcome = "ok"
  /\ Sample
  /\ Emit("voltage_read")
  /\ pc' = "complete"
  /\ UNCHANGED <<state, exc, owned, streaks, loops, driver, world>>

FinalVoltageRaises == pc = "volts" /\ Escapes(Errors)

Complete ==
  /\ pc = "complete"
  /\ Emit("connection_complete")
  /\ absent_streak' = 0
  /\ state' = "ATTACHED" /\ pc' = "loop"
  /\ UNCHANGED <<exc, owned, present_streak, loops, driver, readings, world>>

-----------------------------------------------------------------------------
(* ATTACHED: wait for Debounce consecutive readings without a vehicle.     *)

AbsentStreakAfter == IF mv < AbsentMv THEN Bump(absent_streak) ELSE 0

AttachedRead ==
  /\ Begin("ATTACHED")
  /\ Outcome = "ok"
  /\ Sample
  /\ absent_streak' = AbsentStreakAfter
  /\ \/ /\ AbsentStreakAfter >= Debounce
        /\ Emit("voltage_dropped")
        /\ pc' = "drop"
     \/ /\ AbsentStreakAfter < Debounce
        /\ UNCHANGED <<last, pc>>
  /\ UNCHANGED <<state, exc, owned, present_streak, loops, driver, world>>

AttachedRaises == Begin("ATTACHED") /\ Escapes(Errors)

Drop ==
  /\ pc = "drop"
  /\ DisconnectChannel
  /\ present_streak' = 0
  /\ state' = "HOLDING" /\ pc' = "loop"
  /\ UNCHANGED <<exc, session, absent_streak, loops, readings, world>>

-----------------------------------------------------------------------------
(* Recovery and shutdown: one release, used by both.                       *)

\* Mutant of OnDeviceLost: back to SCANNING without a release.
OnDeviceLostKeepsHandle ==
  /\ pc = "lost"
  /\ Emit("device_lost")
  /\ state' = "SCANNING" /\ pc' = "loop" /\ exc' = "none"
  /\ UNCHANGED <<owned, streaks, loops, driver, readings, world>>

OnDeviceLost ==
  /\ pc = "lost"
  /\ Emit("device_lost")
  /\ pc' = "disconnect"
  /\ UNCHANGED <<state, exc, owned, streaks, loops, driver, readings, world>>

\* Mutant of LeaveLoop: no finally.
LeaveLoopUnreleased ==
  /\ pc = "loop" /\ stop
  /\ pc' = "stopped"
  /\ UNCHANGED <<state, exc, last, owned, streaks, loops, driver, readings, world>>

\* The loop sees the stop flag and leaves through finally.
LeaveLoop ==
  /\ pc = "loop" /\ stop
  /\ pc' = "disconnect"
  /\ UNCHANGED <<state, exc, last, owned, streaks, loops, driver, readings, world>>

\* Mutant of ReleaseChannel: the session is closed first.
ReleaseChannelLater ==
  /\ pc = "disconnect"
  /\ pc' = "close"
  /\ UNCHANGED <<state, exc, last, owned, streaks, loops, driver, readings, world>>

\* _release, first half: only a channel the Watcher knows of is disconnected.
ReleaseChannel ==
  /\ pc = "disconnect"
  /\ \/ channel # None /\ DriverDisconnect /\ channel' = None
     \/ channel = None /\ UNCHANGED <<channel, driver>>
  /\ pc' = "close"
  /\ UNCHANGED <<state, exc, last, session, streaks, loops, readings, world>>

\* Mutant of CloseSession: no event.
CloseSessionSilently == DriverClose /\ session' = None /\ UNCHANGED last

CloseSession ==
  /\ DriverClose
  /\ session' = None
  /\ Emit("device_released")

\* Back to SCANNING after a lost device, on to daemon_stop otherwise.
AfterRelease ==
  \/ /\ Caught(exc)
     /\ state' = "SCANNING" /\ pc' = "loop" /\ exc' = "none"
     /\ present_streak' = 0 /\ absent_streak' = 0
  \/ /\ ~Caught(exc)
     /\ pc' = "stopped"
     /\ UNCHANGED <<state, exc, streaks>>

\* _release, second half.
ReleaseSession ==
  /\ pc = "close"
  /\ \/ session # None /\ CloseSession
     \/ session = None /\ UNCHANGED <<session, driver, last>>
  /\ AfterRelease
  /\ UNCHANGED <<channel, loops, readings, world>>

DaemonStop ==
  /\ pc = "stopped"
  /\ Emit("daemon_stop")
  /\ pc' = "exited"
  /\ UNCHANGED <<state, exc, owned, streaks, loops, driver, readings, world>>

-----------------------------------------------------------------------------
(* The rest of the world: the human, other programs, the cable, the car.   *)

daemon == <<state, pc, exc, last, owned, streaks, loops, handle, open, readings>>

\* Any stop trigger: a signal handler, the console handler, or the q key.
RequestStop ==
  /\ pc # "exited" /\ ~stop
  /\ stop' = TRUE
  /\ UNCHANGED <<daemon, dead, dev, lib, mv, bus, nrc>>

Unplug(d) ==
  /\ dev[d] # "absent"
  /\ dev' = [dev EXCEPT ![d] = "absent"]
  /\ dead' = (dead \/ handle = d)
  /\ UNCHANGED <<daemon, stop, lib, mv, bus, nrc>>

Plug(d) ==
  /\ dev[d] = "absent"
  /\ dev' = [dev EXCEPT ![d] = "free"]
  /\ UNCHANGED <<daemon, dead, stop, lib, mv, bus, nrc>>

\* Another program opens a device nobody holds, and closes it again.
OtherTakes(d) ==
  /\ dev[d] = "free" /\ (handle # d \/ dead)
  /\ dev' = [dev EXCEPT ![d] = "busy"]
  /\ UNCHANGED <<daemon, dead, stop, lib, mv, bus, nrc>>

OtherFrees(d) ==
  /\ dev[d] = "busy"
  /\ dev' = [dev EXCEPT ![d] = "free"]
  /\ UNCHANGED <<daemon, dead, stop, lib, mv, bus, nrc>>

DriverTurns ==
  /\ lib' \in (Faults \cup {"ok"}) \ {lib}
  /\ UNCHANGED <<daemon, dead, stop, dev, mv, bus, nrc>>

VoltageTurns ==
  /\ mv' \in MilliVolts \ {mv}
  /\ UNCHANGED <<daemon, dead, stop, dev, lib, bus, nrc>>

BusTurns ==
  /\ bus' \in Profiles \cup {None}
  /\ nrc' \in BOOLEAN
  /\ bus' = None => ~nrc'
  /\ <<bus', nrc'>> # <<bus, nrc>>
  /\ UNCHANGED <<daemon, dead, stop, dev, lib, mv>>

-----------------------------------------------------------------------------

Init ==
  /\ state = "SCANNING" /\ session = None /\ channel = None
  /\ present_streak = 0 /\ absent_streak = 0
  /\ stop = FALSE
  /\ pc = "loop" /\ exc = "none"
  /\ device = 1 /\ pass = 1 /\ step = 1 /\ query = 1 /\ found = FALSE
  /\ last = "daemon_start"
  /\ handle = None /\ open = 0 /\ dead = FALSE
  /\ dev \in [Devices -> {"free", "busy", "absent"}]
  /\ lib = "ok"
  /\ mv \in MilliVolts
  /\ bus \in Profiles \cup {None}
  /\ nrc = FALSE
  /\ highs = 0 /\ lows = 0

\* One step of the daemon's thread.
Thread ==
  \/ SkipDevice \/ OpenDevice
  \/ HoldingRead \/ HoldingRaises
  \/ ProbeStart \/ ConnectRejected \/ Connect \/ Configure \/ ConfigureRaises
  \/ ProbeWins \/ ProbeNoReply \/ ProbeRaises \/ ProbeReturns
  \/ ReadVin \/ VinRaises \/ CensusGroup \/ CensusDone \/ CensusEmpty \/ CensusRaises
  \/ ReportPids \/ ReadMil \/ MilRaises \/ Mode06Query \/ Mode06Done \/ Mode06Raises
  \/ FinalVoltage \/ FinalVoltageRaises \/ Complete
  \/ AttachedRead \/ AttachedRaises \/ Drop
  \/ OnDeviceLost \/ LeaveLoop \/ ReleaseChannel \/ ReleaseSession \/ DaemonStop

World ==
  \/ RequestStop \/ DriverTurns \/ VoltageTurns \/ BusTurns
  \/ \E d \in Devices : Unplug(d) \/ Plug(d) \/ OtherTakes(d) \/ OtherFrees(d)

Next == Thread \/ World

Spec == Init /\ [][Next]_vars

\* Every driver call has a timeout or returns at once, so the thread goes on.
FairSpec == Spec /\ WF_vars(Thread)

-----------------------------------------------------------------------------
(* Properties.                                                             *)

\* Every variable keeps its type: the loops stay in range, the streaks do not
\* outgrow the debounce, and the driver never closes a channel it has not.
TypeOK ==
  /\ state \in States
  /\ session \in Devices \cup {None} /\ channel \in Profiles \cup {None}
  /\ present_streak \in 0 .. Debounce /\ absent_streak \in 0 .. Debounce
  /\ stop \in BOOLEAN
  /\ pc \in Points /\ exc \in Errors \cup {"none"}
  /\ device \in Devices /\ pass \in 1 .. Passes /\ step \in Profiles
  /\ query \in 1 .. MaxQueries /\ found \in BOOLEAN
  /\ last \in Log!Events
  /\ handle \in Devices \cup {None} /\ open \in Nat /\ dead \in BOOLEAN
  /\ dev \in [Devices -> {"free", "busy", "absent"}]
  /\ lib \in Faults \cup {"ok"}
  /\ mv \in MilliVolts /\ bus \in Profiles \cup {None} /\ nrc \in BOOLEAN
  /\ highs \in 0 .. Debounce /\ lows \in 0 .. Debounce

\* The driver never has two channels open for us, however many profiles,
\* passes, failed harvests and lost devices came before: every way out of an
\* attempt gives its channel back before the next connect().
OneChannel == open <= 1

\* Between two handlers the state tells what the driver holds: SCANNING nothing,
\* HOLDING and INTERROGATING a device without a channel, ATTACHED a device with
\* the channel the Watcher will disconnect.  This is what the asserts of the
\* handlers rely on, in every order of failures that leads there.
StateTellsDriver ==
  pc = "loop" =>
    /\ (state = "SCANNING") <=> (handle = None)
    /\ (state = "ATTACHED") <=> (open = 1 /\ channel # None)
    /\ session = handle

\* However run() ends, the driver holds nothing of ours: the device can be
\* opened by another program (Hard Rule 2, Decision 6).
ExitReleases == pc = "exited" => handle = None /\ open = 0 /\ session = None

\* The daemon exits because it was asked to, or because of an error outside
\* DeviceLost; a device that vanishes never ends it, whichever call finds out.
UnplugNeverExits == pc = "exited" => stop \/ exc \in Errors \ {"DeviceLost"}

\* voltage_detected and voltage_dropped rest on Debounce consecutive readings
\* of this session, none older than the device's opening and none in between on
\* the other side of the threshold, whatever probes, drops and losses reset or
\* kept the streaks.
DebounceEvidence ==
  /\ last = "voltage_detected" => highs = Debounce
  /\ last = "voltage_dropped" => lows = Debounce

\* The log never lies about possession: a reader of its last line knows whether
\* the driver holds a device, and that it holds no channel after channel_closed,
\* probe_failed or voltage_detected.
LogTellsDriver ==
  /\ (handle = None) <=> (last \in Log!Unheld \cup {"daemon_stop"})
  /\ last \in {"voltage_detected", "probe_failed", "channel_closed"} => open = 0
  /\ last = "voltage_dropped" => open = 1
  /\ last = "connection_complete" => open = 1 \/ pc = "close"

\* The lines of the log come in the order of the contract in EventStream.
FollowsContract == Log!Spec

\* The device is being closed.
Closing == handle # None /\ handle' = None

\* Outside the interrogation a device is closed only after its channel was
\* disconnected ("disconnect -> close, sacred order", watcher.py:225), and so is
\* every channel the Watcher has taken over from the probe.
SacredOrderOutsideProbe ==
  [][Closing /\ open > 0 => state = "INTERROGATING" /\ channel = None /\ exc # "none"]_vars

\* PHASE_1_DAEMON_DESIGN.md:217: the device is released in sacred order, the
\* channel first, no matter how the daemon ends.  Of a live device, always.
SacredOrder == [][Closing /\ ~dead => open = 0]_vars

\* PHASE_1_DAEMON_DESIGN.md:252: "Only request_stop() exits the daemon".
OnlyStopExits == pc = "exited" => stop

\* PHASE_1_DAEMON_DESIGN.md:207: a vehicle that vanishes mid-harvest (voltage
\* drop) aborts with no connection_complete.  The harvest's last reading is not
\* that of an unplugged cable with nobody left on the bus.
CompleteMeansPresent ==
  [][last' = "connection_complete" /\ last # "connection_complete"
       => lows = 0 \/ bus # None]_vars

\* A stop always ends the daemon, from wherever the thread is.
StopExits == stop ~> pc = "exited"

\* A dead handle is always given up, so that the device can be opened again.
LostIsReleased == dead ~> ~dead

\* The world is quiet, with a vehicle that answers on profile p.
Calm(p) ==
  /\ \A d \in Devices : dev[d] = "free"
  /\ lib = "ok" /\ mv >= PresentMv /\ bus = p /\ ~nrc

\* Once the world is quiet the daemon ends up attached to the vehicle and stays
\* so, whatever happened before, unless it was stopped or had crashed.
Attaches ==
  \A p \in Profiles :
    <>[]Calm(p) => <>[](state = "ATTACHED" \/ pc = "exited")

=============================================================================
