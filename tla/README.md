# Backprobe: formal models of the daemon and its predecessor

Backprobe watches an OBD2 port through a J2534 pass-through device. The daemon
takes the device, waits for battery voltage on pin 16, probes for the protocol
the vehicle speaks, harvests what the ECUs tell (VIN, supported PIDs, MIL and
DTC count, Mode 06), writes one JSON line per event, and keeps the device until
it is asked to stop. Its promises are about possession (who holds device and
channel, however anything fails), about the log (its lines are true and in
order), and about the wire (a reply belongs to the request it is taken for).
This directory models that behaviour in TLA+, checks it with TLC on small
instances, and proves the safety properties with TLAPS for every instance.

`src/backprobe` is the program. `src/OldVer` is the MCP server with its window
that it replaces; it is kept in the repository and still runs, and most of what
can go wrong between threads is there. Paths below are relative to
`src/backprobe` unless they say otherwise.

## Contents

| file | what it is |
|---|---|
| `EventStream.tla` | the event log's contract: which line may follow which |
| `Watcher.tla` | the daemon: state machine, probe, harvest, teardown, driver, vehicle, human |
| `MCWatcher.tla`, `Watcher*.cfg` | its instances for TLC |
| `WatcherProofs.tla` | possession, with the inductive invariant `Core`; the log: refinement of `EventStream`, and what the voltage events rest on |
| `J2534Channel.tla` | `ask` and `ask_all` on a live channel: receive buffer, clock, late answers |
| `MCJ2534Channel.tla`, `Channel*.cfg` | its instances for TLC |
| `J2534ChannelProofs.tla` | whose reply is taken for whose: theorems with the inductive invariant `Sound` |
| `SessionLog.tla`, `MCSessionLog.tla`, `SessionLog.cfg` | the diagnostic log: its lock, the VIN key, the keyring, several processes |
| `SessionLogProofs.tla` | one token for one VIN, and every token can be decoded |
| `Sorting.tla` | Python's `sorted()`, of a set and of a list |
| `SortingProofs.tla` | it returns what it should, for every finite set and every list |
| `Obd2Wire.tla` | what an ECU answers and what the decoders read out of it, as functions |
| `Obd2WireProofs.tla` | the decoders undo the encoders |
| `Harvest.tla` | the daemon's harvest with what it asks and records |
| `Obd2Client.tla` | the OBD-II client of the old version |
| `Readers.tla`, `MCReaders.tla`, `Readers.cfg` | these two, each over the same ECUs, for TLC |
| `ReadersProofs.tla` | the census, the tests, the old client's readings and the types |
| `SerialChannel.tla` | what a lock around an exchange promises |
| `Transports.tla` | the six old transports and the thread pool they share |
| `ToolServer.tla`, `MCToolServer.tla`, `ToolServer.cfg` | the tool server over a transport, with the capture |
| `ToolServerProofs.tla` | the lock (a refinement of `SerialChannel`), the device, the capture, the types; whose reply a task is given |
| `Gui.tla`, `MCGui.tla`, `Gui.cfg` | the window of the old version |
| `GuiProofs.tla` | what the buttons rule out, and the types |
| `PROJECT.json` | components, runs, mutants, code map, findings, hazards, theorems |

## Inventory

### The program

| component | state | operations | what must be right |
|---|---|---|---|
| Watcher (`daemon/watcher.py`) | `_state`, `_session`, `_channel`, two streaks, `_stop` | `run`, `step`, the handler of each state, `_on_device_lost`, `_release`, `request_stop` | at most one device and one channel; `_state` tells what is held; everything is given back however `run` ends; one reading never attaches or drops a vehicle |
| Interrogation (`daemon/interrogate.py`) | locals of `probe` and `harvest` | `probe`, `harvest`, the walk over the support maps, Mode 06 | a failed attempt gives its channel back before the next; the harvest's lines come in the log's order |
| Event log (`daemon/events.py`) | open file, `event_count` | `emit`, `close` | lines in the order of the mockup log, true about what is held, counted once |
| Transport contract (`transport/base.py`) | none | `enumerate`, `open`, `connect`, `read_voltage`, `ask`, `ask_all`, `disconnect`, `close`, error taxonomy | who raises what; `ask` answers its own request; disconnect before close |
| J2534 backend (`transport/j2534.py`) | library, device id, channel id, flags | `open`, `connect`, `close`, `_configure`, filters | as above, over a vendor's DLL |
| J2534 channel (`transport/j2534.py:700`) | `_clear_rx_tried`, `_clear_rx_ok`, `_disconnected`, the driver's receive buffer | `ask`, `ask_all`, `disconnect`, `_clear_rx`, read loops | no stale reply taken for a fresh one, no prompt ECU missed, no timeout in front of an answer unless the reader is behind, no wait without an end |
| Virtual backend (`transport/virtual.py`) | scripted timeline | the contract, without hardware | same error taxonomy as J2534 |
| OBD2 decoders (`obd2/decode.py`, `obd2/pids.py`) | none | support maps, DTC counts, VIN, Mode 06 scaling and verdicts | bit order, boundaries, signed values, two-byte limits |
| Session log (`session_log.py`) | file, `_lock`, VIN key | `event`, `error`, `exchange`, VIN tokens | one token per VIN across runs; logging never stops the daemon |
| Entry point (`__main__.py`) | none | arguments, signal and console handlers, q key | every way to stop ends in `request_stop` |

The daemon is one thread calling down: Watcher to Interrogation to a channel of
the transport to the driver. Nothing calls up, except that a signal handler, a
console handler's thread or the q key's thread sets `_stop` at any moment.
Errors come up as exceptions of one taxonomy (`DeviceBusy`, `DeviceLost`,
`ConnectError`, `Timeout`, `NotSupported`, `InternalError`). `step` catches
`DeviceLost` only, `probe` and `harvest` catch some of the others around some of
their calls; the rest unwinds through the `finally` of `run`.

What is hard to test here:

* the cable can be pulled, the battery dip, the vehicle fall silent, the driver
  fail, and a stop be requested, each between any two of a dozen driver calls;
* the winning channel lives in a local variable of `probe` for a while, so an
  error there unwinds past a channel the Watcher does not know of;
* streaks are reset in four places and kept in two;
* replies arrive late, in two steps, or after the request that asked for them
  has timed out, and the driver keeps them for the next reader;
* the clear of the receive buffer may be unsupported, or fail now and then.

### The old server (`OldVer/obd2_mcp`)

| component | state | what is hard | what must be right |
|---|---|---|---|
| transports (`transport/*.py`) | status, device and channel ids, `_dll`; stream reader and writer | `connect` and `disconnect` run in executor threads beside exchanges; J2534 has a lock its `disconnect` does not take, K-line has none; a DoIP timeout leaves an answer in the stream | one exchange at a time; no device stays open that status does not speak of |
| protocols (`protocols/*.py`) | udsoncan client and its one-reply buffer; sniffer task, reader, notifier, history | the blocking client runs in a thread that waits for the event loop; `stop` awaits while `start` may run; a late reply is taken for another one | a reply belongs to its request; a capture that is said to run does; calls end |
| tool server (`server.py`, `cli.py`) | the global `_ctx` | tool calls run concurrently and test `is_connected` before they await | nothing is open when the server has ended |
| window (`gui.py`) | transport, buttons, futures waited for, poll timer, rows | callbacks find the window in whatever state other handlers left it | values, codes and confirmations are of the vehicle and PID they are shown for |

### Not modelled, and why

* Entry point: arguments and handler registration. The start of a process is in
  `SessionLog`, the effect of a handler is `RequestStop` in `Watcher` and
  `request_stop` in `SessionLog`.
* Virtual backend: its scripted timeline. What its session can do to a caller is
  the contract `Watcher` gives to any driver; its encoders are in `Obd2Wire`.
* J2534 backend: registry enumeration and the flags of filters and identifiers,
  which are I/O and data.
* Events: field contents, battery health, and an event file that cannot be
  written.
* `tokenize_file` rewrites a log in place: it is a call of the operator's on a
  log nobody writes any more, and uses the functions of `SessionLog`. Two
  processes that start in the same second share a log file name; their lines
  are told apart by nothing, and the model's set of tokens by nothing either.
* Old protocols: the payloads of UDS and KWP2000 services, which a caller gets as
  they came; signal history and correlation of the sniffer, which are
  statistics; the epoch at which a capture's own history is cut off.
* A DoIP frame torn by a timeout in the middle. `Transports` has replies
  whole; a torn one makes the stream unreadable until it is closed.
* Window: layout, wording, refresh rate. `close` does not wait for the
  disconnect it starts, so that the process may end before it; in the model
  the transport is then "closing".
* Old instance lock and session log: one `bind()` of a socket that the system
  releases, and an append without a lock or a key.
* Phase 2 is a design document without code. Installation scripts, mockups and
  field notes hold no state.
* python-obd and udsoncan are external: modelled by how the code uses them.

## Plan

Written in this order, the most important behaviour first.

1. `EventStream`: what the log promises its readers, as an abstract specification.
2. `Watcher` with its probe and harvest; refines `EventStream`.
3. `WatcherProofs`.
4. `J2534Channel`, `J2534ChannelProofs`.
5. `SessionLog` and its proofs.
6. `Sorting`, `Obd2Wire`, `Harvest` and `Obd2Client`, and their proofs (`ReadersProofs` has the
   last two).
7. `Transports`, `ToolServer` with the capture, `SerialChannel`, their proofs.
8. `Gui` and its proofs.

All of these are done. What would come next: the driver's own view of the J2534
session (filters and configuration as state, so that `_configure` can fail in
the middle), a failing write of the event file with its count, the epoch of the
sniffer's history, and the composition of `Harvest` with `J2534Channel`'s frames
in place of its one late reply for each ECU.

## Watcher

One action is the code from one driver call to the next, and `pc` names the call
the thread makes next. A call on the held device comes to `Outcome`: the error
the driver is in the mood to raise (`lib`), `DeviceLost` if the device was
unplugged since it was opened (`dead`), or "ok". Whether an error escapes a
handler is `Escapes(kinds)`, with the kinds the code lets through there; the
thread is then at "lost" (`_on_device_lost`) if `step` catches it, or at
"disconnect" (`finally` of `run`).

| code | model |
|---|---|
| `_state`, `_session`, `_channel`, `_present_streak`, `_absent_streak`, `_stop` | variables of the same names |
| handles inside the driver | `handle`, `open` (number of channels), `dead` |
| `_scanning` | `SkipDevice`, `OpenDevice` |
| `_holding` | `HoldingRead`, `HoldingRaises` |
| `probe` | `ProbeStart`, `ConnectRejected`, `Connect`, `Configure`, `ProbeWins`, `ProbeNoReply`, `ProbeRaises`, `ProbeReturns` |
| `harvest` | `ReadVin`, `CensusGroup`, `CensusDone`, `CensusEmpty`, `ReportPids`, `ReadMil`, `Mode06Query`, `Mode06Done`, `FinalVoltage`, `Complete`, and the `...Raises` of each |
| `_attached` | `AttachedRead`, `AttachedRaises`, `Drop` |
| `step`'s `except DeviceLost` | `OnDeviceLost` |
| `run`'s loop exit and `finally` | `LeaveLoop`, `ReleaseChannel`, `ReleaseSession`, `DaemonStop` |
| human, cable, battery, ECUs, driver | `RequestStop`, `Unplug`, `Plug`, `OtherTakes`, `OtherFrees`, `VoltageTurns`, `BusTurns`, `DriverTurns`: any of them between any two steps of the thread |

Abstractions. A streak is saturated at `Debounce`, which is all its comparisons
see. The log is its last line. Loop variables are reset when a handler is left
(`OutOfScope`), so that they add no states. The list of devices is fixed; each
is free, busy, or absent. How many queries a support walk makes is a choice up
to `MaxQueries`. `lib` holds one error until the driver turns again, a superset
of the errors a single call can meet. Left out: `_vehicles` and `_conn_start`
(numbers and times in the text of events), the console, a forced kill, and a
failing write of the event file.

`EventStream` is the abstract specification. The design calls the order of the
mockup log "the contract"; `events.py` has the events and no order. Which line
may follow which (`MayFollow`) is therefore this project's own statement, with
the lines the mockup's happy path does not show, and translates no code. `FollowsContract` says that
`Watcher` implements it, with the log's last line as the refinement mapping.

### Runs

`watcher_safety` (200,925 states): one device, two profiles tried in two passes,
`Debounce` 2, three readings (unplugged, between the thresholds, battery), the
faults `Timeout` and `InternalError` beside `DeviceLost`. Two profiles and two
passes give every branch of the probe's loops (next profile, next pass, give
up) and an attempt before and after every failed one. Two is the smallest
debounce in which a streak can be carried over. Three readings are the regions
that two thresholds distinguish. `Timeout` is an error `probe` catches and
`InternalError` one it does not; a third kind would behave like either. It checks:

* `OneChannel`: 2 x 2 connects, harvests, drops and losses never leave two
  channels open.
* `StateTellsDriver`: between two handlers `_state` says what the driver holds,
  which is what the handlers' asserts rely on.
* `ExitReleases`: however `run` ends, the driver holds nothing of ours.
* `UnplugNeverExits`: a device that vanishes never ends the daemon, whichever
  call finds out.
* `DebounceEvidence`: `voltage_detected` and `voltage_dropped` rest on that many
  consecutive readings of this session, kept by history variables that look at
  pin 16 and not at the streaks.
* `LogTellsDriver`: the last line tells whether a device or a channel is held.
* `FollowsContract`, `SacredOrderOutsideProbe`: action properties; the order of
  the log, and disconnect before close for every channel the Watcher knows.

`watcher_liveness` (310,620 states): two devices, of which any may be busy or
absent, one pass. `StopExits`: a stop ends the daemon. `LostIsReleased`: a dead
handle is given up. `Attaches`: once the world is quiet and a vehicle answers on
some profile, the daemon ends up attached for good, unless it ended. One pass is
enough since a second one only repeats the first; two devices are what makes
the scan walk.

Fairness is `WF_vars(Thread)` and nothing of the world's: a single thread whose
every driver call returns at once or has a timeout in the code. There is no
fairness among the thread's actions; where more than one is enabled the world
has decided. `StopExits` assumes that the signal handler which calls
`request_stop` returns: a signal that arrives while the thread is inside the
session log's lock would wait for it forever. `SessionLog` has that case.

## J2534Channel

Exchanges follow one another on a channel. `Begin` calls `ask` or `ask_all`;
`ClearRx` tries to empty the receive buffer unless that is known not to work;
`Write` sends; the read loop takes a frame (`ReadDiscards`, `AskReturns`,
`AskAllCollects`), or ends (`Expire`). Every driver call may raise. ECUs answer a
request whenever they like (`Answer`), perhaps after first-frame markers or
"response pending"s (`Foretell`), also long after the exchange is over, into the
buffer that the next exchange finds.

A reply is the ECU it comes from, what it repeats of the request (service and
parameter, or the service only, as a negative response or one of a single byte),
the request it answers and the number of the exchange it belongs to. The code
never sees the number; the properties compare it. A TX echo, a marker and a frame
too short to carry an ECU and a payload are all `Noise`. "raised" is any error of
the driver.

Time is in ticks of 50 ms, the J1979 limit for a first answer. It goes by (`Tick`)
at any point of the read loop, with frames unread or not, because the loop looks
at the clock before each single read; frames arrive at any point too. A reader
that is slow, behind a vendor's DLL or on a busy machine, can so reach its
deadline with the answer still in the buffer. The history variable `behind` counts
the ticks for which the reader has had frames unread without a break, and the two
properties that depend on it say by how much. `Pause` is the unmeasured time
between two calls.

### Runs

`channel_safety` (16,879,247 states, symmetric in the ECUs): two ECUs, two
exchanges of either kind, three requests of the harvest of which two share a
service, a deadline of 3 ticks, coalescing after 2 (`_COALESCE_MS`, 100 ms),
compliant answers within 1, two frames of buffer, and a clear that works or not,
chosen for every exchange. Two exchanges are what it takes for one to hear of
the other, two ECUs for one to start the coalescing clock of the other. The
deadline only has to be longer than the coalescing time for both exits of
`ask_all` to exist.

* `TypeOK` says beside the types that no exchange outlasts its deadline and that
  a list has one reply per ECU. The loop ends because the clock runs and the
  deadline bounds it; deadlock is checked.
* `Backstop`: an answer that `ask` returns was given to this request, or, if it
  repeats no parameter, to its service.
* `FreshIfClearable`: where the buffer can be cleared, an exchange hears of
  itself only, unless an ECU was still at work on an earlier request.
* `PromptHeard`: coalescing loses no ECU that answered within the J1979 limit,
  also if a stale frame or a faster ECU started the clock, as long as that limit
  and the reader's arrears are less than the coalescing time and the window.
* `TimeoutMeansSilence`: `ask` gives up with an answer unread only if it has had
  frames unread ever since that answer came. A reader that has caught up gives up
  only if no ECU answered in time.

There is no liveness run: an exchange is bounded by its deadline.

## SessionLog

Every line goes through `_write`. An action is the code between two points at
which another process, thread, signal handler or a crash can come in; `pc[p][t]`
is where thread `t` of process `p` is. A signal handler runs on the main thread,
which stands still meanwhile (`Runs`), and with the lock the main thread may hold.

| code | model |
|---|---|
| `_lock`, `_key_cache`, `_known_tokens` | `lock`, `key`, `known`, one for each process |
| key file, keyring, log files | `file`, `ring`, `logged` |
| `_write`: `init`, its exceptions, the append | `init`, `init_returns`, `append`, `append_returns`, `WriteFails` |
| `_vin_key` | `vin_key`, `KeyUnreadable`, `KeyTruncates`, `KeyStored`, `KeyFails` |
| `_remember` | `remember`, `RememberFails`, `Loaded` |
| `request_stop` and its line | `request_stop` |
| process start, crash | `Start`, `Dies` |

Whether a line has a VIN in it is a choice, one VIN a line. HMAC is injective. A
process makes one random key at most, so a key is named by the start of its
process. The test-and-set of `request_stop` is one action: two requests at the
same instant would both log.

`session_log` (1,203,044 states): the daemon and a command-line tool, two
starts, one vehicle. Two processes are what the race for the key file takes,
two starts what it takes to come back after a crash with an empty file. It
checks:

* `SameToken`: a vehicle is named alike in all lines of all logs, unless a
  process used the key file while it was being written or was left unwritten.
  (`write_text` empties the file first, and an empty file is a valid key.) With
  `$BACKPROBE_VIN_KEY` there is no exception.
* `Decodable`: each token in a log is in the keyring, after any crash, unless the
  keyring could not be appended when the line was written.
* `StopReturns`: a stop request comes back, except for a signal that arrives
  while the main thread holds the lock (`Stuck`). That one waits for ever.

Fairness: weak for the main thread of a process that is asked to stop, strong
for the threads that compete with it, since `threading.Lock` grants a lock that
is free again and again to one that waits; nothing for the world.

## Obd2Wire, Harvest, Obd2Client, Readers

`Obd2Wire` has the encoders of the virtual ECU (`_encode_support_mask`,
`_encode_mode06`, `_respond`) and the decoders of `obd2/decode.py` as functions on
masks and bytes. A mask is the set of its bits, a word is two bytes. Sizes are
constants: a group has `Group` identifiers (32 in the code), a byte `Byte` values
(256), and all identifiers fit in a byte. `IsEcu` says which ECUs there are:
identifiers of the groups, and tests whose fields fit their bytes and words.
`sorted()`, by which both clients list what they found, is in `Sorting`: the one
arrangement of a set, or a list, that is in order.

`Harvest` is `harvest()` with the calls `_support_walk`, `_harvest_mode06` and
`_harvest_mid`: an action is an exchange with all ECUs or one and what is made of
the replies. Any ECU may be late; the late reply is then in the buffer and is
the first the next exchange hears of it, unless the buffer can be cleared.
`DeviceLost` may come at any exchange.

`Obd2Client` is `OldVer/obd2_mcp/protocols/obd2.py` against one ECU: `query` (PIDs,
freeze frames, actuator tests, VIN), the two code lists, clearing, and the two
walks with the monitor tests. What an exchange gives is the ECU's reply, a
negative one, nothing, or the reply to an earlier request: any, on transports
that compare nothing, or one that fits.

`Readers` is the two side by side, a process being the one or the other, so that
both are checked over the same ECUs. `readers` (301,862 states): groups of three
ids and a mark for more, two groups, eight values to a byte; for the daemon two
ECUs, one of which has both groups, one group, or nothing; tests unsigned,
signed that pass and fail, and of an id that the table does not have. Two groups are
what a walk needs in order to go on and to stop; with three ECUs nothing new is
asked. It checks:

* `CensusRight`: no ECU is listed with an id it does not have, nor twice with
  one it has, also when an exchange reads the reply to an earlier group; and if
  every reply was read in time, everything is there.
* `TestsRight`: a test is of the ECU it is listed under, with the verdict of
  Annex E's signed words, if its id is in the table.
* `ReadingsRight`: the client shows the value of the identifier it asked for,
  code lists that are the ECU's, and a clear that happened; a walk ends with what
  the ECU has. The exceptions are in the formulas: a late reply can be taken for
  another list, for a clear, or for another group of PIDs.

There is no fairness: the walks are bounded by their groups, and every exchange
by its timeout.

## Transports, ToolServer, SerialChannel

A task is a coroutine; between two awaits it runs alone, so an action is the code
from one await to the next, or the part of a thread's job that others can tell
apart. `Transports` has `connect`, `disconnect` and `send_raw` of the six
transports in one set of actions; `kind` is which, and the sets `Threaded`, `Dll`,
`Captures`, `Locked`, `Matching`, `Exclusive` say in what they differ, each for the
lines of code it stands for.

| code | model |
|---|---|
| `_status`, `_dll` and ids, `_bus`, `_writer` | `status`, `held` (which connection) |
| the default executor | `queue`, `job`, `client`; `StartJob` |
| `connect`, its thread, its `except` | `Connect`, `Opens`, `OpenFails`, `Rejects`, `ConnectReturns`, `ConnectRaises` |
| `disconnect`, `_disconnect_sync` | `Disconnect`, `Closes`, `DisconnectReturns` |
| `send_raw`, `_exchange_sync` | `Ask`, `Write`, `WriteRaises`, `Read`, `WaitEnds`, `AskReturns`, `Simulate` |
| udsoncan client and `run_coroutine_threadsafe` | `AskByClient`, `ClientSends` |
| ECUs | `Answer`, `Ignore` |
| tools, lifespan | `connect_device`, `disconnect_device`, `query`, `kwp_service`, `uds_service`, `lifespan_ends` |
| `CanSnifferProtocol` | `start_capture`, `stop_capture`, `stop_returns`, `decode_loop` |

A connect job is one step in its thread: what it opens and closes again when a
later call fails nobody sees. DoIP closes its writer and forgets it in one step.
A wait may end at any time, so there is no clock. The lifespan ends when no
call is under way, as the SDK's task group has it.

`tool_server` (668,902 states): all six transports, two tasks, two threads, two
requests of one service, two connections in the life of the process, one
request and one reply in flight for each channel, a capture on the virtual
bus. Two tasks are enough for each pair of calls to overlap, and two threads for
two clients to hold them all. Two requests of one service with different second
bytes are what tells `Matching` from a comparison of services. It checks:

* `DeviceAccountedFor`, `ExitLeavesNothingOpen`: as long as connects and
  disconnects did not overlap, what is open is what status says, whatever fails,
  and nothing is open after the end. Where they do overlap (nothing in
  `server.py` keeps them apart) a device can be left open.
* `RightReply`: a task is given the reply to its own request, but for the cases
  the formula names: an earlier wait that ended without its reply, an overlap
  where there is no lock, and two SocketCAN bus objects.
* `OneExchangeAtATime`: with a lock, the transport implements `SerialChannel`.
* `CaptureRuns`: a capture that is said to run has a loop, unless it was started
  in the middle of a stop.
* `CallsReturn`: every call comes to an end, unless udsoncan clients hold all the
  threads and wait for exchanges that need one.

Fairness: weak for threads, the loop and tasks; strong for the step that takes
the exchange lock.

## Gui

Handlers and callbacks run one at a time on the Tk thread; what they ask of the
vehicle runs on a loop in another thread, and `_wait_for` calls back when it is
done. An action is a handler, a callback, a timer, or the end of a connect or
disconnect on the loop. Every press of Connect makes a transport; `waits` are the
futures looked after, each with the connection it was asked of; `chain` are poll
cycles, more than one of which may be going; `enabled` are the buttons.

What all requests share, beside the connection, is the executor of the loop. The
vehicle info starts a UDS client for each of its DIDs at once. A client takes a
thread (`ClientTakes`) and blocks it until its own `send_raw` has had another
one (`ClientEnds`); other requests hold a thread for a limited time only. When
clients hold every thread (`Stuck`), no request ends any more, neither theirs nor
that of a read or a poll. The code has `len(ECU_DIDS)` = 6 clients and
`min(32, cpu_count + 4)` threads, so that a single Read Vehicle Info can do it on
a machine with one or two processors, and two of them, over two connections, on
larger ones. This is how it is on the four transports whose `send_raw` runs in a
thread; on DoIP and the virtual bus it needs none, and clients always end.

`gui` (1,196,700 states): two connections, the second to a vehicle with other
PIDs, two PIDs of which one can be culled after one failure, two poll cycles at
once, two clients and two threads, which is the boundary at which one Read
Vehicle Info can take them all. What the user does in one sitting is one of six sets (`Sittings`):
poll with discovery; read and clear codes; a panel with discovery; vehicle info; poll
and vehicle info; read and vehicle info. Each has Connect and closing the window,
and the first four Disconnect, so that every callback meets every state of the
connection; the last two put what needs a thread beside what takes them. It
checks:

* `ConnectFindsItsTransport`, `AbandonedIsReleased`: the callback of a connect
  finds its transport; no transport stays open that the window has let go.
* `RowsRight`: a row shows a value of its PID, although results are matched with
  a list that other handlers overwrite, unless polling was started while a cycle
  was still going.
* `OneVehicle`: codes, PIDs and answers are of the vehicle connected, unless
  somebody disconnected with an answer outstanding or in the 50 ms before the
  dialog has the grab.
* `ClearWasConfirmed`: nothing is cleared without a Yes, nor on another vehicle
  than Clear was pressed on, with the same 50 ms.
* `StoppedPollingEnds`, `ReadComesBack`: polling that is stopped ends, and the
  Read button comes back, unless the clients have taken every thread (`Stuck`).

Fairness: weak for the timers of polls, which fire, and for the end of a poll's
or a read's requests while the clients leave them a thread: each has an answer
or a timeout then. With every thread taken nothing is assumed, and without that
exception TLC refutes both properties.

What no property covers: the last values and the table of codes stay when a
connection ends, until another vehicle's answers replace them; and Clear stays
disabled after a clear that raised.

## Where the documents and the code disagree

Each is a run in which TLC finds a counterexample; PROJECT.json quotes the lines.

| run | the documents | the code |
|---|---|---|
| `watcher_exit` | only `request_stop` exits the daemon | so does every error but `DeviceLost` that a handler lets through |
| `watcher_teardown` | a device is released in sacred order, however the daemon ends | an error that leaves `probe` closes the device under a connected channel |
| `watcher_complete` | a vehicle that vanishes mid-harvest gets no `connection_complete` | the harvest's last reading is recorded and not compared with a threshold |
| `channel_window` | `ask_all` collects every ECU that answers within the window | it stops 100 ms after the last new one |
| `channel_stale` | `ask` skips replies to earlier, timed-out requests | it returns a late reply to an equal request, or a negative one to its service |

`SacredOrderOutsideProbe`, `UnplugNeverExits`, `PromptHeard` and `Backstop` state
what does hold in their place.

## Proofs

The theorems hold for every value of the constants that satisfies the module's
assumption. `WatcherAssumption`: at least one device, profile, pass and reading;
positive debounce; thresholds in any relation. `ChannelAssumption`: P2 shorter
than the coalescing time and than the deadline; at least one request.
`TransportsAssumption`: finitely many tasks, none of them called "nobody", which
is how a free lock is written; at least one thread. `SessionLogAssumption`:
the processes asked to stop are processes. `GuiAssumption`: finitely many PIDs,
which are numbers; any number of clients, and at least one thread. `WireAssumption`: a group has two bits at least, a byte an even
number of values, of which there are enough for the identifiers of all groups (256
in the code). `HarvestAssumption`: finitely many ECUs, called by numbers other than
the one that stands for nothing; a vehicle has an ECU, as in `IsEcu`, under each.
`ClientAssumption`: the old client's ECUs are as in `IsEcu`; the services whose
replies repeat an identifier are among 01, 02, 08 and 09; finitely many trouble
codes, none of which is 0, which on the wire is padding.

**Possession** (`WatcherProofs`). `OneChannel` alone is not inductive: it depends
on where the thread is and which exception unwinds. `Holdings` says for each
control point what the driver and the Watcher hold, the probe's unowned channel
included; `Flow` says which exception may be in flight there and in which
state's handler the thread is. `Core == TypeOK /\ Holdings /\ Flow` is inductive,
with one step of the proof per action. From it follow `TypeCorrect`,
`OneChannelHolds`, `StateTellsDriverHolds`, `ExitReleasesHolds`,
`UnplugNeverExitsHolds` and, as an action property,
`SacredOrderOutsideProbeHolds`.

**The log** (`WatcherProofs`). `LogAt` says what the last line is at each
control point; with `Core` it is inductive. It gives `LogTellsDriverHolds`, and it
maps every step of the daemon to a step or a stutter of `EventStream`
(`Contract`). `Evidence` bounds the streaks by the readings there really were and
gives `DebounceEvidenceHolds`.

**The wire** (`J2534ChannelProofs`). `Sound` joins the four properties with what
makes them inductive: which variables are at rest where (`Underway`), that no
frame or pending answer is newer than its exchange and that after a good clear
none is older (`Numbered`), and that an answer noted by the history is in the
list or in the buffer in front of the reader (`AskHears`, `AskAllHears`). The
crux of `PromptHeardHolds` is that a list can be closed only after more than P2:
the coalescing time is longer than P2 and never runs ahead of the clock. That of
`TimeoutMeansSilenceHolds` is that an answer which is not read yet came no longer
ago than the reader has been behind, which every step keeps.
`ChannelTypes`, `BackstopHolds`, `FreshIfClearableHolds` and
`TimeoutMeansSilenceHolds` follow from `Sound` as well.

**The diagnostic log** (`SessionLogProofs`). What a line has in it is decided steps
before it is written. `Types` says what is held at each point of `_write`; with
it `Rings` is inductive (what a process takes for recorded is, and so is, or could
not be, the token of a line past `_remember`), and gives `RingInvariant`. `OneKey`
says that every key in memory is the file's or is being written, and that while it
is nobody else has one and no log has a token; it gives `KeyInvariant`.

**The tool server** (`ToolServerProofs`). `Control` says
what a task's job and client can be for what the task is doing, `Queued` that what
waits for a thread is in the queue once and has not had a thread yet, `Serial` that
who is between a request and the end of its wait holds the lock. They are
`LockInvariant`, and give the refinement `LockMakesSerial`: the lock's holder is
the one who talks. `Accounts` says, task by task, which connection is open at which
point of a connect or disconnect, `Stopping` what is left after the end:
`DeviceInvariant` and `ExitInvariant`. `Capturing` gives `CaptureInvariant`. For
`ReplyInvariant`, `Pending` speaks of the channels that are `Apart` (no reply is
late there and no two requests were mixed): there is one reader at most, and what is
asked or on the wire, once in all, is for it. `Where` says where replies are and
where a reader looks for them.

**The window** (`GuiProofs`). `Connecting` says which buttons go with which state of
the link, and gives `ConnectInvariant` and `ReleaseInvariant`. `Dialog` says that an
open dialog holds the vehicle fast: `ClearInvariant`. `Answered` says that between
two vehicles nothing is outstanding, shown or open: `VehicleInvariant`. The step
from a failed connect to the next one is where an open dialog matters, which takes
three connections. `Cycles` says that one poll cycle goes and its list is the one
kept: `RowInvariant`. `Named`, `Polled` and `Pressed` are the types: whatever names a
connection names one that was made, what is polled and shown is made of PIDs, the
buttons are buttons, and clients are those of a connection (`Pooled`). With
`Connecting`, which says who waits for what, they give `TypeInvariant`.

**Sorting** (`SortingProofs`). A definition by `CHOOSE` says something only where what
it chooses exists. That a finite set can be put in order, and a list rearranged into
order, takes an induction over its size; it is carried out on the least
counterexample (`LeastElement`, from the well-foundedness of the naturals).
`FiniteEnumerable` and `InOrderLists` are about sets; `SortedPermutes` says that
`sorted` returns a list in order that has everything in it as often as it was.

**The wire's contents** (`Obd2WireProofs`). `MaskRoundTrip` and `TestsRoundTrip`: the
decoders undo the encoders. `NextGroupAnswers`: a mask that says there is more is
followed by an answer, so that a walk ends where the identifiers do.
`SignedRoundTrip`: a word with a signed id is read as the number written.

**The readers** (`ReadersProofs`). What a walk over the support maps returns depends
on every reply it read and on those that came late. `Known` says what it has found
before it asks for the next group: identifiers of that ECU below this group, none
twice; and that what lies unread in the buffer from this walk can only be the mask
of the group before, which that ECU has not entered yet. Where nothing was late,
`WholeTo` says that all of them were found. `GroupWalked` shows that one round keeps
both, whichever ECUs are late. `CensusInv` puts them at each stage of the harvest
and gives `AlwaysCensusRight`. `TestsInv` says of the rounds of Mode 06 what is
still to ask for and that the tests so far are what the ECU told, and gives
`AlwaysTestsRight`. For the old client, `AstrayInv` says of the reply that may come
astray that its mask is one, and that its tests are this ECU's if it is to service
06; `WalkInv` says what a walk has found where it stands, with the tests of the
monitors already asked for; `CodesInv` and `AnswerInv` speak of the other calls.
`CodesRoundTrip` is the lemma of the code lists: what the client reads out of a
list, padding left out, is the codes the ECU put into it. Together they are
`ReadersInv`, and give `AlwaysReadingsRight` and `AlwaysTypeOK`.

Only model-checked: liveness (`StopExits`, `LostIsReleased`, `Attaches`,
`StopReturns`, `CallsReturn`, `StoppedPollingEnds`, `ReadComesBack`), since TLAPS
proves neither liveness under fairness nor ENABLED; and the five disagreements,
which are counterexamples. Every invariant and every safety property of steps that
a passing run checks is a theorem.

## Running

    tlc -workers 2 -config WatcherSafety.cfg MCWatcher.tla
    tlc -workers 2 -config ChannelSafety.cfg MCJ2534Channel.tla
    tlc -workers 2 -config ToolServer.cfg MCToolServer.tla
    tlapm WatcherProofs.tla

and so on for the runs of PROJECT.json. The largest take a few minutes, a proof
module up to two.
