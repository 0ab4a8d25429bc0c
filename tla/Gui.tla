-------------------------------- MODULE Gui --------------------------------
(***************************************************************************)
(* The window of the first version (OldVer/obd2_mcp/gui.py).  Its handlers *)
(* run one at a time on the Tk thread; what they ask of the vehicle runs   *)
(* on an asyncio loop in another thread.  _wait_for ties the two together: *)
(* it looks every few ms whether a future is done and then calls back, on  *)
(* the Tk thread, whatever has happened to the window in the meantime.     *)
(*                                                                         *)
(* The requests of a connection share the threads of the loop's executor   *)
(* with its UDS clients: a client that has taken one keeps it until its    *)
(* own request has had another.                                            *)
(*                                                                         *)
(* Every press of Connect makes a transport object; they are numbered.     *)
(* Each action is a handler, a callback, or a timer; a callback chooses    *)
(* the result of its future.                                               *)
(***************************************************************************)
EXTENDS Naturals, FiniteSets, Sequences, Sorting

CONSTANTS
  Pids,         \* PIDs of the live data tab, in the order of their numbers
  Supports,     \* what each vehicle that is connected to supports
  CullAfter,    \* settings.obd_poll_cull_after
  Clients,      \* UDS clients of one Read Vehicle Info, len(ECU_DIDS)
  Workers,      \* threads of the executor, min(32, cpu_count + 4)
  MaxChains,    \* bound: poll cycles at once
  Sittings      \* bound: what the user, or the vehicle, does in one sitting: sets
                \* of buttons, with "discover" where a vehicle is there

Connections == DOMAIN Supports

ASSUME GuiAssumption ==
  /\ Pids \subseteq Nat /\ IsFiniteSet(Pids)
  /\ Supports \in Seq(SUBSET Pids)
  /\ CullAfter \in Nat
  /\ Clients \in Nat /\ Workers \in Nat \ {0}
  /\ MaxChains \in Nat
  /\ Sittings \subseteq
       SUBSET {"disconnect", "poll", "read", "clear", "panel", "info", "discover"}

VARIABLES
  sitting,   \* which one this is
  window,    \* the window is there
  made,      \* number of transport objects made
  current,   \* self._transport, _obd2, _uds, _kwp2000: all of one, or None
  link,      \* what has become of each transport
  enabled,   \* the buttons that can be pressed
  waits,     \* futures that _wait_for looks after, but for those of polls; that
             \* of the vehicle info is "info", and then "dids"
  queued,    \* UDS clients that wait for a thread
  held,      \* UDS clients that have one
  polling,   \* self._polling
  chain,     \* poll cycles: the timer, or the requests that are under way
  pollJob,   \* self._poll_job: the cycle whose timer it names
  active,    \* self._active_pids: the default, or those of a connection
  rows,      \* self._pid_rows
  polled,    \* self._last_polled_pids
  fails,     \* self._pid_fail_counts
  culled,    \* self._pid_culled
  last,      \* self._pid_last_value: the PID whose value it is, or None
  stored,    \* self._stored_dtc_codes: the connection they are of
  table,     \* the table of codes: the connections that its active and its
             \* pending ones are of
  dialog,    \* the confirmation dialog, and the connection Clear was pressed on
  sent,      \* history: clear requests sent, with what was confirmed
  left,      \* history: was there a disconnect while an answer was outstanding?
  doubled,   \* history: was polling started while a cycle was still going?
  slipped    \* history: was a button pressed before the dialog had the grab?

conn    == <<made, current, link>>
pool    == <<queued, held>>
polls   == <<polling, chain, pollJob, polled>>
values  == <<rows, fails, culled, last>>
codes   == <<stored, table>>
history == <<sent, left, doubled, slipped>>
vars    == <<sitting, pool, window, conn, enabled, waits, polls, active, values, codes, dialog, history>>

None    == 0
Chains  == 1 .. MaxChains
Reads   == {"read", "clear", "panel", "info"}
Buttons == {"connect", "disconnect", "poll"} \cup Reads
Links   == {"none", "connecting", "connected", "failed", "closing", "closed"}
Kinds   == {"connect", "discover", "vin", "stored", "pending", "clear", "panel",
            "info", "dids"}
Idle    == [at |-> "none", conn |-> None, pids |-> <<>>]

PidsOf(c) == IF c = None THEN Pids ELSE Supports[c]

Wait(what, c) == <<what, c>>

\* The main window takes input: no dialog has the grab.
Takes(b) == /\ window /\ dialog.state # "grabbed"
            /\ b \in enabled \cap (sitting \cup {"connect"})

Slips == slipped' = (slipped \/ dialog.state = "open")

Running == {k \in Chains : chain[k].at # "none"}

-----------------------------------------------------------------------------
(* Connecting.                                                             *)

\* Mutant of connect: the button stays as it is.
connect_twice ==
  /\ Takes("connect") /\ made < Len(Supports)
  /\ made' = made + 1
  /\ current' = made'
  /\ link' = [link EXCEPT ![made'] = "connecting"]
  /\ waits' = waits \cup {Wait("connect", made')}
  /\ Slips
  /\ UNCHANGED <<sitting, pool, window, enabled, polls, active, values, codes, dialog, sent, left, doubled>>

\* _connect: a new transport takes the place of the old one at once.  (One that
\* cannot be built changes nothing.)
connect ==
  /\ Takes("connect") /\ made < Len(Supports)
  /\ enabled' = enabled \ {"connect"}
  /\ made' = made + 1
  /\ current' = made'
  /\ link' = [link EXCEPT ![made'] = "connecting"]
  /\ waits' = waits \cup {Wait("connect", made')}
  /\ Slips
  /\ UNCHANGED <<sitting, pool, window, polls, active, values, codes, dialog, sent, left, doubled>>

\* The loop's side: transport.connect() has ended.
Connects(c, how) ==
  /\ link[c] = "connecting" /\ how \in {"connected", "failed"}
  /\ link' = [link EXCEPT ![c] = how]
  /\ UNCHANGED <<sitting, pool, window, made, current, enabled, waits, polls, active, values, codes, dialog, history>>

\* Its callback finds that.
on_connected(c) ==
  /\ window /\ Wait("connect", c) \in waits /\ link[c] = "connected"
  /\ enabled' = (enabled \ {"connect"}) \cup {"disconnect", "poll"} \cup Reads
  /\ waits' = (waits \ {Wait("connect", c)}) \cup {Wait("discover", current)}
  /\ UNCHANGED <<sitting, pool, window, conn, polls, active, values, codes, dialog, history>>

\* _transport and _obd2 go on naming the transport that failed.
on_connect_err(c) ==
  /\ window /\ Wait("connect", c) \in waits /\ link[c] = "failed"
  /\ enabled' = enabled \cup {"connect"}
  /\ waits' = waits \ {Wait("connect", c)}
  /\ UNCHANGED <<sitting, pool, window, conn, polls, active, values, codes, dialog, history>>

\* The discovery of connection c found PIDs, or none: no vehicle, or a failure.
\* Nobody asks whether c is still connected.
on_pids_discovered(c, found) ==
  /\ window /\ Wait("discover", c) \in waits
  /\ found => "discover" \in sitting
  /\ waits' = (waits \ {Wait("discover", c)})
                \cup (IF found /\ current # None THEN {Wait("vin", current)} ELSE {})
  /\ active' = IF found THEN c ELSE active
  /\ rows' = IF found /\ ~polling THEN Supports[c] ELSE rows
  /\ UNCHANGED <<sitting, pool, window, conn, enabled, polls, fails, culled, last, codes, dialog, history>>

\* The label of the VIN is written, or left as it is.
on_vin_detected(c) ==
  /\ window /\ Wait("vin", c) \in waits
  /\ waits' = waits \ {Wait("vin", c)}
  /\ UNCHANGED <<sitting, pool, window, conn, enabled, polls, active, values, codes, dialog, history>>

-----------------------------------------------------------------------------
(* Polling.  A cycle is a timer, then the requests, then a timer again.    *)

\* The timer that _poll_job names is taken back.  A cycle whose requests are
\* under way goes on, and so does the timer of another.
Cancel ==
  /\ chain' = IF pollJob # None /\ chain[pollJob].at = "timer"
              THEN [chain EXCEPT ![pollJob] = Idle] ELSE chain
  /\ pollJob' = None

\* What _schedule_poll asks for.
Polls == InOrder(PidsOf(active) \ culled)

\* _start_polling: the first requests are sent at once.  (The button can be
\* pressed with a connection only: ConnectFindsItsTransport.)
start_polling ==
  /\ Takes("poll") /\ ~polling
  /\ \E k \in Chains :
       /\ chain[k].at = "none" /\ \A j \in 1 .. k - 1 : chain[j].at # "none"
       /\ chain' = [chain EXCEPT ![k] = [at |-> "asked", conn |-> current, pids |-> Polls]]
  /\ polling' = TRUE
  /\ polled' = Polls
  /\ doubled' = (doubled \/ Running # {})
  /\ Slips
  /\ UNCHANGED <<sitting, pool, window, conn, enabled, waits, pollJob, active, values, codes, dialog, sent, left>>

stop_polling ==
  /\ Takes("poll") /\ polling
  /\ polling' = FALSE
  /\ Cancel
  /\ Slips
  /\ UNCHANGED <<sitting, pool, window, conn, enabled, waits, polled, active, values, codes, dialog, sent, left, doubled>>

\* Mutant of schedule_poll: the list of PIDs asked for stays as it was.
schedule_poll_keeps(k) ==
  /\ window /\ chain[k].at = "timer"
  /\ chain' = IF polling /\ current # None
              THEN [chain EXCEPT ![k] = [at |-> "asked", conn |-> current, pids |-> Polls]]
              ELSE [chain EXCEPT ![k] = Idle]
  /\ UNCHANGED <<sitting, pool, window, conn, enabled, waits, polling, polled, pollJob, active, values, codes, dialog, history>>

\* Mutant of schedule_poll: a cycle that finds polling off looks again later.
schedule_poll_later(k) ==
  /\ window /\ chain[k].at = "timer"
  /\ IF polling /\ current # None
     THEN /\ chain' = [chain EXCEPT ![k] = [at |-> "asked", conn |-> current, pids |-> Polls]]
          /\ polled' = Polls
     ELSE UNCHANGED <<chain, polled>>
  /\ UNCHANGED <<sitting, pool, window, conn, enabled, waits, polling, pollJob, active, values, codes, dialog, history>>

\* The timer of a cycle fires; with polling off or no connection, or both on
\* again, _schedule_poll goes by what is now.
schedule_poll(k) ==
  /\ window /\ chain[k].at = "timer"
  /\ IF polling /\ current # None
     THEN /\ chain' = [chain EXCEPT ![k] = [at |-> "asked", conn |-> current, pids |-> Polls]]
          /\ polled' = Polls
     ELSE chain' = [chain EXCEPT ![k] = Idle] /\ UNCHANGED polled
  /\ UNCHANGED <<sitting, pool, window, conn, enabled, waits, polling, pollJob, active, values, codes, dialog, history>>

\* After the callback of a poll: the next timer, if polling is on.
Again(k) ==
  IF polling
  THEN chain' = [chain EXCEPT ![k] = [Idle EXCEPT !.at = "timer"]] /\ pollJob' = k
  ELSE chain' = [chain EXCEPT ![k] = Idle] /\ UNCHANGED pollJob

\* The results, one for each PID asked for, are told apart by the list that was
\* asked for last, and those without a row are passed over.  good: the PIDs
\* asked for that were answered.
on_poll_result(k, good) ==
  LET asked == chain[k].pids
      At(i)   == polled[i]
      Told    == {i \in DOMAIN asked \cap DOMAIN polled : At(i) \in rows}
      Of(p)   == CHOOSE i \in Told : At(i) = p
      Heard   == {At(i) : i \in {j \in Told : asked[j] \in good}}
      Missed  == {At(i) : i \in Told} \ Heard
      Fails(p) == IF fails[p] < CullAfter THEN fails[p] + 1 ELSE fails[p]
  IN
  /\ window /\ chain[k].at = "asked"
  /\ good \subseteq {asked[i] : i \in DOMAIN asked}
  /\ last' = [p \in Pids |-> IF p \in Heard THEN asked[Of(p)] ELSE last[p]]
  /\ fails' = [p \in Pids |-> IF p \in Heard THEN 0
                              ELSE IF p \in Missed THEN Fails(p) ELSE fails[p]]
  /\ culled' = IF CullAfter = 0 THEN culled
               ELSE culled \cup {p \in Missed : fails'[p] >= CullAfter}
  /\ Again(k)
  /\ UNCHANGED <<sitting, pool, window, conn, enabled, waits, polling, active, rows, polled, codes, dialog, history>>

on_poll_error(k) ==
  /\ window /\ chain[k].at = "asked"
  /\ Again(k)
  /\ UNCHANGED <<sitting, pool, window, conn, enabled, waits, polling, polled, active, values, codes, dialog, history>>

-----------------------------------------------------------------------------
(* Trouble codes.                                                          *)

\* A button whose handler sends one request and disables the button until the
\* answer is there.  (Bound: two such requests on one connection are one.)
Press(b, what) ==
  /\ Takes(b) /\ current # None /\ Wait(what, current) \notin waits
  /\ enabled' = enabled \ {b}
  /\ waits' = waits \cup {Wait(what, current)}
  /\ Slips

read_dtcs ==
  /\ Press("read", "stored")
  /\ stored' = None
  /\ UNCHANGED <<sitting, pool, window, conn, polls, active, values, table, dialog, sent, left, doubled>>

\* Mutant of on_stored_dtcs_ready: the pending codes are not asked for.
on_stored_dtcs_ready_only(c) ==
  /\ window /\ Wait("stored", c) \in waits
  /\ stored' = c
  /\ waits' = waits \ {Wait("stored", c)}
  /\ UNCHANGED <<sitting, pool, window, conn, enabled, polls, active, values, table, dialog, history>>

\* The stored codes are there; the pending ones are asked of whatever connection
\* there is now.  Without one the callback ends in an exception.
on_stored_dtcs_ready(c) ==
  /\ window /\ Wait("stored", c) \in waits
  /\ stored' = c
  /\ waits' = (waits \ {Wait("stored", c)})
                \cup (IF current # None THEN {Wait("pending", current)} ELSE {})
  /\ UNCHANGED <<sitting, pool, window, conn, enabled, polls, active, values, table, dialog, history>>

\* The table is made anew, from the stored codes there are now.
on_pending_dtcs_ready(c) ==
  /\ window /\ Wait("pending", c) \in waits
  /\ table' = <<stored, c>>
  /\ enabled' = enabled \cup {"read"}
  /\ waits' = waits \ {Wait("pending", c)}
  /\ UNCHANGED <<sitting, pool, window, conn, polls, active, values, stored, dialog, history>>

\* Also the clear request ends here when it raises: the button that comes back
\* is the other one.
on_dtc_error(what, c) ==
  /\ window /\ what \in {"stored", "pending", "clear"} /\ Wait(what, c) \in waits
  /\ enabled' = enabled \cup {"read"}
  /\ waits' = waits \ {Wait(what, c)}
  /\ UNCHANGED <<sitting, pool, window, conn, polls, active, values, codes, dialog, history>>

\* _clear_dtcs up to the dialog, which runs the event loop inside the handler.
\* (Bound: one dialog.)
clear_dtcs ==
  /\ Takes("clear") /\ current # None /\ dialog.state = "none"
  /\ dialog' = [state |-> "open", conn |-> current]
  /\ UNCHANGED <<sitting, pool, window, conn, enabled, waits, polls, active, values, codes, history>>

\* win.after(50, win.grab_set)
Grabs ==
  /\ window /\ dialog.state = "open"
  /\ dialog' = [dialog EXCEPT !.state = "grabbed"]
  /\ UNCHANGED <<sitting, pool, window, conn, enabled, waits, polls, active, values, codes, history>>

\* Mutant of Yes: the answer is not looked at.
YesAnyway(ok) == TRUE

Yes(ok) == ok

\* Mutant of Linked: nobody looks.
LinkedAnyway == TRUE

\* if not self._obd2
Linked == current # None

\* The dialog is answered, and _clear_dtcs goes on.  It disables the button, and
\* then finds whether there is a connection.
Answers(ok) ==
  /\ window /\ dialog.state # "none"
  /\ dialog' = [state |-> "none", conn |-> None]
  /\ IF Yes(ok)
     THEN /\ enabled' = enabled \ {"clear"}
          /\ IF Linked
             THEN /\ waits' = waits \cup {Wait("clear", current)}
                  /\ sent' = sent \cup {[to |-> current, asked |-> dialog.conn, yes |-> ok]}
             ELSE UNCHANGED <<waits, sent>>
     ELSE UNCHANGED <<enabled, waits, sent>>
  /\ UNCHANGED <<sitting, pool, window, conn, polls, active, values, codes, left, doubled, slipped>>

on_dtcs_cleared(c) ==
  /\ window /\ Wait("clear", c) \in waits
  /\ enabled' = enabled \cup {"clear"}
  /\ waits' = waits \ {Wait("clear", c)}
  /\ table' = <<None, None>>
  /\ UNCHANGED <<sitting, pool, window, conn, polls, active, values, stored, dialog, history>>

-----------------------------------------------------------------------------
(* Freeze frame and monitors: a button, a request, a callback that enables *)
(* the button again.                                                       *)

read_panel ==
  /\ Press("panel", "panel")
  /\ UNCHANGED <<sitting, pool, window, conn, polls, active, values, codes, dialog, sent, left, doubled>>

on_panel(c) ==
  /\ window /\ Wait("panel", c) \in waits
  /\ enabled' = enabled \cup {"panel"}
  /\ waits' = waits \ {Wait("panel", c)}
  /\ UNCHANGED <<sitting, pool, window, conn, polls, active, values, codes, dialog, history>>

-----------------------------------------------------------------------------
(* Vehicle info: the Mode 09 requests, then all UDS clients at once.       *)

\* Every thread is with a client, and none is left for any request: for good.
Stuck == Cardinality(held) = Workers

read_info ==
  /\ Press("info", "info")
  /\ UNCHANGED <<sitting, pool, window, conn, polls, active, values, codes, dialog, sent, left, doubled>>

\* The loop's side: Mode 09 has been read, and asyncio.gather starts the clients.
Gathers(c) ==
  /\ Wait("info", c) \in waits
  /\ waits' = (waits \ {Wait("info", c)}) \cup {Wait("dids", c)}
  /\ queued' = queued \cup ({c} \X (1 .. Clients))
  /\ UNCHANGED <<sitting, held, window, conn, enabled, polls, active, values, codes, dialog, history>>

\* The next client gets a thread.  (Other requests have theirs for a limited time.)
ClientTakes(client) ==
  /\ client \in queued /\ ~Stuck
  /\ \A other \in queued : other[1] = client[1] => other[2] >= client[2]
  /\ queued' = queued \ {client} /\ held' = held \cup {client}
  /\ UNCHANGED <<sitting, window, conn, enabled, waits, polls, active, values, codes, dialog, history>>

\* Its request has had another thread, and has been answered or has timed out.
ClientEnds(client) ==
  /\ client \in held /\ ~Stuck
  /\ held' = held \ {client}
  /\ UNCHANGED <<sitting, queued, window, conn, enabled, waits, polls, active, values, codes, dialog, history>>

\* Mode 09 failed, or all clients have ended.
on_vinfo(c) ==
  /\ window
  /\ \E what \in {"info", "dids"} :
       /\ Wait(what, c) \in waits
       /\ what = "dids" => (queued \cup held) \cap ({c} \X (1 .. Clients)) = {}
       /\ waits' = waits \ {Wait(what, c)}
  /\ enabled' = enabled \cup {"info"}
  /\ UNCHANGED <<sitting, pool, window, conn, polls, active, values, codes, dialog, history>>

-----------------------------------------------------------------------------
(* The end of a connection.                                                *)

\* Mutant of Drop: the transport is forgotten before it is asked.
DropFirst == current' = None /\ UNCHANGED link

\* The device is given back on the loop; the window does not wait for it.
Drop ==
  /\ current' = None
  /\ link' = IF current # None /\ link[current] = "connected"
             THEN [link EXCEPT ![current] = "closing"] ELSE link

\* Mutant of Forget: the PIDs of the vehicle stay.
ForgetRows == rows' = Pids /\ UNCHANGED active

Forget == rows' = Pids /\ active' = None

\* _disconnect: nothing of what is under way is called off but the timer.
disconnect ==
  /\ Takes("disconnect")
  /\ polling' = FALSE
  /\ IF polling THEN Cancel ELSE UNCHANGED <<chain, pollJob>>
  /\ Drop
  /\ Forget
  /\ enabled' = {"connect"}
  /\ left' = (left \/ waits # {})
  /\ Slips
  /\ UNCHANGED <<sitting, pool, window, made, waits, polled, fails, culled, last, codes, dialog, sent, doubled>>

\* The loop's side of it.
Disconnects(c) ==
  /\ link[c] = "closing"
  /\ link' = [link EXCEPT ![c] = "closed"]
  /\ UNCHANGED <<sitting, pool, window, made, current, enabled, waits, polls, active, values, codes, dialog, history>>

\* _on_close.  Nothing is called back any more.
close ==
  /\ window /\ dialog.state # "grabbed"
  /\ window' = FALSE
  /\ polling' = FALSE
  /\ IF polling THEN Cancel ELSE UNCHANGED <<chain, pollJob>>
  /\ link' = IF current # None /\ link[current] = "connected"
             THEN [link EXCEPT ![current] = "closing"] ELSE link
  /\ UNCHANGED <<sitting, pool, made, current, enabled, waits, polled, active, values, codes, dialog, history>>

-----------------------------------------------------------------------------
Init ==
  /\ sitting \in Sittings
  /\ window = TRUE
  /\ made = 0 /\ current = None
  /\ link = [c \in Connections |-> "none"]
  /\ enabled = {"connect"}
  /\ waits = {} /\ queued = {} /\ held = {}
  /\ polling = FALSE /\ chain = [k \in Chains |-> Idle] /\ pollJob = None /\ polled = <<>>
  /\ active = None /\ rows = Pids
  /\ fails = [p \in Pids |-> 0] /\ culled = {} /\ last = [p \in Pids |-> None]
  /\ stored = None /\ table = <<None, None>>
  /\ dialog = [state |-> "none", conn |-> None]
  /\ sent = {} /\ left = FALSE /\ doubled = FALSE /\ slipped = FALSE

Presses == connect \/ disconnect \/ start_polling \/ stop_polling
             \/ read_dtcs \/ clear_dtcs \/ read_panel \/ read_info \/ close

Callback(c) ==
  \/ on_connected(c) \/ on_connect_err(c)
  \/ \E found \in BOOLEAN : on_pids_discovered(c, found)
  \/ on_vin_detected(c)
  \/ on_stored_dtcs_ready(c) \/ on_pending_dtcs_ready(c)
  \/ \E what \in {"stored", "pending", "clear"} : on_dtc_error(what, c)
  \/ on_dtcs_cleared(c) \/ on_panel(c) \/ on_vinfo(c)

PollEnds(k) == on_poll_error(k) \/ \E good \in SUBSET Pids : on_poll_result(k, good)

Poll(k) == schedule_poll(k) \/ PollEnds(k)

Loop(c) ==
  \/ Disconnects(c) \/ \E how \in {"connected", "failed"} : Connects(c, how)
  \/ Gathers(c)
  \/ \E i \in 1 .. Clients : ClientTakes(<<c, i>>) \/ ClientEnds(<<c, i>>)

Next ==
  \/ Presses
  \/ Grabs
  \/ \E ok \in BOOLEAN : Answers(ok)
  \/ \E c \in Connections : Callback(c) \/ Loop(c)
  \/ \E k \in Chains : Poll(k)

Spec == Init /\ [][Next]_vars

\* The answer to a read, or its timeout, that takes it off the list.
ReadEnds == \E c \in Connections, what \in {"stored", "pending"} :
  /\ on_dtc_error(what, c) \/ on_stored_dtcs_ready(c) \/ on_pending_dtcs_ready(c)
  /\ Wait(what, c) \notin waits'

\* Every timer fires, and every request ends as long as the clients of the vehicle
\* info leave it a thread.
Fairness ==
  /\ WF_vars(~Stuck /\ ReadEnds)
  /\ \A k \in Chains : WF_vars(schedule_poll(k)) /\ WF_vars(~Stuck /\ PollEnds(k))

LiveSpec == Spec /\ Fairness

-----------------------------------------------------------------------------
(* Properties.                                                             *)

\* Type correctness.
TypeOK ==
  /\ sitting \in Sittings
  /\ window \in BOOLEAN
  /\ made \in 0 .. Len(Supports) /\ current \in 0 .. made
  /\ link \in [Connections -> Links]
  /\ enabled \subseteq Buttons
  /\ waits \subseteq Kinds \X Connections
  /\ queued \cup held \subseteq Connections \X (1 .. Clients)
  /\ polling \in BOOLEAN /\ pollJob \in 0 .. MaxChains
  /\ \A k \in Chains : /\ chain[k].at \in {"none", "timer", "asked"}
                       /\ chain[k].conn \in 0 .. made
                       /\ chain[k].pids \in Seq(Pids)
  /\ polled \in Seq(Pids)
  /\ active \in 0 .. made /\ rows \subseteq Pids
  /\ fails \in [Pids -> 0 .. CullAfter] /\ culled \subseteq Pids
  /\ last \in [Pids -> Pids \cup {None}]
  /\ stored \in 0 .. made /\ table \in (0 .. made) \X (0 .. made)
  /\ dialog \in [state : {"none", "open", "grabbed"}, conn : 0 .. made]
  /\ sent \subseteq [to : 1 .. made, asked : 1 .. made, yes : BOOLEAN]
  /\ left \in BOOLEAN /\ doubled \in BOOLEAN /\ slipped \in BOOLEAN

\* The callback of a connect finds the transport that it is about, whatever was
\* pressed and called back meanwhile: until then neither Connect nor Disconnect
\* can be pressed.  And those that need a connection can be pressed with one only.
ConnectFindsItsTransport ==
  /\ \A c \in Connections :
       Wait("connect", c) \in waits => current = c /\ enabled \cap {"connect", "disconnect"} = {}
  /\ enabled \cap {"disconnect", "poll"} # {} => current # None /\ link[current] # "connecting"

\* A transport that the window has let go is closed or on its way there: no
\* device stays open that no button can reach.
AbandonedIsReleased ==
  window => \A c \in Connections :
    c # current => link[c] \in {"none", "failed", "closing", "closed"}

\* What stands in a row of the live data is a value of that PID, although the
\* results are matched with a list that other handlers overwrite (gui.py:971):
\* as long as polling was never started while a cycle was still going.
RowsRight == ~doubled => \A p \in Pids : last[p] \in {None, p}

\* The table shows codes of one vehicle, the PIDs polled are those of the vehicle
\* connected: as long as nobody disconnected with an answer outstanding, which
\* then is taken for one of the next vehicle, or with a dialog open.  (The stored
\* codes may be missing from the table: a clear that raises, gui.py:1138, enables
\* Read in the middle of a read, and the second one empties the list of the first.)
OneVehicle ==
  ~left /\ ~slipped =>
           /\ table[1] \in {None, table[2]}
           /\ active \in {None, current}
           /\ \A w \in waits : w[2] = current

\* The codes are cleared only after a Yes, on the vehicle that Clear was pressed
\* on, unless a button was pressed in the 50 ms before the dialog has the grab.
ClearWasConfirmed ==
  \A s \in sent : s.yes /\ (~slipped => s.to = s.asked)

\* Polling that is stopped ends: every cycle still going, also more than one, comes
\* to its end, or polling is started again; unless the clients of the vehicle info
\* have taken every thread (gui.py:1355, uds.py:78).
StoppedPollingEnds ==
  (window /\ ~polling) ~> (polling \/ ~window \/ Running = {} \/ Stuck)

\* The Read button comes back while its connection lasts, whatever answer comes, and
\* with the same exception.
ReadComesBack ==
  (window /\ Wait("stored", current) \in waits)
    ~> (~window \/ current = None \/ "read" \in enabled \/ Stuck)
=============================================================================
