----------------------------- MODULE GuiProofs -----------------------------
(***************************************************************************)
(* Theorems about Gui, for any vehicles, number of connections and poll    *)
(* cycles.                                                                 *)
(*                                                                         *)
(* A callback finds the window in whatever state other handlers left it.   *)
(* Each property is of the form "the buttons rule out that it finds the    *)
(* wrong one": Connecting says which buttons go with which state of the    *)
(* link, Dialog what an open dialog holds fast, Answered what is           *)
(* outstanding between two vehicles, and Cycles which list a poll's        *)
(* results are matched with.                                               *)
(***************************************************************************)
EXTENDS Gui, SortingProofs

\* What the proofs need of the types.
Endpoints ==
  /\ made \in 0 .. Len(Supports) /\ current \in 0 .. made
  /\ link \in [Connections -> Links]
  /\ waits \subseteq Kinds \X Connections

\* The transports, and the buttons that change them.
Connecting ==
  /\ \A c \in Connections : c > made => link[c] = "none"
  /\ \A c \in Connections : Wait("connect", c) \in waits =>
       c = current /\ enabled \cap {"connect", "disconnect", "poll"} = {}
  /\ "connect" \in enabled =>
       /\ enabled \cap {"disconnect", "poll"} = {}
       /\ current = None \/ link[current] = "failed"
  /\ enabled \cap {"disconnect", "poll"} # {} =>
       /\ current # None /\ link[current] \in {"connected", "closing", "closed"}
       /\ window => link[current] = "connected"
  /\ AbandonedIsReleased

\* The vehicle on which Clear was pressed is the one there is.
Dialog ==
  /\ dialog.state \in {"none", "open", "grabbed"}
  /\ dialog.state # "none" /\ ~slipped => dialog.conn = current
  /\ ClearWasConfirmed

\* No vehicle yet, or not any more.
Between == "connect" \in enabled \/ Wait("connect", current) \in waits

\* Nothing of one vehicle is left when there is another.
Answered ==
  ~left /\ ~slipped =>
    /\ \A w \in waits : w[2] = current
    /\ active \in {None, current}
    /\ Between => /\ active = None /\ dialog.state = "none"
                  /\ enabled \cap Reads = {} /\ waits \subseteq {Wait("connect", current)}
    /\ Wait("stored", current) \in waits \/ Wait("pending", current) \in waits
         => stored \in {None, current}
    /\ table[1] \in {None, table[2]}

\* One poll cycle goes, and the list it asked for is the one that is kept.
Cycles ==
  /\ chain = [k \in Chains |-> chain[k]]
  /\ ~doubled => /\ \A j, k \in Running : j = k
                 /\ \A k \in Chains : chain[k].at = "asked" => chain[k].pids = polled
  /\ RowsRight

USE DEF None, Wait, conn, polls, values, codes, history

-----------------------------------------------------------------------------
(* Connections.                                                            *)

\* Connections have numbers.
LEMMA Numbers == Connections = 1 .. Len(Supports) /\ Len(Supports) \in Nat
BY GuiAssumption DEF Connections

\* The handlers that leave the transports, and the buttons for them, alone.
Elsewhere ==
  /\ UNCHANGED <<window, conn>>
  /\ enabled' \cap {"connect", "disconnect", "poll"} = enabled \cap {"connect", "disconnect", "poll"}
  /\ waits' \subseteq Kinds \X Connections
  /\ \A c \in Connections : Wait("connect", c) \in waits' => Wait("connect", c) \in waits

\* The answers that have nothing to do with the transport.
Answer(c) ==
  \/ \E found \in BOOLEAN : on_pids_discovered(c, found)
  \/ on_vin_detected(c)
  \/ on_stored_dtcs_ready(c) \/ on_pending_dtcs_ready(c)
  \/ \E what \in {"stored", "pending", "clear"} : on_dtc_error(what, c)
  \/ on_dtcs_cleared(c) \/ on_panel(c) \/ on_vinfo(c)

\* What the clients do.
Client(c) == \E i \in 1 .. Clients : ClientTakes(<<c, i>>) \/ ClientEnds(<<c, i>>)

Apart ==
  \/ start_polling \/ stop_polling \/ read_dtcs \/ clear_dtcs \/ read_panel \/ read_info \/ Grabs
  \/ \E ok \in BOOLEAN : Answers(ok)
  \/ \E c \in Connections : Answer(c) \/ Gathers(c) \/ Client(c)
  \/ \E k \in Chains : Poll(k)

\* Which those are.
LEMMA ElsewhereStep ==
  ASSUME Endpoints, Apart
  PROVE  Elsewhere
<1>0. current # 0 => current \in Connections
  BY Numbers DEF Endpoints
<1>1. CASE start_polling \/ stop_polling \/ Grabs \/ clear_dtcs
  BY <1>1 DEF start_polling, stop_polling, Grabs, clear_dtcs, Elsewhere, Endpoints
<1>2. CASE read_dtcs \/ read_panel \/ read_info
  <2>1. PICK w \in {"stored", "panel", "info"} :
          current # 0 /\ waits' = waits \cup {<<w, current>>}
    BY <1>2 DEF read_dtcs, read_panel, read_info, Press
  <2>2. \E b \in {"read", "panel", "info"} : enabled' = enabled \ {b}
    BY <1>2 DEF read_dtcs, read_panel, read_info, Press
  <2>3. UNCHANGED <<window, conn>>
    BY <1>2 DEF read_dtcs, read_panel, read_info
  <2> QED BY <1>0, <2>1, <2>2, <2>3 DEF Elsewhere, Endpoints, Kinds
<1>3. ASSUME NEW b \in BOOLEAN, Answers(b) PROVE Elsewhere
  <2>1. /\ UNCHANGED <<window, conn>>
        /\ enabled' = enabled \ {"clear"} \/ enabled' = enabled
        /\ waits' = waits \/ (current # 0 /\ waits' = waits \cup {<<"clear", current>>})
    BY <1>3 DEF Answers, Linked
  <2> QED BY <1>0, <2>1 DEF Elsewhere, Endpoints, Kinds
<1>4. ASSUME NEW c \in Connections, NEW b \in BOOLEAN, on_pids_discovered(c, b) \/ on_vin_detected(c)
      PROVE  Elsewhere
  <2>1. /\ UNCHANGED <<window, conn, enabled>>
        /\ waits' \subseteq waits \cup (IF current # 0 THEN {<<"vin", current>>} ELSE {})
    BY <1>4 DEF on_pids_discovered, on_vin_detected
  <2> QED BY <1>0, <2>1 DEF Elsewhere, Endpoints, Kinds
<1>5. ASSUME NEW c \in Connections, on_stored_dtcs_ready(c) PROVE Elsewhere
  <2>1. /\ UNCHANGED <<window, conn, enabled>>
        /\ waits' \subseteq waits \cup (IF current # 0 THEN {<<"pending", current>>} ELSE {})
    BY <1>5 DEF on_stored_dtcs_ready
  <2> QED BY <1>0, <2>1 DEF Elsewhere, Endpoints, Kinds
<1>6. ASSUME NEW c \in Connections, NEW what \in {"stored", "pending", "clear"},
             on_pending_dtcs_ready(c) \/ on_dtc_error(what, c) \/ on_dtcs_cleared(c) \/ on_panel(c) \/ on_vinfo(c)
      PROVE  Elsewhere
  <2>1. /\ UNCHANGED <<window, conn>> /\ waits' \subseteq waits
        /\ \E r \in {"read", "clear", "panel", "info"} : enabled' = enabled \cup {r}
    BY <1>6 DEF on_pending_dtcs_ready, on_dtc_error, on_dtcs_cleared, on_panel, on_vinfo
  <2> QED BY <2>1 DEF Elsewhere, Endpoints
<1>7. ASSUME NEW k \in Chains, Poll(k) PROVE Elsewhere
  BY <1>7 DEF Poll, PollEnds, schedule_poll, on_poll_result, on_poll_error, Elsewhere, Endpoints
<1>8. ASSUME NEW c \in Connections, Gathers(c) \/ Client(c) PROVE Elsewhere
  <2>1. UNCHANGED <<window, conn, enabled>> /\ waits' \subseteq waits \cup {<<"dids", c>>}
    BY <1>8 DEF Gathers, Client, ClientTakes, ClientEnds
  <2> QED BY <2>1 DEF Elsewhere, Endpoints, Kinds
<1> QED BY <1>1, <1>2, <1>3, <1>4, <1>5, <1>6, <1>7, <1>8 DEF Apart, Answer

\* Every step keeps Connecting.
LEMMA ConnectingStep == Endpoints /\ Connecting /\ [Next]_vars => Endpoints' /\ Connecting'
<1> SUFFICES ASSUME Endpoints, Connecting, [Next]_vars PROVE Endpoints' /\ Connecting'
  OBVIOUS
<1>0. current # 0 => current \in Connections
  BY Numbers DEF Endpoints
<1>1. CASE Apart
  <2>1. Elsewhere
    BY <1>1, ElsewhereStep
  <2> QED BY <2>1 DEF Elsewhere, Endpoints, Connecting, AbandonedIsReleased
<1>2. CASE connect
  <2>1. /\ window /\ "connect" \in enabled /\ made < Len(Supports) /\ made' = made + 1 /\ current' = made'
        /\ link' = [link EXCEPT ![made'] = "connecting"]
        /\ enabled' = enabled \ {"connect"} /\ waits' = waits \cup {<<"connect", made'>>}
        /\ window' = window
    BY <1>2 DEF connect, Takes
  <2>2. made' \in Connections /\ made' # current
    BY <2>1, Numbers DEF Endpoints
  <2>3. link'[made'] = "connecting" /\ \A c \in Connections \ {made'} : link'[c] = link[c]
    BY <2>1, <2>2 DEF Endpoints
  <2>4. Endpoints'
    BY <2>1, <2>2, Numbers DEF Endpoints, Links, Kinds
  <2>5. \A c \in Connections : <<"connect", c>> \notin waits
    BY <2>1 DEF Connecting
  <2>6. enabled' \cap {"connect", "disconnect", "poll"} = {}
    BY <2>1 DEF Connecting
  <2>7. \A c \in Connections : c > made' => link'[c] = "none"
    BY <2>1, <2>2, <2>3, Numbers DEF Connecting, Endpoints
  <2>8. AbandonedIsReleased'
    <3>1. \A c \in Connections \ {made'} : link[c] \in {"none", "failed", "closing", "closed"}
      BY <2>1, Numbers DEF Connecting, AbandonedIsReleased
    <3> QED BY <2>1, <2>3, <3>1 DEF AbandonedIsReleased
  <2> QED BY <2>1, <2>4, <2>5, <2>6, <2>7, <2>8 DEF Connecting
<1>3. ASSUME NEW c \in Connections, NEW how, Connects(c, how) PROVE Endpoints' /\ Connecting'
  <2>1. /\ link[c] = "connecting" /\ how \in {"connected", "failed"}
        /\ link' = [link EXCEPT ![c] = how]
        /\ UNCHANGED <<window, made, current, enabled, waits>>
    BY <1>3 DEF Connects
  <2>2. link'[c] = how /\ \A d \in Connections \ {c} : link'[d] = link[d]
    BY <2>1 DEF Endpoints
  <2>3. Endpoints'
    BY <2>1 DEF Endpoints, Links
  <2> QED BY <1>0, <2>1, <2>2, <2>3 DEF Connecting, AbandonedIsReleased
<1>4. ASSUME NEW c \in Connections, on_connected(c) PROVE Endpoints' /\ Connecting'
  <2>1. /\ <<"connect", c>> \in waits /\ link[c] = "connected"
        /\ enabled' = (enabled \ {"connect"}) \cup {"disconnect", "poll"} \cup Reads
        /\ waits' = (waits \ {<<"connect", c>>}) \cup {<<"discover", current>>}
        /\ UNCHANGED <<window, made, current, link>>
    BY <1>4 DEF on_connected
  <2>2. c = current /\ c # 0
    BY <2>1, Numbers DEF Connecting
  <2>3. Endpoints'
    BY <2>1, <2>2 DEF Endpoints, Kinds
  <2>4. \A d \in Connections : <<"connect", d>> \notin waits'
    BY <2>1, <2>2 DEF Connecting
  <2>5. "connect" \notin enabled'
    BY <2>1 DEF Reads
  <2> QED BY <2>1, <2>2, <2>3, <2>4, <2>5 DEF Connecting, AbandonedIsReleased
<1>5. ASSUME NEW c \in Connections, on_connect_err(c) PROVE Endpoints' /\ Connecting'
  <2>1. /\ <<"connect", c>> \in waits /\ link[c] = "failed"
        /\ enabled' = enabled \cup {"connect"} /\ waits' = waits \ {<<"connect", c>>}
        /\ UNCHANGED <<window, made, current, link>>
    BY <1>5 DEF on_connect_err
  <2>2. c = current /\ enabled \cap {"connect", "disconnect", "poll"} = {}
    BY <2>1 DEF Connecting
  <2>3. \A d \in Connections : <<"connect", d>> \notin waits'
    BY <2>1, <2>2 DEF Connecting
  <2>4. enabled' \cap {"disconnect", "poll"} = {}
    BY <2>1, <2>2
  <2> QED BY <2>1, <2>2, <2>3, <2>4 DEF Connecting, AbandonedIsReleased, Endpoints
<1>6. CASE disconnect
  <2>1. /\ window /\ "disconnect" \in enabled /\ enabled' = {"connect"} /\ current' = 0
        /\ link' = IF current # 0 /\ link[current] = "connected"
                   THEN [link EXCEPT ![current] = "closing"] ELSE link
        /\ UNCHANGED <<window, made, waits>>
    BY <1>6 DEF disconnect, Takes, Drop
  <2>2. current # 0 /\ link[current] = "connected"
    BY <2>1 DEF Connecting
  <2>3. /\ current \in Connections /\ link' = [link EXCEPT ![current] = "closing"]
        /\ link'[current] = "closing" /\ \A d \in Connections \ {current} : link'[d] = link[d]
    BY <1>0, <2>1, <2>2 DEF Endpoints
  <2>4. Endpoints'
    BY <2>1, <2>3, Numbers DEF Endpoints, Links
  <2>5. \A d \in Connections : <<"connect", d>> \notin waits
    BY <2>1 DEF Connecting
  <2>6. \A d \in Connections : d > made => link'[d] = "none"
    BY <2>2, <2>3 DEF Connecting
  <2>7. AbandonedIsReleased'
    BY <2>1, <2>3 DEF Connecting, AbandonedIsReleased
  <2> QED BY <2>1, <2>4, <2>5, <2>6, <2>7 DEF Connecting
<1>7. ASSUME NEW c \in Connections, Disconnects(c) PROVE Endpoints' /\ Connecting'
  <2>1. /\ link[c] = "closing" /\ link' = [link EXCEPT ![c] = "closed"]
        /\ UNCHANGED <<window, made, current, enabled, waits>>
    BY <1>7 DEF Disconnects
  <2>2. link'[c] = "closed" /\ \A d \in Connections \ {c} : link'[d] = link[d]
    BY <2>1 DEF Endpoints
  <2>3. Endpoints'
    BY <2>1 DEF Endpoints, Links
  <2> QED BY <1>0, <2>1, <2>2, <2>3 DEF Connecting, AbandonedIsReleased
<1>8. CASE close
  <2>1. /\ ~window'
        /\ link' = IF current # 0 /\ link[current] = "connected"
                   THEN [link EXCEPT ![current] = "closing"] ELSE link
        /\ UNCHANGED <<made, current, enabled, waits>>
    BY <1>8 DEF close
  <2>2. CASE current # 0 /\ link[current] = "connected"
    <3>1. /\ current \in Connections /\ link' = [link EXCEPT ![current] = "closing"]
          /\ link'[current] = "closing" /\ \A d \in Connections \ {current} : link'[d] = link[d]
      BY <1>0, <2>1, <2>2 DEF Endpoints
    <3>2. Endpoints'
      BY <2>1, <3>1 DEF Endpoints, Links
    <3> QED BY <2>1, <2>2, <3>1, <3>2 DEF Connecting, AbandonedIsReleased
  <2>3. CASE ~(current # 0 /\ link[current] = "connected")
    BY <2>1, <2>3 DEF Endpoints, Connecting, AbandonedIsReleased
  <2> QED BY <2>2, <2>3
<1>9. CASE UNCHANGED vars
  BY <1>9 DEF vars, Endpoints, Connecting, AbandonedIsReleased
<1> QED BY <1>1, <1>2, <1>3, <1>4, <1>5, <1>6, <1>7, <1>8, <1>9
        DEF Next, Presses, Callback, Loop, Apart, Answer, Client

\* At first there is nothing.
LEMMA ConnectingInit == Init => Endpoints /\ Connecting
BY Numbers DEF Init, Endpoints, Connecting, AbandonedIsReleased, Links

\* ConnectFindsItsTransport: no handler takes the transport away from under the
\* callback of its connect.
THEOREM ConnectInvariant == Spec => []ConnectFindsItsTransport
<1>1. Endpoints /\ Connecting => ConnectFindsItsTransport
  BY DEF Connecting, ConnectFindsItsTransport
<1> QED BY <1>1, ConnectingInit, ConnectingStep, PTL DEF Spec

\* AbandonedIsReleased: the transport that the window knows is the only one open.
THEOREM ReleaseInvariant == Spec => []AbandonedIsReleased
<1>1. Endpoints /\ Connecting => AbandonedIsReleased
  BY DEF Connecting
<1> QED BY <1>1, ConnectingInit, ConnectingStep, PTL DEF Spec

-----------------------------------------------------------------------------
(* The dialog.                                                             *)

\* Every step keeps Dialog.
LEMMA DialogStep == Dialog /\ [Next]_vars => Dialog'
<1> SUFFICES ASSUME Dialog, [Next]_vars PROVE Dialog'
  OBVIOUS
<1>1. CASE connect \/ disconnect
  <2>1. /\ dialog.state # "grabbed" /\ slipped' = (slipped \/ dialog.state = "open")
        /\ UNCHANGED <<dialog, sent>>
    BY <1>1 DEF connect, disconnect, Takes, Slips
  <2>2. dialog.state # "none" /\ ~slipped' => dialog.state \notin {"open", "grabbed"}
    BY <2>1
  <2>3. dialog.state \in {"none", "open", "grabbed"}
    BY DEF Dialog
  <2> QED BY <2>1, <2>2, <2>3 DEF Dialog, ClearWasConfirmed
<1>2. CASE start_polling \/ stop_polling \/ read_dtcs \/ read_panel \/ read_info
  <2>1. (slipped => slipped') /\ UNCHANGED <<dialog, sent, current>>
    BY <1>2 DEF start_polling, stop_polling, read_dtcs, read_panel, read_info, Press, Slips
  <2> QED BY <2>1 DEF Dialog, ClearWasConfirmed
<1>3. CASE clear_dtcs
  BY <1>3 DEF clear_dtcs, Dialog, ClearWasConfirmed
<1>4. CASE Grabs
  BY <1>4 DEF Grabs, Dialog, ClearWasConfirmed
<1>5. ASSUME NEW ok \in BOOLEAN, Answers(ok) PROVE Dialog'
  <2>1. /\ dialog.state # "none" /\ dialog' = [state |-> "none", conn |-> 0]
        /\ UNCHANGED <<current, slipped>>
        /\ \/ UNCHANGED sent
           \/ ok /\ sent' = sent \cup {[to |-> current, asked |-> dialog.conn, yes |-> ok]}
    BY <1>5 DEF Answers, Yes
  <2> QED BY <2>1 DEF Dialog, ClearWasConfirmed
<1>6. ASSUME NEW c \in Connections, Callback(c) \/ Loop(c) PROVE Dialog'
  <2>1. UNCHANGED <<dialog, sent, slipped, current>>
    BY <1>6 DEF Callback, Loop, on_connected, on_connect_err, on_pids_discovered, on_vin_detected,
         on_stored_dtcs_ready, on_pending_dtcs_ready, on_dtc_error, on_dtcs_cleared, on_panel, on_vinfo,
         Connects, Disconnects, Gathers, ClientTakes, ClientEnds
  <2> QED BY <2>1 DEF Dialog, ClearWasConfirmed
<1>7. ASSUME NEW k \in Chains, Poll(k) PROVE Dialog'
  BY <1>7 DEF Poll, PollEnds, schedule_poll, on_poll_result, on_poll_error, Dialog, ClearWasConfirmed
<1>8. CASE close
  BY <1>8 DEF close, Dialog, ClearWasConfirmed
<1>9. CASE UNCHANGED vars
  BY <1>9 DEF vars, Dialog, ClearWasConfirmed
<1> QED BY <1>1, <1>2, <1>3, <1>4, <1>5, <1>6, <1>7, <1>8, <1>9 DEF Next, Presses

\* ClearWasConfirmed: no code is cleared without a Yes, nor on another vehicle.
THEOREM ClearInvariant == Spec => []ClearWasConfirmed
<1>1. Init => Dialog
  BY DEF Init, Dialog, ClearWasConfirmed
<1>2. Dialog => ClearWasConfirmed
  BY DEF Dialog
<1> QED BY <1>1, <1>2, DialogStep, PTL DEF Spec

-----------------------------------------------------------------------------
(* Poll cycles.                                                            *)

\* Every step keeps Cycles.
LEMMA CyclesStep == Cycles /\ [Next]_vars => Cycles'
<1> SUFFICES ASSUME Cycles, [Next]_vars PROVE Cycles'
  OBVIOUS
<1>1. CASE start_polling
  <2>1. PICK k \in Chains :
          chain' = [chain EXCEPT ![k] = [at |-> "asked", conn |-> current, pids |-> Polls]]
    BY <1>1 DEF start_polling
  <2>2. /\ polled' = Polls /\ UNCHANGED last /\ doubled' = (doubled \/ Running # {})
    BY <1>1 DEF start_polling
  <2>3. /\ chain' = [j \in Chains |-> chain'[j]]
        /\ chain'[k] = [at |-> "asked", conn |-> current, pids |-> Polls]
        /\ \A j \in Chains \ {k} : chain'[j] = chain[j]
    BY <2>1 DEF Cycles
  <2>4. ~doubled' => ~doubled /\ \A j \in Chains : chain[j].at = "none"
    BY <2>2 DEF Running
  <2>5. ~doubled' => \A i, j \in Running' : i = j
    BY <2>3, <2>4 DEF Running
  <2>6. ~doubled' => \A j \in Chains : chain'[j].at = "asked" => chain'[j].pids = polled'
    BY <2>2, <2>3, <2>4
  <2>7. RowsRight'
    BY <2>2, <2>4 DEF Cycles, RowsRight
  <2> QED BY <2>3, <2>5, <2>6, <2>7 DEF Cycles
<1>2. ASSUME Cancel \/ UNCHANGED <<chain, pollJob>>, UNCHANGED <<polled, doubled, last>>
      PROVE  Cycles'
  <2>1. chain' = [j \in Chains |-> chain'[j]] /\ \A j \in Chains : chain'[j] \in {chain[j], Idle}
    <3>1. CASE chain' = chain
      BY <3>1 DEF Cycles
    <3>2. CASE chain' = [chain EXCEPT ![pollJob] = Idle]
      BY <3>2 DEF Cycles
    <3> QED BY <1>2, <3>1, <3>2 DEF Cancel
  <2>2. Idle.at = "none"
    BY DEF Idle
  <2> QED BY <1>2, <2>1, <2>2 DEF Cycles, Running, RowsRight
<1>3. CASE stop_polling \/ disconnect \/ close
  BY <1>2, <1>3 DEF stop_polling, disconnect, close
<1>4. ASSUME NEW k \in Chains, Poll(k) PROVE Cycles'
  <2>1. PICK c : chain' = [chain EXCEPT ![k] = c]
    BY <1>4 DEF Poll, PollEnds, schedule_poll, on_poll_result, on_poll_error, Again
  <2>2. /\ chain' = [j \in Chains |-> chain'[j]] /\ chain'[k] = c
        /\ \A j \in Chains \ {k} : chain'[j] = chain[j]
    BY <2>1 DEF Cycles
  <2>3. k \in Running /\ doubled' = doubled
    BY <1>4 DEF Poll, PollEnds, schedule_poll, on_poll_result, on_poll_error, Running
  <2>4. ~doubled => \A j \in Chains \ {k} : chain'[j].at = "none"
    BY <2>2, <2>3 DEF Cycles, Running
  <2>5. ~doubled /\ chain'[k].at = "asked" => chain'[k].pids = polled'
    <3>1. CASE schedule_poll(k)
      BY <2>2, <3>1 DEF schedule_poll, Cycles, Idle
    <3>2. CASE \E good \in SUBSET Pids : on_poll_result(k, good)
      BY <2>2, <3>2 DEF on_poll_result, Again, Cycles, Idle
    <3>3. CASE on_poll_error(k)
      BY <2>2, <3>3 DEF on_poll_error, Again, Cycles, Idle
    <3> QED BY <1>4, <3>1, <3>2, <3>3 DEF Poll, PollEnds
  <2>6. ~doubled => \A p \in Pids : last'[p] \in {0, p}
    <3>1. CASE UNCHANGED last
      BY <3>1 DEF Cycles, RowsRight
    <3>2. ASSUME NEW good \in SUBSET Pids, on_poll_result(k, good), ~doubled
          PROVE  \A p \in Pids : last'[p] \in {0, p}
      <4> DEFINE asked == chain[k].pids
                 Told  == {i \in DOMAIN asked \cap DOMAIN polled : polled[i] \in rows}
                 Of(p) == CHOOSE i \in Told : polled[i] = p
                 Heard == {polled[i] : i \in {j \in Told : asked[j] \in good}}
      <4>1. asked = polled
        BY <3>2 DEF on_poll_result, Cycles
      <4>2. last' = [p \in Pids |-> IF p \in Heard THEN asked[Of(p)] ELSE last[p]]
        BY <3>2 DEF on_poll_result
      <4>3. \A p \in Heard : polled[Of(p)] = p
        OBVIOUS
      <4>4. \A p \in Pids : last[p] \in {0, p}
        BY <3>2 DEF Cycles, RowsRight
      <4> HIDE DEF asked, Heard, Of
      <4> QED BY <4>1, <4>2, <4>3, <4>4
    <3> QED BY <1>4, <3>1, <3>2 DEF Poll, PollEnds, schedule_poll, on_poll_error
  <2>7. ~doubled => \A i, j \in Running' : i = j
    BY <2>4 DEF Running
  <2> QED BY <2>2, <2>3, <2>4, <2>5, <2>6, <2>7 DEF Cycles, RowsRight
<1>5. CASE connect \/ read_dtcs \/ clear_dtcs \/ read_panel \/ read_info \/ Grabs
  BY <1>2, <1>5 DEF connect, read_dtcs, clear_dtcs, read_panel, read_info, Grabs
<1>6. ASSUME NEW ok \in BOOLEAN, Answers(ok) PROVE Cycles'
  BY <1>2, <1>6 DEF Answers
<1>7. ASSUME NEW c \in Connections, Callback(c) \/ Loop(c) PROVE Cycles'
  <2>1. UNCHANGED <<chain, pollJob, polled, doubled, last>>
    BY <1>7 DEF Callback, Loop, on_connected, on_connect_err, on_pids_discovered, on_vin_detected,
         on_stored_dtcs_ready, on_pending_dtcs_ready, on_dtc_error, on_dtcs_cleared, on_panel, on_vinfo,
         Connects, Disconnects, Gathers, ClientTakes, ClientEnds
  <2> QED BY <1>2, <2>1
<1>8. CASE UNCHANGED vars
  BY <1>2, <1>8 DEF vars
<1> QED BY <1>1, <1>3, <1>4, <1>5, <1>6, <1>7, <1>8 DEF Next, Presses

\* RowsRight: a row shows a value of its PID.
THEOREM RowInvariant == Spec => []RowsRight
<1>1. Init => Cycles
  BY DEF Init, Cycles, Running, Idle, RowsRight
<1>2. Cycles => RowsRight
  BY DEF Cycles
<1> QED BY <1>1, <1>2, CyclesStep, PTL DEF Spec

-----------------------------------------------------------------------------
(* One vehicle after another.                                              *)

\* Every step keeps Answered.
LEMMA AnsweredStep == Endpoints /\ Connecting /\ Dialog /\ Answered /\ [Next]_vars => Answered'
<1> SUFFICES ASSUME Endpoints, Connecting, Dialog, Answered, [Next]_vars, ~left', ~slipped'
             PROVE  Answered'
  BY DEF Answered
<1>0. current # 0 => current \in Connections
  BY Numbers DEF Endpoints
<1>a. "connect" \in enabled => Wait("connect", current) \notin waits
  <2> SUFFICES ASSUME "connect" \in enabled, Wait("connect", current) \in waits PROVE FALSE
    OBVIOUS
  <2>1. current \in Connections
    BY DEF Endpoints
  <2> QED BY <2>1 DEF Connecting
<1>1. CASE connect
  <2>1. /\ "connect" \in enabled /\ current' = made'
        /\ enabled' = enabled \ {"connect"} /\ waits' = waits \cup {<<"connect", made'>>}
        /\ Slips /\ left' = left
        /\ UNCHANGED <<active, dialog, stored, table>>
    BY <1>1 DEF connect, Takes
  <2>2. ~left /\ ~slipped
    BY <2>1 DEF Slips
  <2>3. /\ waits = {} /\ active = 0 /\ dialog.state = "none" /\ enabled \cap Reads = {}
        /\ table[1] \in {0, table[2]}
    BY <1>a, <2>1, <2>2 DEF Answered, Between
  <2> QED BY <2>1, <2>3 DEF Answered
<1>2. CASE disconnect
  <2>1. /\ enabled' = {"connect"} /\ current' = 0 /\ active' = 0
        /\ dialog.state # "grabbed" /\ Slips /\ left' = (left \/ waits # {})
        /\ UNCHANGED <<waits, dialog, table>>
    BY <1>2 DEF disconnect, Takes, Drop, Forget
  <2>2. ~left /\ ~slipped /\ waits = {} /\ dialog.state = "none"
    BY <2>1 DEF Slips, Dialog
  <2> QED BY <2>1, <2>2 DEF Answered, Reads
<1>3. CASE start_polling \/ stop_polling
  <2>1. Slips /\ UNCHANGED <<left, waits, current, active, enabled, dialog, stored, table>>
    BY <1>3 DEF start_polling, stop_polling
  <2> QED BY <2>1 DEF Slips, Answered, Between
<1>4. ASSUME NEW b \in Reads, NEW w \in {"stored", "panel", "info"}, Press(b, w), ~left, ~slipped
      PROVE  /\ ~Between /\ (current' = current => ~Between')
             /\ waits' = waits \cup {<<w, current>>}
  <2>1. b \in enabled /\ enabled' = enabled \ {b} /\ waits' = waits \cup {<<w, current>>}
    BY <1>4 DEF Press, Takes
  <2>2. ~Between
    BY <1>4, <2>1 DEF Answered
  <2> QED BY <2>1, <2>2 DEF Between
<1>5. CASE read_dtcs
  <2>1. /\ Press("read", "stored") /\ Slips /\ stored' = 0
        /\ UNCHANGED <<current, active, dialog, table, left>>
    BY <1>5 DEF read_dtcs, Press
  <2>2. ~left /\ ~slipped
    BY <2>1 DEF Slips
  <2>3. ~Between /\ ~Between' /\ waits' = waits \cup {<<"stored", current>>}
    BY <1>4, <2>1, <2>2 DEF Reads
  <2> QED BY <2>1, <2>2, <2>3 DEF Answered
<1>6. CASE read_panel
  <2>1. /\ Press("panel", "panel") /\ Slips
        /\ UNCHANGED <<current, active, dialog, table, stored, left>>
    BY <1>6 DEF read_panel, Press
  <2>2. ~left /\ ~slipped
    BY <2>1 DEF Slips
  <2>3. ~Between /\ ~Between' /\ waits' = waits \cup {<<"panel", current>>}
    BY <1>4, <2>1, <2>2 DEF Reads
  <2> QED BY <2>1, <2>2, <2>3 DEF Answered
<1>b. CASE read_info
  <2>1. /\ Press("info", "info") /\ Slips
        /\ UNCHANGED <<current, active, dialog, table, stored, left>>
    BY <1>b DEF read_info, Press
  <2>2. ~left /\ ~slipped
    BY <2>1 DEF Slips
  <2>3. ~Between /\ ~Between' /\ waits' = waits \cup {<<"info", current>>}
    BY <1>4, <2>1, <2>2 DEF Reads
  <2> QED BY <2>1, <2>2, <2>3 DEF Answered
<1>7. CASE clear_dtcs
  <2>1. /\ "clear" \in enabled /\ UNCHANGED <<enabled, waits, current, active, table, stored, left, slipped>>
    BY <1>7 DEF clear_dtcs, Takes
  <2>2. ~Between /\ ~Between'
    BY <2>1 DEF Answered, Between, Reads
  <2> QED BY <2>1, <2>2 DEF Answered
<1>8. CASE Grabs
  <2>1. /\ dialog.state = "open" /\ UNCHANGED <<enabled, waits, current, active, table, stored, left, slipped>>
    BY <1>8 DEF Grabs
  <2>2. ~Between /\ ~Between'
    BY <2>1 DEF Answered, Between
  <2> QED BY <2>1, <2>2 DEF Answered
<1>9. ASSUME NEW ok \in BOOLEAN, Answers(ok) PROVE Answered'
  <2>1. /\ dialog.state # "none" /\ UNCHANGED <<current, active, table, stored, left, slipped>>
        /\ enabled' \subseteq enabled /\ waits' \subseteq waits \cup {<<"clear", current>>}
    BY <1>9 DEF Answers
  <2>2. ~Between /\ ~Between'
    BY <2>1 DEF Answered, Between
  <2> QED BY <2>1, <2>2 DEF Answered
<1>10. ASSUME NEW c \in Connections, on_connected(c) PROVE Answered'
  <2>1. /\ <<"connect", c>> \in waits
        /\ enabled' = (enabled \ {"connect"}) \cup {"disconnect", "poll"} \cup Reads
        /\ waits' = (waits \ {<<"connect", c>>}) \cup {<<"discover", current>>}
        /\ UNCHANGED <<current, active, table, stored, dialog, left, slipped>>
    BY <1>10 DEF on_connected
  <2>2. c = current
    BY <2>1 DEF Connecting
  <2>3. ~Between'
    BY <2>1, <2>2 DEF Between, Reads
  <2> QED BY <2>1, <2>3 DEF Answered
<1>11. ASSUME NEW c \in Connections, on_connect_err(c) PROVE Answered'
  <2>1. /\ <<"connect", c>> \in waits /\ enabled' = enabled \cup {"connect"}
        /\ waits' = waits \ {<<"connect", c>>}
        /\ UNCHANGED <<current, active, table, stored, dialog, left, slipped>>
    BY <1>11 DEF on_connect_err
  <2>2. c = current
    BY <2>1 DEF Connecting
  <2>3. Between
    BY <2>1, <2>2 DEF Between
  <2>4. "connect" \notin Reads
    BY DEF Reads
  <2> QED BY <2>1, <2>3, <2>4 DEF Answered
<1>12. ASSUME NEW c \in Connections, Answer(c) PROVE Answered'
  <2>1. PICK w \in {"discover", "vin", "stored", "pending", "clear", "panel", "info", "dids"} :
          <<w, c>> \in waits
    BY <1>12 DEF Answer, on_pids_discovered, on_vin_detected, on_stored_dtcs_ready,
         on_pending_dtcs_ready, on_dtc_error, on_dtcs_cleared, on_panel, on_vinfo
  <2>2. UNCHANGED <<current, dialog, left, slipped>>
    BY <1>12 DEF Answer, on_pids_discovered, on_vin_detected, on_stored_dtcs_ready,
         on_pending_dtcs_ready, on_dtc_error, on_dtcs_cleared, on_panel, on_vinfo
  <2>3. c = current /\ ~Between
    BY <2>1, <2>2 DEF Answered
  <2>4. ~Between'
    <3>1. \/ enabled' = enabled
          \/ \E r \in Reads : enabled' = enabled \cup {r}
      BY <1>12 DEF Answer, on_pids_discovered, on_vin_detected, on_stored_dtcs_ready,
           on_pending_dtcs_ready, on_dtc_error, on_dtcs_cleared, on_panel, on_vinfo, Reads
    <3>2. waits' \subseteq waits \cup {<<"vin", current>>, <<"pending", current>>}
      BY <1>12 DEF Answer, on_pids_discovered, on_vin_detected, on_stored_dtcs_ready,
           on_pending_dtcs_ready, on_dtc_error, on_dtcs_cleared, on_panel, on_vinfo
    <3> QED BY <2>2, <2>3, <3>1, <3>2 DEF Between, Reads
  <2>5. \A w1 \in waits' : w1[2] = current
    <3>1. waits' \subseteq waits \cup {<<"vin", current>>, <<"pending", current>>}
      BY <1>12 DEF Answer, on_pids_discovered, on_vin_detected, on_stored_dtcs_ready,
           on_pending_dtcs_ready, on_dtc_error, on_dtcs_cleared, on_panel, on_vinfo
    <3> QED BY <2>2, <3>1 DEF Answered
  <2>6. active' \in {0, current}
    <3>1. active' \in {c, active}
      BY <1>12 DEF Answer, on_pids_discovered, on_vin_detected, on_stored_dtcs_ready,
           on_pending_dtcs_ready, on_dtc_error, on_dtcs_cleared, on_panel, on_vinfo
    <3> QED BY <2>2, <2>3, <3>1 DEF Answered
  <2>7. /\ <<"stored", current>> \in waits' \/ <<"pending", current>> \in waits'
             => stored' \in {0, current}
        /\ table'[1] \in {0, table'[2]}
    <3>1. CASE on_stored_dtcs_ready(c)
      BY <2>2, <2>3, <3>1 DEF on_stored_dtcs_ready, Answered
    <3>2. CASE on_pending_dtcs_ready(c)
      BY <2>2, <2>3, <3>2 DEF on_pending_dtcs_ready, Answered
    <3>3. CASE on_dtcs_cleared(c)
      BY <2>2, <2>3, <3>3 DEF on_dtcs_cleared, Answered
    <3>4. CASE \/ \E found \in BOOLEAN : on_pids_discovered(c, found)
               \/ on_vin_detected(c) \/ on_panel(c) \/ on_vinfo(c)
               \/ \E what \in {"stored", "pending", "clear"} : on_dtc_error(what, c)
      <4>1. UNCHANGED <<stored, table>> /\ waits' \subseteq waits \cup {<<"vin", current>>}
        BY <3>4 DEF on_pids_discovered, on_vin_detected, on_dtc_error, on_panel, on_vinfo
      <4> QED BY <2>2, <4>1 DEF Answered
    <3> QED BY <1>12, <3>1, <3>2, <3>3, <3>4 DEF Answer
  <2> QED BY <2>2, <2>4, <2>5, <2>6, <2>7 DEF Answered
<1>13. ASSUME UNCHANGED <<current, enabled, waits, active, table, stored, dialog, left, slipped>>
       PROVE  Answered'
  BY <1>13 DEF Answered, Between
<1>14. ASSUME NEW c \in Connections, Loop(c) PROVE Answered'
  <2>1. CASE Gathers(c)
    <3>1. /\ <<"info", c>> \in waits /\ waits' = (waits \ {<<"info", c>>}) \cup {<<"dids", c>>}
          /\ UNCHANGED <<current, enabled, active, table, stored, dialog, left, slipped>>
      BY <2>1 DEF Gathers
    <3>2. c = current /\ ~Between
      BY <3>1 DEF Answered
    <3>3. ~Between'
      BY <3>1, <3>2 DEF Between
    <3> QED BY <3>1, <3>2, <3>3 DEF Answered
  <2>2. CASE ~Gathers(c)
    BY <1>13, <1>14, <2>2 DEF Loop, Connects, Disconnects, ClientTakes, ClientEnds
  <2> QED BY <2>1, <2>2
<1>15. ASSUME NEW k \in Chains, Poll(k) PROVE Answered'
  BY <1>13, <1>15 DEF Poll, PollEnds, schedule_poll, on_poll_result, on_poll_error
<1>16. CASE close
  BY <1>13, <1>16 DEF close
<1>17. CASE UNCHANGED vars
  BY <1>13, <1>17 DEF vars
<1> QED BY <1>1, <1>2, <1>3, <1>5, <1>6, <1>7, <1>8, <1>9, <1>10, <1>11, <1>12, <1>14, <1>15,
           <1>16, <1>17, <1>b DEF Next, Presses, Callback, Answer

\* OneVehicle: what an answer changes is of the vehicle that there is.
THEOREM VehicleInvariant == Spec => []OneVehicle
<1>1. Init => Dialog /\ Answered
  BY DEF Init, Dialog, ClearWasConfirmed, Answered, Between, Reads
<1>2. Answered => OneVehicle
  BY DEF Answered, OneVehicle
<1> QED BY <1>1, <1>2, ConnectingInit, ConnectingStep, DialogStep, AnsweredStep, PTL DEF Spec

-----------------------------------------------------------------------------
(* Types.                                                                  *)

\* A poll cycle.
Cycle == [at : {"none", "timer", "asked"}, conn : 0 .. made, pids : Seq(Pids)]

\* Whatever names a connection names one that was made; who waits, or is asked to
\* confirm, one that is not None.
Named ==
  /\ made \in 0 .. Len(Supports) /\ current \in 0 .. made
  /\ waits \subseteq Kinds \X (1 .. made)
  /\ active \in 0 .. made /\ stored \in 0 .. made /\ table \in (0 .. made) \X (0 .. made)
  /\ dialog \in [state : {"none", "open", "grabbed"}, conn : 0 .. made]
  /\ dialog.state # "none" => dialog.conn # None
  /\ sent \subseteq [to : 1 .. made, asked : 1 .. made, yes : BOOLEAN]

\* What is polled and what is shown.
Polled ==
  /\ chain \in [Chains -> Cycle] /\ pollJob \in 0 .. MaxChains /\ polled \in Seq(Pids)
  /\ rows \subseteq Pids /\ culled \subseteq Pids
  /\ fails \in [Pids -> 0 .. CullAfter] /\ last \in [Pids -> Pids \cup {None}]

\* The rest.
Pressed ==
  /\ sitting \in Sittings /\ window \in BOOLEAN /\ enabled \subseteq Buttons /\ polling \in BOOLEAN
  /\ left \in BOOLEAN /\ doubled \in BOOLEAN /\ slipped \in BOOLEAN

\* The clients.
Pooled == queued \cup held \subseteq Connections \X (1 .. Clients)

\* Every step keeps Named.
LEMMA NamedStep == Connecting /\ Named /\ [Next]_vars => Named'
<1> SUFFICES ASSUME Connecting, Named, [Next]_vars PROVE Named'
  OBVIOUS
<1>0. made \in Nat /\ current \in 0 .. made /\ Len(Supports) \in Nat /\ (current # 0 => current \in 1 .. made)
  BY Numbers DEF Named
<1>1. CASE connect
  <2>1. /\ made < Len(Supports) /\ made' = made + 1 /\ current' = made'
        /\ waits' = waits \cup {<<"connect", made'>>}
        /\ UNCHANGED <<active, stored, table, dialog, sent>>
    BY <1>1 DEF connect
  <2>2. 0 .. made \subseteq 0 .. made' /\ 1 .. made \subseteq 1 .. made' /\ made' \in 1 .. made'
    BY <1>0, <2>1
  <2>3. waits' \subseteq Kinds \X (1 .. made')
    BY <2>1, <2>2 DEF Named, Kinds
  <2>4. dialog \in [state : {"none", "open", "grabbed"}, conn : 0 .. made']
    BY <2>2 DEF Named
  <2>5. sent \subseteq [to : 1 .. made', asked : 1 .. made', yes : BOOLEAN]
    BY <2>2 DEF Named
  <2>6. made' \in 0 .. Len(Supports)
    BY <1>0, <2>1
  <2> QED BY <2>1, <2>2, <2>3, <2>4, <2>5, <2>6 DEF Named
<1>2. CASE disconnect
  BY <1>0, <1>2 DEF disconnect, Drop, Forget, Named
<1>3. CASE start_polling \/ stop_polling \/ close \/ UNCHANGED vars
  BY <1>3 DEF start_polling, stop_polling, close, vars, Named
<1>4. CASE read_dtcs \/ read_panel \/ read_info
  <2>1. PICK w \in {"stored", "panel", "info"} : current # 0 /\ waits' = waits \cup {<<w, current>>}
    BY <1>4 DEF read_dtcs, read_panel, read_info, Press
  <2>2. stored' \in {0, stored} /\ UNCHANGED <<made, current, active, table, dialog, sent>>
    BY <1>4 DEF read_dtcs, read_panel, read_info
  <2>3. waits' \subseteq Kinds \X (1 .. made)
    BY <1>0, <2>1 DEF Named, Kinds
  <2> QED BY <1>0, <2>2, <2>3 DEF Named
<1>5. CASE clear_dtcs
  BY <1>5 DEF clear_dtcs, Named
<1>6. CASE Grabs
  <2>1. dialog.conn # 0 /\ dialog' = [dialog EXCEPT !.state = "grabbed"]
        /\ UNCHANGED <<made, current, waits, active, stored, table, sent>>
    BY <1>6 DEF Grabs, Named
  <2> QED BY <2>1 DEF Named
<1>7. ASSUME NEW ok \in BOOLEAN, Answers(ok) PROVE Named'
  <2>1. /\ dialog' = [state |-> "none", conn |-> 0]
        /\ UNCHANGED <<made, current, active, stored, table>>
        /\ \/ UNCHANGED <<waits, sent>>
           \/ /\ current # 0 /\ waits' = waits \cup {<<"clear", current>>}
              /\ sent' = sent \cup {[to |-> current, asked |-> dialog.conn, yes |-> ok]}
    BY <1>7 DEF Answers, Linked
  <2>2. dialog.conn \in 1 .. made
    BY <1>0, <1>7 DEF Answers, Named
  <2>3. waits' \subseteq Kinds \X (1 .. made)
    BY <1>0, <2>1 DEF Named, Kinds
  <2>4. sent' \subseteq [to : 1 .. made, asked : 1 .. made, yes : BOOLEAN]
    BY <1>0, <2>1, <2>2 DEF Named
  <2>5. dialog' \in [state : {"none", "open", "grabbed"}, conn : 0 .. made] /\ dialog'.state = "none"
    BY <1>0, <2>1
  <2> QED BY <2>1, <2>3, <2>4, <2>5 DEF Named
<1>8. ASSUME NEW c \in Connections, Callback(c) PROVE Named'
  <2>1. PICK w \in Kinds : <<w, c>> \in waits
    BY <1>8 DEF Callback, on_connected, on_connect_err, on_pids_discovered, on_vin_detected,
         on_stored_dtcs_ready, on_pending_dtcs_ready, on_dtc_error, on_dtcs_cleared, on_panel, on_vinfo, Kinds
  <2>2. c \in 1 .. made
    BY <2>1 DEF Named
  <2>3. UNCHANGED <<made, current, dialog, sent>>
    BY <1>8 DEF Callback, on_connected, on_connect_err, on_pids_discovered, on_vin_detected,
         on_stored_dtcs_ready, on_pending_dtcs_ready, on_dtc_error, on_dtcs_cleared, on_panel, on_vinfo
  <2>4. active' \in {c, active} /\ stored' \in {c, stored}
        /\ table' \in {table, <<stored, c>>, <<0, 0>>}
    BY <1>8 DEF Callback, on_connected, on_connect_err, on_pids_discovered, on_vin_detected,
         on_stored_dtcs_ready, on_pending_dtcs_ready, on_dtc_error, on_dtcs_cleared, on_panel, on_vinfo
  <2>5. waits' \subseteq waits \cup (Kinds \X ({current} \ {0}))
    <3>1. CASE on_connected(c)
      <4>1. current = c /\ c # 0
        BY <1>0, <2>2, <3>1 DEF on_connected, Connecting
      <4> QED BY <3>1, <4>1 DEF on_connected, Kinds
    <3>2. CASE \E found \in BOOLEAN : on_pids_discovered(c, found)
      BY <3>2 DEF on_pids_discovered, Kinds
    <3>3. CASE on_stored_dtcs_ready(c)
      BY <3>3 DEF on_stored_dtcs_ready, Kinds
    <3>4. CASE \/ on_connect_err(c) \/ on_vin_detected(c) \/ on_pending_dtcs_ready(c)
               \/ \E what \in {"stored", "pending", "clear"} : on_dtc_error(what, c)
               \/ on_dtcs_cleared(c) \/ on_panel(c) \/ on_vinfo(c)
      BY <3>4 DEF on_connect_err, on_vin_detected, on_pending_dtcs_ready, on_dtc_error,
           on_dtcs_cleared, on_panel, on_vinfo
    <3> QED BY <1>8, <3>1, <3>2, <3>3, <3>4 DEF Callback
  <2>6. waits' \subseteq Kinds \X (1 .. made)
    BY <1>0, <2>5 DEF Named
  <2>7. table' \in (0 .. made) \X (0 .. made)
    BY <1>0, <2>2, <2>4 DEF Named
  <2> QED BY <2>2, <2>3, <2>4, <2>6, <2>7 DEF Named
<1>9. ASSUME NEW c \in Connections, Loop(c) PROVE Named'
  <2>1. CASE Gathers(c)
    <3>1. /\ <<"info", c>> \in waits /\ waits' = (waits \ {<<"info", c>>}) \cup {<<"dids", c>>}
          /\ UNCHANGED <<made, current, active, stored, table, dialog, sent>>
      BY <2>1 DEF Gathers
    <3>2. c \in 1 .. made /\ "dids" \in Kinds
      BY <3>1 DEF Named, Kinds
    <3> QED BY <3>1, <3>2 DEF Named
  <2>2. CASE ~Gathers(c)
    BY <1>9, <2>2 DEF Loop, Connects, Disconnects, ClientTakes, ClientEnds, Named
  <2> QED BY <2>1, <2>2
<1>10. ASSUME NEW k \in Chains, Poll(k) PROVE Named'
  BY <1>10 DEF Poll, PollEnds, schedule_poll, on_poll_result, on_poll_error, Named
<1> QED BY <1>1, <1>2, <1>3, <1>4, <1>5, <1>6, <1>7, <1>8, <1>9, <1>10 DEF Next, Presses

\* Every step keeps Polled.
LEMMA PolledStep == Named /\ Polled /\ Named' /\ [Next]_vars => Polled'
<1> SUFFICES ASSUME Named, Polled, Named', [Next]_vars PROVE Polled'
  OBVIOUS
<1>0. /\ made \in Nat /\ current \in 0 .. made /\ Len(Supports) \in Nat
      /\ Connections = 1 .. Len(Supports) /\ made <= Len(Supports)
      /\ \A c \in Connections : Supports[c] \subseteq Pids
  BY Numbers, GuiAssumption DEF Named
<1>1. Polls \in Seq(Pids)
  <2> DEFINE S == PidsOf(active) \ culled
  <2>1. S \in SUBSET Pids
    BY <1>0 DEF PidsOf, Named
  <2>2. S \in SUBSET Nat /\ IsFiniteSet(S)
    BY <2>1, GuiAssumption, FS_Subset
  <2>3. Polls = InOrder(S)
    BY DEF Polls
  <2> HIDE DEF S
  <2>4. InOrder(S) \in Seq(S)
    BY <2>2, InOrderLists
  <2> QED BY <2>1, <2>3, <2>4, SeqMonotonic
<1>2. /\ Idle \in Cycle /\ [Idle EXCEPT !.at = "timer"] \in Cycle
      /\ [at |-> "asked", conn |-> current, pids |-> Polls] \in Cycle
  <2>1. 0 \in 0 .. made /\ <<>> \in Seq(Pids)
    BY <1>0
  <2>2. [Idle EXCEPT !.at = "timer"] = [at |-> "timer", conn |-> 0, pids |-> <<>>]
    BY DEF Idle
  <2>3. Idle \in Cycle /\ [at |-> "timer", conn |-> 0, pids |-> <<>>] \in Cycle
    BY <2>1 DEF Idle, Cycle
  <2>4. [at |-> "asked", conn |-> current, pids |-> Polls] \in Cycle
    <3> HIDE DEF Polls
    <3> QED BY <1>0, <1>1 DEF Cycle
  <2> QED BY <2>2, <2>3, <2>4
<1>3. ASSUME made' = made PROVE Cycle' = Cycle
  BY <1>3 DEF Cycle
<1>4. ASSUME NEW k \in Chains, NEW cycle \in Cycle, chain' = [chain EXCEPT ![k] = cycle], made' = made
      PROVE  chain' \in [Chains -> Cycle']
  BY <1>3, <1>4 DEF Polled
<1>5. ASSUME Cancel, made' = made PROVE chain' \in [Chains -> Cycle'] /\ pollJob' \in 0 .. MaxChains
  <2>1. 0 \in 0 .. MaxChains /\ Chains = 1 .. MaxChains
    BY GuiAssumption DEF Chains
  <2>2. CASE pollJob # 0 /\ chain[pollJob].at = "timer"
    <3>1. pollJob \in Chains
      BY <2>1, <2>2, GuiAssumption DEF Polled
    <3> QED BY <1>2, <1>4, <1>5, <2>1, <2>2, <3>1 DEF Cancel
  <2>3. CASE ~(pollJob # 0 /\ chain[pollJob].at = "timer")
    BY <1>3, <1>5, <2>1, <2>3 DEF Cancel, Polled
  <2> QED BY <2>2, <2>3
<1>6. CASE connect
  <2>1. made' = made + 1 /\ UNCHANGED <<chain, pollJob, polled, rows, culled, fails, last>>
    BY <1>6 DEF connect
  <2>2. Cycle \subseteq Cycle'
    <3>1. 0 .. made \subseteq 0 .. made'
      BY <1>0, <2>1
    <3> QED BY <3>1 DEF Cycle
  <2>3. chain' \in [Chains -> Cycle']
    BY <2>1, <2>2 DEF Polled
  <2> QED BY <2>1, <2>3 DEF Polled
<1>7. CASE disconnect
  <2>1. /\ Cancel \/ UNCHANGED <<chain, pollJob>>
        /\ rows' = Pids /\ UNCHANGED <<made, polled, culled, fails, last>>
    BY <1>7 DEF disconnect, Forget
  <2>2. chain' \in [Chains -> Cycle'] /\ pollJob' \in 0 .. MaxChains
    BY <1>3, <1>5, <2>1 DEF Polled
  <2> QED BY <2>1, <2>2 DEF Polled
<1>8. CASE stop_polling \/ close
  <2>1. /\ Cancel \/ UNCHANGED <<chain, pollJob>>
        /\ UNCHANGED <<made, rows, polled, culled, fails, last>>
    BY <1>8 DEF stop_polling, close
  <2>2. chain' \in [Chains -> Cycle'] /\ pollJob' \in 0 .. MaxChains
    BY <1>3, <1>5, <2>1 DEF Polled
  <2> QED BY <2>1, <2>2 DEF Polled
<1>9. CASE start_polling
  <2>1. PICK k \in Chains :
          chain' = [chain EXCEPT ![k] = [at |-> "asked", conn |-> current, pids |-> Polls]]
    BY <1>9 DEF start_polling
  <2>2. polled' = Polls /\ UNCHANGED <<made, pollJob, rows, culled, fails, last>>
    BY <1>9 DEF start_polling
  <2>3. chain' \in [Chains -> Cycle']
    BY <1>2, <1>4, <2>1, <2>2
  <2> QED BY <1>1, <2>2, <2>3 DEF Polled
<1>10. ASSUME NEW k \in Chains, schedule_poll(k) PROVE Polled'
  <2>1. /\ \/ chain' = [chain EXCEPT ![k] = [at |-> "asked", conn |-> current, pids |-> Polls]]
           \/ chain' = [chain EXCEPT ![k] = Idle]
        /\ polled' \in {polled, Polls} /\ UNCHANGED <<made, pollJob, rows, culled, fails, last>>
    BY <1>10 DEF schedule_poll
  <2>2. chain' \in [Chains -> Cycle']
    BY <1>2, <1>4, <2>1
  <2> QED BY <1>1, <2>1, <2>2 DEF Polled
<1>11. ASSUME NEW k \in Chains, Again(k), made' = made
       PROVE  chain' \in [Chains -> Cycle'] /\ pollJob' \in 0 .. MaxChains
  <2>1. k \in 0 .. MaxChains
    BY GuiAssumption DEF Chains
  <2>2. \/ chain' = [chain EXCEPT ![k] = [Idle EXCEPT !.at = "timer"]] /\ pollJob' = k
        \/ chain' = [chain EXCEPT ![k] = Idle] /\ pollJob' = pollJob
    BY <1>11 DEF Again
  <2>3. chain' \in [Chains -> Cycle']
    BY <1>2, <1>4, <1>11, <2>2
  <2> QED BY <2>1, <2>2, <2>3 DEF Polled
<1>12. ASSUME NEW k \in Chains, NEW good \in SUBSET Pids, on_poll_result(k, good) PROVE Polled'
  <2> DEFINE asked   == chain[k].pids
             At(i)   == polled[i]
             Told    == {i \in DOMAIN asked \cap DOMAIN polled : At(i) \in rows}
             Of(p)   == CHOOSE i \in Told : At(i) = p
             Heard   == {At(i) : i \in {j \in Told : asked[j] \in good}}
             Missed  == {At(i) : i \in Told} \ Heard
             Fails(p) == IF fails[p] < CullAfter THEN fails[p] + 1 ELSE fails[p]
  <2>1. /\ last' = [p \in Pids |-> IF p \in Heard THEN asked[Of(p)] ELSE last[p]]
        /\ fails' = [p \in Pids |-> IF p \in Heard THEN 0
                                    ELSE IF p \in Missed THEN Fails(p) ELSE fails[p]]
        /\ culled' = IF CullAfter = 0 THEN culled
                     ELSE culled \cup {p \in Missed : fails'[p] >= CullAfter}
        /\ Again(k) /\ UNCHANGED <<made, rows, polled>>
    BY <1>12, Zenon DEF on_poll_result
  <2>2. chain' \in [Chains -> Cycle'] /\ pollJob' \in 0 .. MaxChains
    BY <1>11, <2>1
  <2>3. asked \in Seq(Pids) /\ \A i \in DOMAIN asked : asked[i] \in Pids
    <3>1. asked \in Seq(Pids)
      BY DEF Polled, Cycle
    <3> HIDE DEF asked
    <3> QED BY <3>1
  <2>4. \A p \in Heard : Of(p) \in DOMAIN asked
    OBVIOUS
  <2>5. Missed \subseteq Pids
    BY DEF Polled
  <2>6. \A p \in Pids : Fails(p) \in 0 .. CullAfter
    BY GuiAssumption DEF Polled
  <2>7. fails \in [Pids -> 0 .. CullAfter] /\ last \in [Pids -> Pids \cup {0}] /\ culled \subseteq Pids
    BY DEF Polled
  <2> HIDE DEF asked, Heard, Missed, Of, Fails
  <2>8. last' \in [Pids -> Pids \cup {0}]
    BY <2>1, <2>3, <2>4, <2>7
  <2>9. fails' \in [Pids -> 0 .. CullAfter]
    BY <2>1, <2>6, <2>7, GuiAssumption
  <2>10. culled' \subseteq Pids
    BY <2>1, <2>5, <2>7
  <2> QED BY <2>1, <2>2, <2>8, <2>9, <2>10 DEF Polled
<1>13. ASSUME NEW k \in Chains, on_poll_error(k) PROVE Polled'
  <2>1. Again(k) /\ UNCHANGED <<made, rows, polled, culled, fails, last>>
    BY <1>13 DEF on_poll_error
  <2> QED BY <1>11, <2>1 DEF Polled
<1>14. ASSUME UNCHANGED <<made, chain, pollJob, polled, culled, fails, last>>, rows' \subseteq Pids
       PROVE  Polled'
  BY <1>3, <1>14 DEF Polled
<1>15. CASE read_dtcs \/ clear_dtcs \/ read_panel \/ read_info \/ Grabs \/ UNCHANGED vars
  BY <1>14, <1>15 DEF read_dtcs, clear_dtcs, read_panel, read_info, Grabs, vars, Polled
<1>16. ASSUME NEW ok \in BOOLEAN, Answers(ok) PROVE Polled'
  BY <1>14, <1>16 DEF Answers, Polled
<1>17. ASSUME NEW c \in Connections, Callback(c) \/ Loop(c) PROVE Polled'
  <2>1. /\ UNCHANGED <<made, chain, pollJob, polled, culled, fails, last>>
        /\ rows' \in {rows, Supports[c]}
    BY <1>17 DEF Callback, Loop, on_connected, on_connect_err, on_pids_discovered, on_vin_detected,
         on_stored_dtcs_ready, on_pending_dtcs_ready, on_dtc_error, on_dtcs_cleared, on_panel, on_vinfo,
         Connects, Disconnects, Gathers, ClientTakes, ClientEnds
  <2> QED BY <1>0, <1>14, <2>1 DEF Polled
<1> QED BY <1>6, <1>7, <1>8, <1>9, <1>10, <1>12, <1>13, <1>15, <1>16, <1>17
        DEF Next, Presses, Poll, PollEnds

\* Every step keeps Pressed.
LEMMA PressedStep == Pressed /\ [Next]_vars => Pressed'
<1> SUFFICES ASSUME Pressed, [Next]_vars PROVE Pressed'
  OBVIOUS
<1>1. sitting' = sitting
  BY DEF Next, Presses, Callback, Loop, Poll, PollEnds, connect, disconnect, start_polling, stop_polling,
     read_dtcs, clear_dtcs, read_panel, read_info, close, Grabs, Answers, on_connected, on_connect_err,
     on_pids_discovered, on_vin_detected, on_stored_dtcs_ready, on_pending_dtcs_ready,
     on_dtc_error, on_dtcs_cleared, on_panel, on_vinfo, Connects, Disconnects, Gathers, ClientTakes,
     ClientEnds, schedule_poll,
     on_poll_result, on_poll_error, vars
<1>2. window' \in {window, FALSE} /\ polling' \in {polling, TRUE, FALSE}
  BY DEF Next, Presses, Callback, Loop, Poll, PollEnds, connect, disconnect, start_polling, stop_polling,
     read_dtcs, clear_dtcs, read_panel, read_info, close, Grabs, Answers, on_connected, on_connect_err,
     on_pids_discovered, on_vin_detected, on_stored_dtcs_ready, on_pending_dtcs_ready,
     on_dtc_error, on_dtcs_cleared, on_panel, on_vinfo, Connects, Disconnects, Gathers, ClientTakes,
     ClientEnds, schedule_poll,
     on_poll_result, on_poll_error, vars
<1>3. enabled' \subseteq enabled \cup Buttons
  BY DEF Next, Presses, Callback, Loop, Poll, PollEnds, connect, disconnect, start_polling, stop_polling,
     read_dtcs, clear_dtcs, read_panel, read_info, close, Grabs, Answers, on_connected, on_connect_err,
     on_pids_discovered, on_vin_detected, on_stored_dtcs_ready, on_pending_dtcs_ready,
     on_dtc_error, on_dtcs_cleared, on_panel, on_vinfo, Connects, Disconnects, Gathers, ClientTakes,
     ClientEnds, schedule_poll,
     on_poll_result, on_poll_error, vars, Press, Buttons, Reads
<1>4. /\ left' = left \/ left' = (left \/ waits # {})
      /\ doubled' = doubled \/ doubled' = (doubled \/ Running # {})
      /\ slipped' = slipped \/ slipped' = (slipped \/ dialog.state = "open")
  BY DEF Next, Presses, Callback, Loop, Poll, PollEnds, connect, disconnect, start_polling, stop_polling,
     read_dtcs, clear_dtcs, read_panel, read_info, close, Grabs, Answers, on_connected, on_connect_err,
     on_pids_discovered, on_vin_detected, on_stored_dtcs_ready, on_pending_dtcs_ready,
     on_dtc_error, on_dtcs_cleared, on_panel, on_vinfo, Connects, Disconnects, Gathers, ClientTakes,
     ClientEnds, schedule_poll,
     on_poll_result, on_poll_error, vars, Press, Slips
<1>5. left' \in BOOLEAN /\ doubled' \in BOOLEAN /\ slipped' \in BOOLEAN
  BY <1>4 DEF Pressed
<1> QED BY <1>1, <1>2, <1>3, <1>5 DEF Pressed

\* Every step keeps Pooled.
LEMMA PooledStep == Pooled /\ [Next]_vars => Pooled'
<1> SUFFICES ASSUME Pooled, [Next]_vars PROVE Pooled'
  OBVIOUS
<1>1. CASE UNCHANGED pool
  BY <1>1 DEF pool, Pooled
<1>2. ASSUME NEW c \in Connections, Loop(c) PROVE Pooled'
  <2>1. UNCHANGED pool \/ Gathers(c) \/ Client(c)
    BY <1>2 DEF Loop, Client, Connects, Disconnects
  <2>2. CASE Gathers(c)
    BY <2>2 DEF Gathers, Pooled
  <2>3. CASE Client(c)
    BY <2>3 DEF Client, ClientTakes, ClientEnds, Pooled
  <2> QED BY <1>1, <2>1, <2>2, <2>3
<1>3. ASSUME Presses \/ Grabs \/ (\E ok \in BOOLEAN : Answers(ok)) PROVE UNCHANGED pool
  BY <1>3 DEF Presses, connect, disconnect, start_polling, stop_polling, read_dtcs, clear_dtcs,
     read_panel, read_info, close, Grabs, Answers
<1>4. ASSUME NEW c \in Connections, Callback(c) PROVE UNCHANGED pool
  BY <1>4 DEF Callback, on_connected, on_connect_err, on_pids_discovered, on_vin_detected,
     on_stored_dtcs_ready, on_pending_dtcs_ready, on_dtc_error, on_dtcs_cleared, on_panel, on_vinfo
<1>5. ASSUME NEW k \in Chains, Poll(k) PROVE UNCHANGED pool
  BY <1>5 DEF Poll, PollEnds, schedule_poll, on_poll_result, on_poll_error
<1> QED BY <1>1, <1>2, <1>3, <1>4, <1>5 DEF Next, vars

\* Type correctness.
THEOREM TypeInvariant == Spec => []TypeOK
<1> DEFINE Inv == Endpoints /\ Connecting /\ Named /\ Polled /\ Pressed /\ Pooled
<1>1. Init => Inv
  <2> SUFFICES ASSUME Init PROVE Named /\ Polled /\ Pressed /\ Pooled
    BY ConnectingInit
  <2>1. Named
    BY Numbers DEF Init, Named
  <2>2. Polled
    BY GuiAssumption DEF Init, Polled, Idle, Cycle
  <2>3. Pressed
    BY DEF Init, Pressed, Buttons
  <2>4. Pooled
    BY DEF Init, Pooled
  <2> QED BY <2>1, <2>2, <2>3, <2>4
<1>2. Inv /\ [Next]_vars => Inv'
  BY ConnectingStep, NamedStep, PolledStep, PressedStep, PooledStep
<1>3. Inv => TypeOK
  <2> SUFFICES ASSUME Inv PROVE TypeOK
    OBVIOUS
  <2>1. waits \subseteq Kinds \X Connections
    BY DEF Endpoints
  <2>2. \A k \in Chains : /\ chain[k].at \in {"none", "timer", "asked"}
                          /\ chain[k].conn \in 0 .. made
                          /\ chain[k].pids \in Seq(Pids)
    BY DEF Polled, Cycle
  <2> QED BY <2>1, <2>2 DEF Endpoints, Named, Polled, Pressed, Pooled, TypeOK
<1> QED BY <1>1, <1>2, <1>3, PTL DEF Spec
=============================================================================
