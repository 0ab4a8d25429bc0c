----------------------------- MODULE ToolServer -----------------------------
(***************************************************************************)
(* The MCP server of the first version (OldVer/obd2_mcp/server.py): the    *)
(* tools a client calls, as often and as concurrently as it likes, on one  *)
(* transport, and the passive capture (protocols/sniffer.py) on its bus.   *)
(* Tools that exchange bytes with an ECU are one of two sorts: those that  *)
(* await send_raw, and those that run a udsoncan client in a thread.       *)
(***************************************************************************)
EXTENDS Transports

CONSTANT Listening  \* bound: the transports on which a client captures

VARIABLES
  serving,   \* the lifespan context is entered
  running,   \* CanSnifferProtocol._running
  reader,    \* CanSnifferProtocol._reader is not None
  task,      \* CanSnifferProtocol._capture_task is not None
  loop,      \* how far the newest _decode_loop is
  restarted  \* history: was a capture started while a stop was under way?

sniffer == <<running, reader, task, loop, restarted>>
vars == <<tvars, serving, sniffer>>

Loops == {"none", "created", "reading", "dead"}

\* The transports that expose a bus to listen on.
RawBus == {"socketcan", "virtual"}

ASSUME ToolServerAssumption == Listening \subseteq RawBus

Calls(t) == serving /\ Idle(t)

-----------------------------------------------------------------------------
(* Connection tools.  A call that finds nothing to do changes nothing.     *)

\* Nothing but CONNECTED keeps it from connecting: not a connect under way.
connect_device(t) ==
  /\ Calls(t)
  /\ ~is_connected
  /\ Connect(t)
  /\ UNCHANGED <<serving, sniffer>>

disconnect_device(t) ==
  /\ Calls(t)
  /\ is_connected
  /\ Disconnect(t)
  /\ UNCHANGED <<serving, sniffer>>

-----------------------------------------------------------------------------
(* Tools on the vehicle.  Without a connection they raise at once.         *)

\* OBD-II services, and each query of a snapshot.
query(t, r) ==
  /\ Calls(t)
  /\ is_connected
  /\ Ask(t, r)
  /\ UNCHANGED <<serving, sniffer>>

\* KWP2000 services, on the transport that speaks it.
kwp_service(t, r) ==
  /\ Calls(t)
  /\ is_connected /\ kind = "kline"
  /\ Ask(t, r)
  /\ UNCHANGED <<serving, sniffer>>

\* UDS services.
uds_service(t, r) ==
  /\ Calls(t)
  /\ is_connected
  /\ AskByClient(t, r)
  /\ UNCHANGED <<serving, sniffer>>

-----------------------------------------------------------------------------
(* The capture.                                                            *)

\* start() has no await: reader, notifier and task are there when it returns.
start_capture(t) ==
  /\ Calls(t)
  /\ is_connected
  /\ ~running
  /\ kind \in Listening /\ held # None
  /\ reader' = TRUE
  /\ running' = TRUE
  /\ task' = TRUE
  /\ loop' = "created"
  /\ restarted' = (restarted \/ \E u \in Tasks : doing[u] = "stop")
  /\ UNCHANGED <<tvars, serving>>

\* Mutant of stop_capture: the flag is cleared when the task has ended.
stop_capture_late(t) ==
  /\ Calls(t)
  /\ is_connected /\ kind \in Listening
  /\ running' = (running /\ task)
  /\ IF task
     THEN /\ doing' = [doing EXCEPT ![t] = "stop"]
          /\ loop' = "none"
          /\ UNCHANGED reader
     ELSE reader' = FALSE /\ UNCHANGED <<doing, loop>>
  /\ UNCHANGED <<kind, device, job, pool, req, conn, got, line, serving, task, restarted>>

\* stop() up to the await of the task it cancels; without a task it is over.
stop_capture(t) ==
  /\ Calls(t)
  /\ is_connected /\ kind \in Listening
  /\ running' = FALSE
  /\ IF task
     THEN /\ doing' = [doing EXCEPT ![t] = "stop"]
          /\ loop' = "none"
          /\ UNCHANGED reader
     ELSE reader' = FALSE /\ UNCHANGED <<doing, loop>>
  /\ UNCHANGED <<kind, device, job, pool, req, conn, got, line, serving, task, restarted>>

\* The rest of stop(), which takes it that nothing happened meanwhile.
stop_returns(t) ==
  /\ doing[t] = "stop"
  /\ doing' = [doing EXCEPT ![t] = "idle"]
  /\ task' = FALSE
  /\ reader' = FALSE
  /\ UNCHANGED <<kind, device, job, pool, req, conn, got, line, serving, running, loop, restarted>>

\* The new task runs for the first time and asserts that there is a reader.
decode_loop ==
  /\ loop = "created"
  /\ loop' = IF reader THEN "reading" ELSE "dead"
  /\ UNCHANGED <<tvars, serving, running, reader, task, restarted>>

-----------------------------------------------------------------------------
\* Mutant of lifespan_ends: the context is left without a disconnect.
lifespan_ends_only(t) ==
  /\ serving /\ \A u \in Tasks : Idle(u)
  /\ serving' = FALSE
  /\ UNCHANGED <<tvars, sniffer>>

\* The server ends when no call is left; the context disconnects.
lifespan_ends(t) ==
  /\ serving /\ \A u \in Tasks : Idle(u)
  /\ serving' = FALSE
  /\ IF is_connected THEN Disconnect(t) ELSE UNCHANGED tvars
  /\ UNCHANGED sniffer

Init ==
  /\ TransportInit
  /\ serving = TRUE
  /\ running = FALSE /\ reader = FALSE /\ task = FALSE /\ loop = "none" /\ restarted = FALSE

Below(t) == Progress(t) /\ UNCHANGED <<serving, sniffer>>

Next ==
  \/ \E t \in Tasks :
       \/ connect_device(t) \/ disconnect_device(t)
       \/ \E r \in Requests : query(t, r) \/ kwp_service(t, r) \/ uds_service(t, r)
       \/ start_capture(t) \/ stop_capture(t) \/ stop_returns(t)
       \/ lifespan_ends(t)
       \/ Below(t)
  \/ StartJob /\ UNCHANGED <<serving, sniffer>>
  \/ Vehicle /\ UNCHANGED <<serving, sniffer>>
  \/ decode_loop

\* The loop and the threads go on.  A lock that is free again and again is
\* granted: strong fairness for the step that takes it.
Fairness ==
  /\ WF_vars(StartJob /\ UNCHANGED <<serving, sniffer>>)
  /\ \A t \in Tasks :
       /\ WF_vars(Below(t) \/ stop_returns(t))
       /\ SF_vars((Write(t) \/ WriteRaises(t)) /\ UNCHANGED <<serving, sniffer>>)

Spec     == Init /\ [][Next]_vars
LiveSpec == Spec /\ Fairness

-----------------------------------------------------------------------------
\* Type correctness.
TypeOK ==
  /\ kind \in Kinds
  /\ status \in Statuses
  /\ held \in 0 .. MaxOpens
  /\ open \subseteq Handles /\ opens \in 0 .. MaxOpens
  /\ doing \in [Tasks -> Doings]
  /\ job \in [Tasks -> Jobs]
  /\ client \in [Tasks -> {"none", "queued", "running"}]
  /\ Occupied \in 0 .. Workers
  /\ queue \in Seq(Tasks \X {"job", "client"})
  /\ req \in [Tasks -> Requests \cup {NoRequest}]
  /\ conn \in [Tasks -> 0 .. MaxOpens]
  /\ got \in [Tasks -> Replies \cup {NoReply}]
  /\ lock \in Tasks \cup {Nobody}
  /\ asked \in Seq([req : Requests, conn : 0 .. MaxOpens])
  /\ wire \in [Handles -> Seq(Replies)]
  /\ late \subseteq 0 .. MaxOpens
  /\ mixed \in BOOLEAN /\ raced \in BOOLEAN
  /\ serving \in BOOLEAN
  /\ running \in BOOLEAN /\ reader \in BOOLEAN /\ task \in BOOLEAN
  /\ loop \in Loops /\ restarted \in BOOLEAN

\* The device is accounted for: as long as connects and disconnects never
\* overlapped, then between them just the connection that status claims is open,
\* whatever failed before, and whatever exchanges were under way.  (Nothing in
\* server.py:208-248 keeps two of them apart; once they overlap, a device can
\* stay open that nothing refers to.)
DeviceAccountedFor ==
  ~raced /\ Changing = {} =>
    open = IF is_connected THEN {held} ELSE {}

\* A server that has stopped leaves no device open, with the same proviso.
ExitLeavesNothingOpen ==
  ~serving /\ ~raced /\ (\A t \in Tasks : Idle(t)) => open = {}

\* A task is given the reply to its own request.  Two things can go wrong: a
\* wait that ended without its reply, which comes later and is taken by the next
\* one (DoIP: on the same socket); and, where there is no lock, an exchange that
\* is under way at the same time, or, on SocketCAN, was under way on another bus
\* object that two overlapping connects left.  J2534Transport, which reads until the reply
\* fits, takes only replies to the same service, with the same second byte when
\* they are positive, even if the channel is closed and opened under it.
RightReply ==
  \A t \in Tasks :
    doing[t] = "ask" /\ got[t] # NoReply /\ got[t].req # req[t] =>
      /\ kind \in Matching => /\ Service[got[t].req] = Service[req[t]]
                              /\ got[t].ok => Echo[got[t].req] = Echo[req[t]]
      /\ \/ late # {} /\ (kind = "doip" => conn[t] \in late)
         \/ kind \notin Locked /\ mixed
         \/ kind = "socketcan" /\ raced

\* The lock makes an exchange of the transports that have one serial: it
\* implements SerialChannel.
Talking == IF kind \in Locked
           THEN {t \in Tasks : doing[t] = "ask" /\ job[t] = "reading"} ELSE {}
IoLock == INSTANCE SerialChannel WITH talking <- Talking, Users <- Tasks
OneExchangeAtATime == IoLock!Spec

\* A capture that is_running says is running has a loop that reads, and a task
\* that stop() can cancel; unless it was started while a stop awaited the end of
\* the one before, whose last lines then throw its reader and task away.
CaptureRuns ==
  running /\ ~restarted => loop \in {"created", "reading"} /\ reader /\ task

\* Every call comes to an end, whatever the vehicle and the device do, except
\* when udsoncan clients hold all the threads: then the exchanges they wait for
\* never get one (uds.py:92 has no time limit).
ClientsHoldAllThreads ==
  kind \in Threaded /\ Cardinality({t \in Tasks : client[t] = "running"}) = Workers
CallsReturn ==
  \A t \in Tasks : (doing[t] # "idle") ~> (doing[t] = "idle" \/ ClientsHoldAllThreads)
=============================================================================
