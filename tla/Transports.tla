----------------------------- MODULE Transports -----------------------------
(***************************************************************************)
(* The transports of the first version (OldVer/obd2_mcp/transport) and the *)
(* thread pool they share: connect, disconnect and send_raw as coroutines  *)
(* of one asyncio loop, most of which do their work in a thread of the     *)
(* loop's default executor.                                                *)
(*                                                                         *)
(* A task is a coroutine: a call of a tool, or one query of those a tool   *)
(* gathers.  Between two awaits it runs alone, so each action is the code  *)
(* from one await to the next, or the part of a thread's job that other    *)
(* threads can tell apart.  One transport is configured per process; kind  *)
(* is which, and the sets below say in what the six differ.                *)
(***************************************************************************)
EXTENDS Naturals, FiniteSets, Sequences

CONSTANTS
  Tasks,      \* coroutines that may be under way at once
  Kinds,      \* the transports to check
  Workers,    \* threads of the default executor
  Requests,   \* the requests that are sent
  Service,    \* their service byte
  Echo,       \* what a positive reply to them repeats in its second byte
  MaxOpens,   \* bound: connections opened in the life of the process
  MaxFrames   \* bound: requests at the ECUs, and replies waiting, at once

AllKinds == {"j2534", "kline", "doip", "socketcan", "elm327", "virtual"}

ASSUME TransportsAssumption ==
  /\ IsFiniteSet(Tasks) /\ "nobody" \notin Tasks
  /\ Kinds \subseteq AllKinds
  /\ Workers \in Nat \ {0}
  /\ MaxOpens \in Nat
  /\ MaxFrames \in Nat
  /\ DOMAIN Service = Requests
  /\ DOMAIN Echo = Requests

VARIABLES
  kind,    \* the configured transport
  status,  \* BaseTransport._status
  held,    \* what the object refers to: _dll and its ids, _bus, _conn, _writer
  open,    \* driver, system: the connections that are open
  opens,   \* how many were opened so far; they are numbered
  doing,   \* what a task is in the middle of, or "idle"
  job,     \* its work below the await: in a thread, or in the loop itself
  client,  \* its udsoncan client, which occupies a thread of its own
  queue,   \* what waits for a thread, in order: a task, or a task's client
  req,     \* the request a task sends
  conn,    \* the connection a task took from the object when it was called
  got,     \* the reply a task was given
  lock,    \* J2534Transport._io_lock, DoIPTransport._lock: who holds it
  asked,   \* vehicle: requests not answered yet, [req, conn]
  wire,    \* replies received and not read, for each connection
  late,    \* history: connections on which a wait ended without its reply
  mixed,   \* history: were two requests under way on one channel?
  raced    \* history: did a connect or disconnect overlap another one?

device == <<status, held, open, opens, raced>>
pool   == <<client, queue>>
line   == <<lock, asked, wire, late, mixed>>
tvars  == <<kind, device, doing, job, pool, req, conn, got, line>>

None    == 0
Handles == 1 .. MaxOpens
Nobody  == "nobody"
NoRequest == "none"
NoReply == [req |-> NoRequest, ok |-> FALSE]
Replies == [req : Requests, ok : BOOLEAN]

Statuses == {"DISCONNECTED", "CONNECTING", "CONNECTED", "ERROR"}
Doings   == {"idle", "connect", "disconnect", "ask", "stop"}
Jobs     == {"none", "queued", "running", "reading", "done", "raised"}

\* In what they differ.  Those that work in threads of the executor:
Threaded  == {"j2534", "kline", "socketcan", "elm327"}
\* whose thread assigns to the object, and looks at it again at every use;
Dll       == {"j2534", "kline"}
\* whose exchange, and disconnect, go on with what the object referred to
\* when they were called;
Captures  == {"socketcan", "elm327"}
\* that let one exchange at a time on the channel;
Locked    == {"j2534", "doip"}
\* that read until the reply fits the request;
Matching  == {"j2534"}
\* whose device or port can be opened once at a time only.
Exclusive == {"j2534", "kline", "elm327"}

is_connected == status = "CONNECTED"
Idle(t)      == doing[t] = "idle"
Changing     == {t \in Tasks : doing[t] \in {"connect", "disconnect"}}

-----------------------------------------------------------------------------
(* The thread pool.                                                        *)

\* Threads at work: on a job, or in a client that waits for its exchange.
Occupied ==
  IF kind \notin Threaded THEN 0
  ELSE Cardinality({t \in Tasks : job[t] \in {"running", "reading"}})
         + Cardinality({t \in Tasks : client[t] = "running"})

\* Mutants of Free: no limit; one thread fewer.
FreeAlways == TRUE

FreeButOne == Occupied + 1 < Workers

Free == Occupied < Workers

\* run_in_executor: the job waits for a thread; without threads it is run on
\* the loop.
Submit(t) ==
  IF kind \in Threaded
  THEN job' = [job EXCEPT ![t] = "queued"] /\ queue' = Append(queue, <<t, "job">>)
  ELSE job' = [job EXCEPT ![t] = "running"] /\ UNCHANGED queue

\* A free thread takes what waits longest.
StartJob ==
  /\ queue # <<>> /\ Free
  /\ LET t == Head(queue)[1] IN
       \/ /\ Head(queue)[2] = "job"
          /\ job' = [job EXCEPT ![t] = "running"] /\ UNCHANGED client
       \/ /\ Head(queue)[2] = "client"
          /\ client' = [client EXCEPT ![t] = "running"] /\ UNCHANGED job
  /\ queue' = Tail(queue)
  /\ UNCHANGED <<kind, device, doing, req, conn, got, line>>

\* The task's call is over: the coroutine returns, or raises.
Finish(t) ==
  /\ doing' = [doing EXCEPT ![t] = "idle"]
  /\ job' = [job EXCEPT ![t] = "none"]
  /\ client' = [client EXCEPT ![t] = "none"]
  /\ conn' = [conn EXCEPT ![t] = None]
  /\ req' = [req EXCEPT ![t] = NoRequest]
  /\ got' = [got EXCEPT ![t] = NoReply]

-----------------------------------------------------------------------------
(* connect.                                                                *)

Begin(t, what) ==
  /\ doing' = [doing EXCEPT ![t] = what]
  /\ raced' = (raced \/ Changing # {})

\* connect() up to its first await.  The virtual transport does not say that
\* it is connecting.
Connect(t) ==
  /\ Begin(t, "connect")
  /\ status' = IF kind = "virtual" THEN status ELSE "CONNECTING"
  /\ Submit(t)
  /\ UNCHANGED <<kind, held, open, opens, client, req, conn, got, line>>

\* The device, bus, port or socket is opened.  A DLL's ids are assigned in the
\* thread, a socket's streams and the virtual bus on the loop; the others wait
\* for the coroutine.
Opens(t) ==
  /\ doing[t] = "connect" /\ job[t] = "running"
  /\ opens < MaxOpens
  /\ kind \in Exclusive => open = {}
  /\ opens' = opens + 1
  /\ open' = open \cup {opens'}
  /\ IF kind \in Captures
     THEN conn' = [conn EXCEPT ![t] = opens'] /\ UNCHANGED held
     ELSE held' = opens' /\ UNCHANGED conn
  /\ job' = [job EXCEPT ![t] = "done"]
  /\ UNCHANGED <<kind, status, raced, doing, pool, req, got, line>>

\* It is not: no device, no answer, or it is in use.  A device whose channel
\* cannot be connected is closed again by the thread.
OpenFails(t) ==
  /\ doing[t] = "connect" /\ job[t] = "running"
  /\ job' = [job EXCEPT ![t] = "raised"]
  /\ UNCHANGED <<kind, device, doing, pool, req, conn, got, line>>

\* The gateway rejects the routing activation on the new socket.
Rejects(t) ==
  /\ kind = "doip" /\ doing[t] = "connect" /\ job[t] = "done"
  /\ job' = [job EXCEPT ![t] = "raised"]
  /\ UNCHANGED <<kind, device, doing, pool, req, conn, got, line>>

ConnectReturns(t) ==
  /\ doing[t] = "connect" /\ job[t] = "done"
  /\ status' = "CONNECTED"
  /\ held' = IF kind \in Captures THEN conn[t] ELSE held
  /\ Finish(t)
  /\ UNCHANGED <<kind, open, opens, raced, queue, line>>

\* What is on the way to a closed connection is lost.
Close(c) ==
  /\ open' = open \ {c}
  /\ wire' = [h \in Handles |-> IF h = c THEN <<>> ELSE wire[h]]

\* Mutant of ConnectRaises: the socket is not closed when activation fails.
ConnectRaisesAlone(t) ==
  /\ doing[t] = "connect" /\ job[t] = "raised"
  /\ status' = IF kind = "virtual" THEN status ELSE "ERROR"
  /\ Finish(t)
  /\ UNCHANGED <<kind, held, open, wire, opens, raced, queue, lock, asked, late, mixed>>

\* The except clause, which the virtual transport has not.  DoIP closes whatever
\* socket the object has; it is all that is left of the attempt.
ConnectRaises(t) ==
  /\ doing[t] = "connect" /\ job[t] = "raised"
  /\ status' = IF kind = "virtual" THEN status ELSE "ERROR"
  /\ IF kind = "doip" THEN Close(held) /\ held' = None
                      ELSE UNCHANGED <<open, wire, held>>
  /\ Finish(t)
  /\ UNCHANGED <<kind, opens, raced, queue, lock, asked, late, mixed>>

-----------------------------------------------------------------------------
(* disconnect.                                                             *)

\* disconnect() up to its first await; with nothing to close there is none.
Disconnect(t) ==
  IF held = None
  THEN /\ status' = "DISCONNECTED"
       /\ UNCHANGED <<kind, held, open, opens, raced, doing, job, pool, req, conn, got, line>>
  ELSE /\ Begin(t, "disconnect")
       /\ Submit(t)
       /\ conn' = [conn EXCEPT ![t] = IF kind \in Captures \cup {"doip"} THEN held ELSE None]
       /\ UNCHANGED <<kind, status, held, open, opens, client, req, got, line>>

\* The thread, or the loop, closes it: what was referred to when disconnect was
\* called, or, in a DLL's thread and on the virtual bus, what is now.  Neither
\* waits for the exchange that holds the lock.
Closes(t) ==
  /\ doing[t] = "disconnect" /\ job[t] = "running"
  /\ Close(IF kind \in Captures \cup {"doip"} THEN conn[t] ELSE held)
  /\ held' = IF kind \in Dll THEN None ELSE held
  /\ job' = [job EXCEPT ![t] = "done"]
  /\ UNCHANGED <<kind, status, opens, raced, doing, pool, req, conn, got, lock, asked, late, mixed>>

DisconnectReturns(t) ==
  /\ doing[t] = "disconnect" /\ job[t] = "done"
  /\ status' = "DISCONNECTED"
  /\ held' = None
  /\ Finish(t)
  /\ UNCHANGED <<kind, open, opens, raced, queue, line>>

-----------------------------------------------------------------------------
(* send_raw.                                                               *)

\* The test at the head of send_raw.
Usable == is_connected /\ held # None

Captured == IF kind \in Captures THEN held ELSE None

\* A coroutine calls send_raw, or has python-obd make the query in a thread.
Ask(t, r) ==
  /\ Usable
  /\ doing' = [doing EXCEPT ![t] = "ask"]
  /\ req' = [req EXCEPT ![t] = r]
  /\ conn' = [conn EXCEPT ![t] = Captured]
  /\ Submit(t)
  /\ UNCHANGED <<kind, device, client, got, line>>

\* A UDS service: a udsoncan client runs in a thread, whatever the transport.
AskByClient(t, r) ==
  /\ doing' = [doing EXCEPT ![t] = "ask"]
  /\ req' = [req EXCEPT ![t] = r]
  /\ client' = [client EXCEPT ![t] = "queued"]
  /\ queue' = Append(queue, <<t, "client">>)
  /\ UNCHANGED <<kind, device, job, conn, got, line>>

\* The client hands send_raw to the loop and blocks its thread until that is
\* over; an ELM327 has no send_raw.
ClientSends(t) ==
  /\ client[t] = "running" /\ job[t] = "none"
  /\ IF Usable /\ kind # "elm327"
     THEN /\ Submit(t)
          /\ conn' = [conn EXCEPT ![t] = Captured]
          /\ UNCHANGED <<doing, client, req, got>>
     ELSE Finish(t) /\ UNCHANGED queue
  /\ UNCHANGED <<kind, device, line>>

\* The connection an exchange is on as it stands now.
Channel(t) == IF kind \in Captures THEN conn[t] ELSE held

\* Replies come back to the socket their request was sent on; anything else is
\* a bus, which has no memory of the sender.
Origin(c) == IF kind = "doip" THEN c ELSE None

\* Mutant of Permitted: no lock around write and read.
PermittedUnlocked(t) == TRUE

\* The lock is free, where there is one.
Permitted(t) == kind \in Locked => lock = Nobody

\* The request is sent, with the lock held.  One too many for the vehicle to
\* remember is never answered.
Write(t) ==
  /\ doing[t] = "ask" /\ job[t] = "running" /\ kind # "virtual"
  /\ Permitted(t)
  /\ Channel(t) \in open
  /\ lock' = IF kind \in Locked THEN t ELSE lock
  /\ asked' = IF Len(asked) < MaxFrames
              THEN Append(asked, [req |-> req[t], conn |-> Origin(held)]) ELSE asked
  /\ mixed' = (mixed \/ \E u \in Tasks \ {t} : doing[u] = "ask" /\ job[u] = "reading")
  /\ conn' = IF kind = "doip" THEN [conn EXCEPT ![t] = held] ELSE conn
  /\ job' = [job EXCEPT ![t] = "reading"]
  /\ UNCHANGED <<kind, device, doing, pool, req, got, wire, late>>

\* The channel is gone, or refuses the request.
WriteRaises(t) ==
  /\ doing[t] = "ask" /\ job[t] = "running" /\ kind # "virtual"
  /\ Permitted(t)
  /\ Finish(t)
  /\ UNCHANGED <<kind, device, queue, line>>

\* A simulated vehicle needs no channel.
Simulate(t) ==
  /\ doing[t] = "ask" /\ job[t] = "running" /\ kind = "virtual"
  /\ got' = [got EXCEPT ![t] = [req |-> req[t], ok |-> TRUE]]
  /\ job' = [job EXCEPT ![t] = "done"]
  /\ UNCHANGED <<kind, device, doing, pool, req, conn, line>>

\* Mutant of Fits: the service is compared, not what the reply repeats.
FitsService(rep, r) == Service[rep.req] = Service[r]

\* A negative response names the service only, a positive one also repeats the
\* second byte of the request.
Fits(rep, r) ==
  /\ Service[rep.req] = Service[r]
  /\ rep.ok => Echo[rep.req] = Echo[r]

Release(t) == lock' = IF lock = t THEN Nobody ELSE lock

\* The next frame is taken off the channel: the reply, or one to skip.
Read(t) ==
  LET c == Channel(t) IN
  /\ doing[t] = "ask" /\ job[t] = "reading"
  /\ c \in open /\ wire[c] # <<>>
  /\ wire' = [wire EXCEPT ![c] = Tail(@)]
  /\ IF kind \in Matching /\ ~Fits(Head(wire[c]), req[t])
     THEN UNCHANGED <<got, job, lock>>
     ELSE /\ got' = [got EXCEPT ![t] = Head(wire[c])]
          /\ job' = [job EXCEPT ![t] = "done"]
          /\ Release(t)
  /\ UNCHANGED <<kind, device, doing, pool, req, conn, asked, late, mixed>>

\* The wait times out, the gateway refuses the message, or the channel went
\* away under it.
WaitEnds(t) ==
  /\ doing[t] = "ask" /\ job[t] = "reading"
  /\ late' = late \cup {Origin(conn[t])}
  /\ Release(t)
  /\ Finish(t)
  /\ UNCHANGED <<kind, device, queue, asked, wire, mixed>>

\* send_raw, and with it the client around it, returns.
AskReturns(t) ==
  /\ doing[t] = "ask" /\ job[t] = "done"
  /\ Finish(t)
  /\ UNCHANGED <<kind, device, queue, line>>

-----------------------------------------------------------------------------
(* The vehicle.                                                            *)

\* A request gets its reply, in any order: on every connection that is open
\* now, or on a socket, on the one it was sent on.  A full buffer drops it.
Answer(i, ok) ==
  LET a == asked[i]
      Gets(c) == c \in open /\ Len(wire[c]) < MaxFrames /\ (kind = "doip" => c = a.conn)
  IN
  /\ asked' = SubSeq(asked, 1, i - 1) \o SubSeq(asked, i + 1, Len(asked))
  /\ wire' = [c \in Handles |-> IF Gets(c) THEN Append(wire[c], [req |-> a.req, ok |-> ok])
                                           ELSE wire[c]]
  /\ UNCHANGED <<kind, device, doing, job, pool, req, conn, got, lock, late, mixed>>

\* It gets none.
Ignore(i) ==
  /\ asked' = SubSeq(asked, 1, i - 1) \o SubSeq(asked, i + 1, Len(asked))
  /\ UNCHANGED <<kind, device, doing, job, pool, req, conn, got, lock, wire, late, mixed>>

-----------------------------------------------------------------------------
TransportInit ==
  /\ kind \in Kinds
  /\ status = "DISCONNECTED"
  /\ held = None
  /\ open = {} /\ opens = 0
  /\ doing = [t \in Tasks |-> "idle"]
  /\ job = [t \in Tasks |-> "none"]
  /\ client = [t \in Tasks |-> "none"]
  /\ queue = <<>>
  /\ req = [t \in Tasks |-> NoRequest]
  /\ conn = [t \in Tasks |-> None]
  /\ got = [t \in Tasks |-> NoReply]
  /\ lock = Nobody
  /\ asked = <<>>
  /\ wire = [c \in Handles |-> <<>>]
  /\ late = {} /\ mixed = FALSE /\ raced = FALSE

\* What goes on below the awaits of a task.
Progress(t) ==
  \/ Opens(t) \/ OpenFails(t) \/ Rejects(t) \/ ConnectReturns(t) \/ ConnectRaises(t)
  \/ Closes(t) \/ DisconnectReturns(t)
  \/ ClientSends(t) \/ Write(t) \/ WriteRaises(t) \/ Simulate(t)
  \/ Read(t) \/ WaitEnds(t) \/ AskReturns(t)

\* (A negative response differs only where replies are compared.)
Vehicle ==
  \E i \in 1 .. Len(asked) :
    Ignore(i) \/ Answer(i, TRUE) \/ (kind \in Matching /\ Answer(i, FALSE))
=============================================================================
