-------------------------- MODULE ToolServerProofs --------------------------
(***************************************************************************)
(* Theorems about ToolServer, for any number of tasks, requests and        *)
(* connections, any set of transports and any size of the thread pool.     *)
(*                                                                         *)
(* Everything rests on Control and Queued: which job a task can have while *)
(* it connects, disconnects or asks, and that what waits for a thread is   *)
(* in the queue once.  With Serial they make LockInv, which says who holds *)
(* the lock; with Accounts and Stopping DeviceInv, which says at each      *)
(* stage of a connect or disconnect what is open; with Flags and Data the  *)
(* types.                                                                  *)
(*                                                                         *)
(* That a task reads the reply to its own request depends on all that was  *)
(* asked on the channel before.  Pending says it of the channels on which  *)
(* nothing went wrong: all that is asked or on the wire there is one thing *)
(* at most, and the one task that reads there waits for it.  A channel is  *)
(* a bus with everything that is connected to it, or a socket.             *)
(***************************************************************************)
EXTENDS ToolServer, SequenceTheorems, FiniteSetTheorems, TLAPS

\* What the tasks, the thread pool and the lock are in the middle of.
Control ==
  /\ doing \in [Tasks -> Doings]
  /\ job \in [Tasks -> Jobs]
  /\ client \in [Tasks -> {"none", "queued", "running"}]
  /\ queue \in Seq(Tasks \X {"job", "client"})
  /\ lock \in Tasks \cup {Nobody}
  /\ \A t \in Tasks :
       /\ job[t] # "none" => doing[t] \in {"connect", "disconnect", "ask"}
       /\ client[t] # "none" => doing[t] = "ask"
       /\ client[t] = "queued" => job[t] = "none"

\* What waits for a thread is there once, and has not had one yet.
Queued ==
  /\ \A i \in 1 .. Len(queue) :
       /\ queue[i][2] = "job" => job[queue[i][1]] = "queued"
       /\ queue[i][2] = "client" => client[queue[i][1]] = "queued"
  /\ \A i, j \in 1 .. Len(queue) : queue[i] = queue[j] => i = j

\* Who is between a request and the end of its wait holds the lock.
Serial ==
  kind \in Locked =>
    \A t \in Tasks : (doing[t] = "ask" /\ job[t] = "reading") <=> lock = t

LockInv == Control /\ Queued /\ Serial

-----------------------------------------------------------------------------
(* One exchange at a time.                                                 *)

\* At first nothing waits and the lock is free.
LEMMA LockInit == Init => LockInv
BY TransportsAssumption
   DEF Init, TransportInit, LockInv, Control, Queued, Serial, Doings, Jobs, Nobody

\* An entry of the queue is a task and what it waits for.
LEMMA Entries ==
  ASSUME Control
  PROVE  \A i \in 1 .. Len(queue) :
           /\ queue[i][1] \in Tasks /\ queue[i][2] \in {"job", "client"}
           /\ queue[i] = <<queue[i][1], queue[i][2]>>
BY DEF Control

\* A task whose call ends had left the queue: what is in it stays true.
LEMMA FinishKeeps ==
  ASSUME Control, Queued, NEW t \in Tasks, Finish(t), queue' = queue,
         lock' \in Tasks \cup {Nobody}, job[t] # "queued", client[t] # "queued"
  PROVE  Control' /\ Queued'
<1>1. Control'
  BY DEF Control, Finish, Doings, Jobs
<1>2. Queued'
  <2>1. \A i \in 1 .. Len(queue) : queue[i][1] # t
    BY Entries DEF Queued
  <2> QED BY <2>1, Entries DEF Control, Queued, Finish
<1> QED BY <1>1, <1>2

\* What comes to the end of the queue.
LEMMA Appended ==
  ASSUME NEW S, NEW q \in Seq(S), NEW e \in S
  PROVE  /\ Append(q, e) \in Seq(S) /\ Len(Append(q, e)) = Len(q) + 1
         /\ \A i \in 1 .. Len(q) : Append(q, e)[i] = q[i]
         /\ Append(q, e)[Len(q) + 1] = e
BY AppendProperties

\* What leaves its head.
LEMMA Tailed ==
  ASSUME NEW S, NEW q \in Seq(S), q # <<>>
  PROVE  /\ Head(q) \in S /\ Head(q) = q[1]
         /\ Tail(q) \in Seq(S) /\ Len(Tail(q)) = Len(q) - 1 /\ Len(q) \in Nat \ {0}
         /\ \A i \in 1 .. Len(q) - 1 : Tail(q)[i] = q[i + 1]
BY HeadTailProperties

\* An entry for a task that had none keeps the queue right.
LEMMA EnqueueKeeps ==
  ASSUME Control, Queued, NEW t \in Tasks, NEW what \in {"job", "client"},
         queue' = Append(queue, <<t, what>>),
         \A u \in Tasks \ {t} : job'[u] = job[u] /\ client'[u] = client[u],
         job[t] = "none", client[t] # "queued",
         IF what = "job" THEN job'[t] = "queued" ELSE client'[t] = "queued"
  PROVE  queue' \in Seq(Tasks \X {"job", "client"}) /\ Queued'
<1>1. \A i \in 1 .. Len(queue) : queue[i][1] # t
  BY Entries DEF Queued
<1>2. /\ queue' \in Seq(Tasks \X {"job", "client"}) /\ Len(queue') = Len(queue) + 1
      /\ \A i \in 1 .. Len(queue) : queue'[i] = queue[i]
      /\ queue'[Len(queue) + 1] = <<t, what>>
  BY Appended, <<t, what>> \in Tasks \X {"job", "client"} DEF Control
<1>3. Len(queue) \in Nat
  BY DEF Control
<1>4. \A i \in 1 .. Len(queue') :
        IF i = Len(queue) + 1 THEN queue'[i] = <<t, what>>
        ELSE i \in 1 .. Len(queue) /\ queue'[i] = queue[i] /\ queue[i][1] # t
  BY <1>1, <1>2, <1>3
<1>5. \A i \in 1 .. Len(queue') :
        /\ queue'[i][2] = "job" => job'[queue'[i][1]] = "queued"
        /\ queue'[i][2] = "client" => client'[queue'[i][1]] = "queued"
  BY <1>4, Entries DEF Queued
<1>6. \A i, j \in 1 .. Len(queue') : queue'[i] = queue'[j] => i = j
  BY <1>4, <1>3, <1>2 DEF Queued
<1> QED BY <1>2, <1>5, <1>6 DEF Queued

\* A job is handed over: to the end of the queue, or to the loop.
LEMMA SubmitKeeps ==
  ASSUME Control, Queued, NEW t \in Tasks, Submit(t), client' = client,
         lock' \in Tasks \cup {Nobody}, job[t] = "none", client[t] # "queued",
         NEW d \in {"connect", "disconnect", "ask"}, doing' = [doing EXCEPT ![t] = d],
         client[t] # "none" => d = "ask"
  PROVE  Control' /\ Queued'
<1>1. CASE kind \in Threaded
  <2>1. queue' \in Seq(Tasks \X {"job", "client"}) /\ Queued'
    BY <1>1, EnqueueKeeps DEF Submit, Control
  <2> QED BY <1>1, <2>1 DEF Control, Submit, Doings, Jobs
<1>2. CASE kind \notin Threaded
  <2>1. \A i \in 1 .. Len(queue) : queue[i][1] # t
    BY Entries DEF Queued
  <2>2. Control' /\ queue' = queue
    BY <1>2 DEF Control, Submit, Doings, Jobs
  <2> QED BY <1>2, <2>1, <2>2, Entries DEF Control, Queued, Submit
<1> QED BY <1>1, <1>2

\* A job goes on.
LEMMA GoesOn ==
  ASSUME Control, Queued, NEW t \in Tasks, job[t] \notin {"none", "queued"},
         NEW x \in {"reading", "done", "raised"}, job' = [job EXCEPT ![t] = x],
         doing' = doing, client' = client, queue' = queue, lock' \in Tasks \cup {Nobody}
  PROVE  Control' /\ Queued'
<1>1. Control'
  BY DEF Control, Jobs
<1>2. Queued'
  BY Entries DEF Control, Queued
<1> QED BY <1>1, <1>2

\* Nothing of it moves.
LEMMA QuietKeeps ==
  ASSUME Control, Queued, UNCHANGED <<doing, job, client, queue, lock>>
  PROVE  Control' /\ Queued'
BY DEF Control, Queued

\* A thread takes the head of the queue.
LEMMA StartKeeps ==
  ASSUME Control, Queued, StartJob
  PROVE  Control' /\ Queued'
<1> DEFINE t == Head(queue)[1]
           what == Head(queue)[2]
<1>1. queue # <<>> /\ queue' = Tail(queue) /\ doing' = doing /\ lock' = lock
  BY DEF StartJob, device, line
<1>2. /\ Len(queue) \in Nat \ {0} /\ Head(queue) = queue[1]
      /\ queue' \in Seq(Tasks \X {"job", "client"}) /\ Len(queue') = Len(queue) - 1
      /\ \A i \in 1 .. Len(queue') : i + 1 \in 1 .. Len(queue) /\ queue'[i] = queue[i + 1]
  BY <1>1, Tailed DEF Control
<1>3. 1 \in 1 .. Len(queue)
  BY <1>2
<1>4. t \in Tasks /\ what \in {"job", "client"} /\ queue[1] = <<t, what>>
  BY <1>2, <1>3, Entries
<1>5. \/ /\ what = "job" /\ job[t] = "queued"
         /\ job' = [job EXCEPT ![t] = "running"] /\ client' = client
      \/ /\ what = "client" /\ client[t] = "queued"
         /\ client' = [client EXCEPT ![t] = "running"] /\ job' = job
  BY <1>2, <1>3 DEF StartJob, Queued
<1> HIDE DEF t, what
<1>6. Control'
  <2>1. job' \in [Tasks -> Jobs] /\ client' \in [Tasks -> {"none", "queued", "running"}]
    BY <1>4, <1>5 DEF Control, Jobs
  <2> QED BY <1>1, <1>2, <1>4, <1>5, <2>1 DEF Control
<1>7. \A i \in 1 .. Len(queue') : queue'[i] # <<t, what>>
  <2> SUFFICES ASSUME NEW i \in 1 .. Len(queue'), queue'[i] = <<t, what>> PROVE FALSE
    OBVIOUS
  <2>1. i + 1 \in 1 .. Len(queue) /\ queue[i + 1] = queue[1]
    BY <1>2, <1>4
  <2>2. i + 1 = 1
    BY <2>1, <1>3 DEF Queued
  <2> QED BY <2>2
<1>8. \A i, j \in 1 .. Len(queue') : queue'[i] = queue'[j] => i = j
  <2> TAKE i, j \in 1 .. Len(queue')
  <2> HAVE queue'[i] = queue'[j]
  <2>1. /\ i + 1 \in 1 .. Len(queue) /\ j + 1 \in 1 .. Len(queue)
        /\ queue[i + 1] = queue[j + 1]
    BY <1>2
  <2>2. i + 1 = j + 1
    BY <2>1 DEF Queued
  <2> QED BY <2>2
<1>9. \A i \in 1 .. Len(queue') :
        /\ queue'[i][2] = "job" => job'[queue'[i][1]] = "queued"
        /\ queue'[i][2] = "client" => client'[queue'[i][1]] = "queued"
  <2> TAKE i \in 1 .. Len(queue')
  <2> DEFINE u == queue'[i][1]
             k == queue'[i][2]
  <2>1. /\ u \in Tasks /\ k \in {"job", "client"} /\ queue'[i] = <<u, k>>
        /\ k = "job" => job[u] = "queued"
        /\ k = "client" => client[u] = "queued"
    BY <1>2, Entries DEF Queued
  <2>2. u # t \/ k # what
    BY <2>1, <1>7
  <2> QED BY <2>1, <2>2, <1>4, <1>5 DEF Control
<1> QED BY <1>6, <1>8, <1>9 DEF Queued

\* And it is the only one whose job or client changes.
LEMMA StartsOne ==
  ASSUME Control, Queued, StartJob
  PROVE  \E t \in Tasks :
           \/ job[t] = "queued" /\ job' = [job EXCEPT ![t] = "running"] /\ client' = client
           \/ client' = [client EXCEPT ![t] = "running"] /\ job' = job
<1>1. Len(queue) \in Nat \ {0} /\ Head(queue) = queue[1]
  BY Tailed DEF StartJob, Control
<1>2. queue[1][1] \in Tasks
  BY <1>1, Entries
<1> QED BY <1>1, <1>2 DEF StartJob, Queued

\* Every step keeps what is in progress and the queue right.
LEMMA ControlStep == Control /\ Queued /\ [Next]_vars => Control' /\ Queued'
<1> SUFFICES ASSUME Control, Queued, [Next]_vars PROVE Control' /\ Queued'
  OBVIOUS
<1> USE DEF tvars, device, pool, line, sniffer
<1>0. lock \in Tasks \cup {Nobody} /\ doing \in [Tasks -> Doings]
  BY DEF Control
<1>1. ASSUME NEW t \in Tasks, connect_device(t) PROVE Control' /\ Queued'
  <2>1. job[t] = "none" /\ client[t] = "none"
    BY <1>1 DEF Control, connect_device, Calls, Idle
  <2> QED BY <1>0, <1>1, <2>1, SubmitKeeps DEF connect_device, Connect, Begin
<1>2. ASSUME NEW t \in Tasks, Calls(t), Disconnect(t) PROVE Control' /\ Queued'
  <2>1. job[t] = "none" /\ client[t] = "none"
    BY <1>2 DEF Control, Calls, Idle
  <2>2. CASE held = None
    BY <1>2, <2>2, QuietKeeps DEF Disconnect
  <2>3. CASE held # None
    BY <1>0, <1>2, <2>1, <2>3, SubmitKeeps DEF Disconnect, Begin
  <2> QED BY <2>2, <2>3
<1>3. ASSUME NEW t \in Tasks, NEW r \in Requests, Calls(t), Ask(t, r)
      PROVE  Control' /\ Queued'
  <2>1. job[t] = "none" /\ client[t] = "none"
    BY <1>3 DEF Control, Calls, Idle
  <2> QED BY <1>0, <1>3, <2>1, SubmitKeeps DEF Ask
<1>4. ASSUME NEW t \in Tasks, NEW r \in Requests, uds_service(t, r)
      PROVE  Control' /\ Queued'
  <2>1. job[t] = "none" /\ client[t] = "none"
    BY <1>4 DEF Control, uds_service, Calls, Idle
  <2>2. queue' \in Seq(Tasks \X {"job", "client"}) /\ Queued'
    BY <1>4, <2>1, EnqueueKeeps DEF Control, uds_service, AskByClient
  <2>3. Control'
    BY <1>4, <2>1, <2>2 DEF Control, uds_service, AskByClient, Doings
  <2> QED BY <2>2, <2>3
<1>5. ASSUME NEW t \in Tasks, stop_capture(t) PROVE Control' /\ Queued'
  BY <1>5, QuietKeeps DEF Control, Queued, stop_capture, Calls, Idle, Doings
<1>6. ASSUME NEW t \in Tasks, stop_returns(t) PROVE Control' /\ Queued'
  BY <1>6 DEF Control, Queued, stop_returns, Doings
<1>7. ASSUME NEW t \in Tasks, ClientSends(t) PROVE Control' /\ Queued'
  <2>1. doing' = [doing EXCEPT ![t] = "ask"] \/ Finish(t)
    BY <1>7 DEF ClientSends, Control
  <2>2. CASE Usable /\ kind # "elm327"
    BY <1>0, <1>7, <2>2, SubmitKeeps DEF ClientSends, Control
  <2>3. CASE ~(Usable /\ kind # "elm327")
    BY <1>0, <1>7, <2>3, FinishKeeps DEF ClientSends
  <2> QED BY <2>2, <2>3
<1>8. ASSUME NEW t \in Tasks,
             ConnectReturns(t) \/ ConnectRaises(t) \/ DisconnectReturns(t) \/ AskReturns(t)
      PROVE  Control' /\ Queued'
  <2>1. job[t] # "queued" /\ client[t] # "queued"
    BY <1>8 DEF Control, ConnectReturns, ConnectRaises, DisconnectReturns, AskReturns
  <2> QED BY <1>0, <1>8, <2>1, FinishKeeps
          DEF ConnectReturns, ConnectRaises, DisconnectReturns, AskReturns
<1>9. ASSUME NEW t \in Tasks, WriteRaises(t) \/ WaitEnds(t) PROVE Control' /\ Queued'
  <2>1. job[t] # "queued" /\ client[t] # "queued" /\ lock' \in Tasks \cup {Nobody}
    BY <1>0, <1>9 DEF Control, WriteRaises, WaitEnds, Release
  <2> QED BY <1>9, <2>1, FinishKeeps DEF WriteRaises, WaitEnds
<1>10. ASSUME NEW t \in Tasks,
              Opens(t) \/ OpenFails(t) \/ Rejects(t) \/ Closes(t) \/ Write(t) \/ Simulate(t)
       PROVE  Control' /\ Queued'
  BY <1>0, <1>10, GoesOn DEF Opens, OpenFails, Rejects, Closes, Write, Simulate
<1>11. ASSUME NEW t \in Tasks, Read(t) PROVE Control' /\ Queued'
  <2>1. \/ UNCHANGED <<doing, job, client, queue, lock>>
        \/ /\ job' = [job EXCEPT ![t] = "done"] /\ lock' \in Tasks \cup {Nobody}
           /\ UNCHANGED <<doing, client, queue>>
    BY <1>0, <1>11 DEF Read, Release
  <2>2. job[t] = "reading"
    BY <1>11 DEF Read
  <2> QED BY <2>1, <2>2, QuietKeeps, GoesOn
<1>12. ASSUME StartJob PROVE Control' /\ Queued'
  BY <1>12, StartKeeps
<1>13. ASSUME UNCHANGED <<doing, job, client, queue, lock>> PROVE Control' /\ Queued'
  BY <1>13, QuietKeeps
<1>14. ASSUME NEW t \in Tasks, start_capture(t) PROVE Control' /\ Queued'
  BY <1>13, <1>14 DEF start_capture
<1>15. ASSUME NEW i, Ignore(i) \/ Answer(i, TRUE) \/ Answer(i, FALSE) PROVE Control' /\ Queued'
  BY <1>13, <1>15 DEF Ignore, Answer
<1>16. ASSUME NEW t \in Tasks, lifespan_ends(t) PROVE Control' /\ Queued'
  BY <1>2, <1>13, <1>16 DEF lifespan_ends, Calls
<1>17. ASSUME decode_loop \/ UNCHANGED vars PROVE Control' /\ Queued'
  BY <1>13, <1>17 DEF decode_loop, vars
<1> QED
  BY <1>1, <1>2, <1>3, <1>4, <1>5, <1>6, <1>7, <1>8, <1>9, <1>10, <1>11, <1>12,
     <1>14, <1>15, <1>16, <1>17
     DEF Next, Below, Progress, Vehicle, disconnect_device, query, kwp_service

\* The end of an exchange, or a step of another one, leaves the lock as it
\* should be: it changes only with what its holder does.
LEMMA SerialStep == LockInv /\ [Next]_vars => Serial'
<1> SUFFICES ASSUME Control, Queued, Serial, [Next]_vars PROVE Serial'
  BY DEF LockInv
<1> USE DEF tvars, device, pool, line, sniffer, Control
<1>a. \A t \in Tasks : t # Nobody
  BY TransportsAssumption DEF Nobody
<1>1. ASSUME NEW t \in Tasks, connect_device(t) PROVE Serial'
  BY <1>1 DEF Serial, connect_device, Connect, Begin, Submit, Calls, Idle
<1>2. ASSUME NEW t \in Tasks, Calls(t), Disconnect(t) PROVE Serial'
  BY <1>2 DEF Serial, Disconnect, Begin, Submit, Calls, Idle
<1>3. ASSUME NEW t \in Tasks, NEW r \in Requests, Calls(t), Ask(t, r) PROVE Serial'
  BY <1>3 DEF Serial, Ask, Submit, Calls, Idle
<1>4. ASSUME NEW t \in Tasks, NEW r \in Requests, uds_service(t, r) PROVE Serial'
  BY <1>4 DEF Serial, uds_service, AskByClient, Calls, Idle
<1>5. ASSUME NEW t \in Tasks, stop_capture(t) \/ stop_returns(t) PROVE Serial'
  BY <1>5 DEF Serial, stop_capture, stop_returns, Calls, Idle
<1>6. ASSUME NEW t \in Tasks, ClientSends(t) PROVE Serial'
  BY <1>6 DEF Serial, ClientSends, Submit, Finish
<1>7. ASSUME NEW t \in Tasks,
             \/ ConnectReturns(t) \/ ConnectRaises(t) \/ DisconnectReturns(t)
             \/ AskReturns(t) \/ WriteRaises(t)
      PROVE  Serial'
  BY <1>7 DEF Serial, ConnectReturns, ConnectRaises, DisconnectReturns, AskReturns,
              WriteRaises, Finish
<1>8. ASSUME NEW t \in Tasks, Opens(t) \/ OpenFails(t) \/ Rejects(t) \/ Closes(t) \/ Simulate(t)
      PROVE  Serial'
  BY <1>8 DEF Serial, Opens, OpenFails, Rejects, Closes, Simulate
<1>9. ASSUME NEW t \in Tasks, Write(t) PROVE Serial'
  BY <1>9, <1>a DEF Serial, Write, Permitted
<1>10. ASSUME NEW t \in Tasks, Read(t) PROVE Serial'
  BY <1>10, <1>a DEF Serial, Read, Release
<1>11. ASSUME NEW t \in Tasks, WaitEnds(t) PROVE Serial'
  BY <1>11, <1>a DEF Serial, WaitEnds, Release, Finish
<1>12. ASSUME StartJob PROVE Serial'
  <2>1. PICK t \in Tasks : \/ job[t] = "queued" /\ job' = [job EXCEPT ![t] = "running"]
                           \/ job' = job
    BY <1>12, StartsOne
  <2>2. kind' = kind /\ doing' = doing /\ lock' = lock
    BY <1>12 DEF StartJob
  <2> QED BY <2>1, <2>2 DEF Serial
<1>13. ASSUME UNCHANGED <<kind, doing, job, lock>> PROVE Serial'
  BY <1>13 DEF Serial
<1>14. ASSUME NEW t \in Tasks, start_capture(t) PROVE Serial'
  BY <1>13, <1>14 DEF start_capture
<1>15. ASSUME NEW i, Ignore(i) \/ Answer(i, TRUE) \/ Answer(i, FALSE) PROVE Serial'
  BY <1>13, <1>15 DEF Ignore, Answer
<1>16. ASSUME NEW t \in Tasks, lifespan_ends(t) PROVE Serial'
  BY <1>2, <1>13, <1>16 DEF lifespan_ends, Calls
<1>17. ASSUME decode_loop \/ UNCHANGED vars PROVE Serial'
  BY <1>13, <1>17 DEF decode_loop, vars
<1> QED
  BY <1>1, <1>2, <1>3, <1>4, <1>5, <1>6, <1>7, <1>8, <1>9, <1>10, <1>11, <1>12,
     <1>14, <1>15, <1>16, <1>17
     DEF Next, Below, Progress, Vehicle, disconnect_device, query, kwp_service

\* The invariant: the state of every task, the queue, the lock.
THEOREM LockInvariant == Spec => []LockInv
<1>1. LockInv /\ [Next]_vars => LockInv'
  BY ControlStep, SerialStep DEF LockInv
<1> QED BY <1>1, LockInit, PTL DEF Spec

\* The transport stays the one that is configured.
LEMMA KindStays == [Next]_vars => kind' = kind
BY ZenonT(60) DEF Next, Below, Progress, Vehicle, vars, tvars, sniffer,
       connect_device, disconnect_device, query, kwp_service, uds_service,
       start_capture, stop_capture, stop_returns, lifespan_ends, decode_loop,
       Connect, Disconnect, Ask, AskByClient, ClientSends, StartJob,
       ConnectReturns, ConnectRaises, DisconnectReturns, AskReturns,
       Opens, OpenFails, Rejects, Closes, Simulate, Write, WriteRaises, Read, WaitEnds,
       Ignore, Answer

\* Only a free lock is taken, and only by one task.
LEMMA LockStep ==
  ASSUME Control, [Next]_vars, kind \in Locked
  PROVE  lock' = lock \/ lock = Nobody \/ lock' = Nobody
BY ZenonT(60) DEF Control, Next, Below, Progress, Vehicle, vars, tvars, device, pool, line, sniffer,
       connect_device, disconnect_device, query, kwp_service, uds_service,
       start_capture, stop_capture, stop_returns, lifespan_ends, decode_loop,
       Connect, Disconnect, Ask, AskByClient, ClientSends, StartJob,
       ConnectReturns, ConnectRaises, DisconnectReturns, AskReturns,
       Opens, OpenFails, Rejects, Closes, Simulate, Write, WriteRaises, Read, WaitEnds,
       Permitted, Release, Ignore, Answer

\* OneExchangeAtATime: the transports with a lock let one exchange at a time on
\* their channel, as SerialChannel has it, whatever the tasks do and whatever
\* happens to the device meanwhile.
THEOREM LockMakesSerial == Spec => OneExchangeAtATime
<1>1. /\ LockInv => Talking = IF kind \in Locked /\ lock \in Tasks THEN {lock} ELSE {}
      /\ LockInv' => Talking' = IF kind' \in Locked /\ lock' \in Tasks THEN {lock'} ELSE {}
  BY DEF LockInv, Control, Serial, Talking
<1>2. Init => IoLock!Init
  BY DEF Init, TransportInit, IoLock!Init, Talking
<1>3. LockInv /\ LockInv' /\ [Next]_vars => [IoLock!Next]_Talking
  <2> SUFFICES ASSUME LockInv, LockInv', [Next]_vars PROVE [IoLock!Next]_Talking
    OBVIOUS
  <2>1. kind' = kind
    BY KindStays
  <2>2. CASE kind \notin Locked
    BY <2>1, <2>2 DEF Talking
  <2>3. CASE kind \in Locked
    <3>1. lock' = lock \/ lock = Nobody \/ lock' = Nobody
      BY <2>3, LockStep DEF LockInv
    <3>2. Talking = (IF lock \in Tasks THEN {lock} ELSE {})
          /\ Talking' = (IF lock' \in Tasks THEN {lock'} ELSE {})
      BY <1>1, <2>1, <2>3
    <3>3. Nobody \notin Tasks /\ lock \in Tasks \cup {Nobody} /\ lock' \in Tasks \cup {Nobody}
      BY TransportsAssumption DEF LockInv, Control, Nobody
    <3> QED BY <3>1, <3>2, <3>3 DEF IoLock!Next, IoLock!Take, IoLock!Release
  <2> QED BY <2>2, <2>3
<1> QED BY <1>2, <1>3, LockInvariant, PTL DEF Spec, OneExchangeAtATime, IoLock!Spec

-----------------------------------------------------------------------------
(* The device.                                                             *)

\* What an attempt to connect has opened when its job is done, and what a
\* disconnect is to close.
Opened(t)  == IF kind \in Captures THEN conn[t] ELSE held
ToClose(t) == IF kind \in Captures \cup {"doip"} THEN conn[t] ELSE held

\* As long as no two connects or disconnects overlapped: what is open is what
\* status claims, or what the one that is under way has opened or not closed yet.
Accounts ==
  ~raced =>
    /\ \A t, u \in Changing : t = u
    /\ Changing = {} => IF is_connected THEN open = {held} /\ held # None ELSE open = {}
    /\ \A t \in Tasks : doing[t] = "connect" =>
         /\ ~is_connected
         /\ job[t] \in {"queued", "running", "done", "raised"}
         /\ job[t] \in {"queued", "running"} => open = {}
         /\ job[t] = "done" => open = {Opened(t)} /\ Opened(t) # None
         /\ job[t] = "raised" => open = {} \/ (kind = "doip" /\ open = {held})
    /\ \A t \in Tasks : doing[t] = "disconnect" =>
         /\ job[t] \in {"queued", "running", "done"}
         /\ job[t] # "done" => open = {ToClose(t)}
         /\ job[t] = "done" => open = {}

\* The server stops when no call is left, and goes on with its disconnect.
Stopping ==
  ~serving =>
    /\ \A t \in Tasks : doing[t] \in {"idle", "disconnect"}
    /\ ~raced /\ is_connected => Changing # {}

\* The numbers of connections.
Numbers == opens \in Nat /\ held \in Nat /\ conn \in [Tasks -> Nat]

DeviceInv == Control /\ Queued /\ Numbers /\ Accounts /\ Stopping

\* At first nothing is open.
LEMMA DeviceInit == Init => DeviceInv
BY LockInit, TransportsAssumption
   DEF Init, TransportInit, LockInv, DeviceInv, Numbers, None,
       Accounts, Stopping, Changing, is_connected

\* Connections keep their numbers.
LEMMA NumbersStep == Numbers /\ [Next]_vars => Numbers'
<1> SUFFICES ASSUME Numbers, [Next]_vars PROVE Numbers'
  OBVIOUS
<1> USE DEF Numbers, None, Captured, tvars, device, pool, line, sniffer
<1>1. ASSUME NEW t \in Tasks, connect_device(t) PROVE Numbers'
  BY <1>1 DEF connect_device, Connect, Begin
<1>2. ASSUME NEW t \in Tasks, Disconnect(t) PROVE Numbers'
  BY <1>2 DEF Disconnect, Begin
<1>3. ASSUME NEW t \in Tasks, NEW r, Ask(t, r) \/ AskByClient(t, r) PROVE Numbers'
  BY <1>3 DEF Ask, AskByClient
<1>4. ASSUME NEW t \in Tasks, Progress(t) PROVE Numbers'
  <2>1. ASSUME Opens(t) PROVE Numbers'
    BY <2>1 DEF Opens
  <2>2. ASSUME ConnectReturns(t) PROVE Numbers'
    BY <2>2 DEF ConnectReturns, Finish
  <2>3. ASSUME ConnectRaises(t) \/ DisconnectReturns(t) \/ WriteRaises(t) \/ WaitEnds(t) \/ AskReturns(t)
        PROVE  Numbers'
    BY <2>3 DEF ConnectRaises, DisconnectReturns, WriteRaises, WaitEnds, AskReturns, Finish
  <2>4. ASSUME ClientSends(t) PROVE Numbers'
    BY <2>4 DEF ClientSends, Finish
  <2>5. ASSUME Write(t) \/ Closes(t) PROVE Numbers'
    BY <2>5 DEF Write, Closes
  <2>6. ASSUME OpenFails(t) \/ Rejects(t) \/ Simulate(t) \/ Read(t) PROVE Numbers'
    BY <2>6 DEF OpenFails, Rejects, Simulate, Read
  <2> QED BY <1>4, <2>1, <2>2, <2>3, <2>4, <2>5, <2>6 DEF Progress
<1>5. ASSUME StartJob \/ Vehicle \/ decode_loop \/ UNCHANGED vars PROVE Numbers'
  BY <1>5 DEF StartJob, Vehicle, Answer, Ignore, decode_loop, vars
<1>6. ASSUME NEW t \in Tasks, start_capture(t) \/ stop_capture(t) \/ stop_returns(t) PROVE Numbers'
  BY <1>6 DEF start_capture, stop_capture, stop_returns
<1>7. ASSUME NEW t \in Tasks, lifespan_ends(t) PROVE Numbers'
  BY <1>2, <1>7 DEF lifespan_ends
<1> QED BY <1>1, <1>2, <1>3, <1>4, <1>5, <1>6, <1>7
        DEF Next, Below, disconnect_device, query, kwp_service, uds_service

\* What a task does that neither connects nor disconnects leaves it all alone.
LEMMA AsideKeeps ==
  ASSUME Control, Numbers, Accounts, NEW t \in Tasks, UNCHANGED <<kind, device>>,
         doing[t] \notin {"connect", "disconnect"}, doing'[t] \notin {"connect", "disconnect"},
         \A u \in Tasks \ {t} : doing'[u] = doing[u] /\ job'[u] = job[u] /\ conn'[u] = conn[u]
  PROVE  Accounts'
<1> USE DEF device
<1>1. Changing' = Changing
  BY DEF Changing
<1>2. \A u \in Tasks : doing[u] \in {"connect", "disconnect"} <=> doing'[u] \in {"connect", "disconnect"}
  OBVIOUS
<1> QED BY <1>1, <1>2 DEF Accounts, is_connected, Opened, ToClose

\* The only one that connects or disconnects is this one.
LEMMA Only ==
  ASSUME Accounts, ~raced, NEW t \in Tasks, doing[t] \in {"connect", "disconnect"}
  PROVE  \A u \in Tasks : doing[u] \in {"connect", "disconnect"} => u = t
BY DEF Accounts, Changing

\* A connect begins on a device that is closed; if another one is under way,
\* nothing is claimed any more.
LEMMA ConnectAccounts ==
  ASSUME DeviceInv, NEW t \in Tasks, connect_device(t)
  PROVE  Accounts'
<1> USE DEF connect_device, Connect, Begin, Calls, Idle, is_connected, DeviceInv
<1> SUFFICES ASSUME ~raced' PROVE Accounts'
  BY DEF Accounts
<1>1. ~raced /\ Changing = {}
  OBVIOUS
<1>2. open = {} /\ open' = {} /\ status' # "CONNECTED"
  BY <1>1 DEF Accounts
<1>3. doing' = [doing EXCEPT ![t] = "connect"] /\ job'[t] \in {"queued", "running"}
  BY DEF Control, Submit
<1>4. \A u \in Tasks : doing'[u] \in {"connect", "disconnect"} <=> u = t
  BY <1>1, <1>3 DEF Changing, Control
<1> QED BY <1>2, <1>3, <1>4 DEF Accounts, Changing, Control

\* A disconnect begins with the one connection that is open.
LEMMA DisconnectAccounts ==
  ASSUME DeviceInv, NEW t \in Tasks, Calls(t), is_connected, Disconnect(t)
  PROVE  Accounts'
<1> USE DEF Begin, Calls, Idle, is_connected, DeviceInv
<1> SUFFICES ASSUME ~raced' PROVE Accounts'
  BY DEF Accounts
<1>1. CASE held # None
  <2>1. ~raced /\ Changing = {}
    BY <1>1 DEF Disconnect
  <2>2. open = {held} /\ open' = open /\ held' = held /\ kind' = kind
    BY <1>1, <2>1 DEF Accounts, Disconnect
  <2>3. /\ doing' = [doing EXCEPT ![t] = "disconnect"] /\ job'[t] \in {"queued", "running"}
        /\ conn'[t] = IF kind \in Captures \cup {"doip"} THEN held ELSE None
    BY <1>1 DEF Disconnect, Control, Submit, Numbers
  <2>4. \A u \in Tasks : doing'[u] \in {"connect", "disconnect"} <=> u = t
    BY <2>1, <2>3 DEF Changing, Control
  <2>5. open' = {ToClose(t)'}
    BY <2>2, <2>3 DEF ToClose
  <2> QED BY <2>3, <2>4, <2>5 DEF Accounts, Changing, Control
<1>2. CASE held = None
  <2>1. ~raced /\ UNCHANGED <<open, held, doing, job, kind, conn, raced>> /\ status' = "DISCONNECTED"
    BY <1>2 DEF Disconnect, device
  <2>2. Changing # {} /\ Changing' = Changing
    BY <1>2, <2>1 DEF Accounts, Changing
  <2> QED BY <2>1, <2>2 DEF Accounts, Changing, Opened, ToClose
<1> QED BY <1>1, <1>2

\* The job of a connect or a disconnect is done, in one way or the other.
LEMMA JobAccounts ==
  ASSUME DeviceInv, NEW t \in Tasks, Opens(t) \/ OpenFails(t) \/ Rejects(t) \/ Closes(t)
  PROVE  Accounts'
<1> USE DEF is_connected, DeviceInv
<1> SUFFICES ASSUME ~raced' PROVE Accounts'
  BY DEF Accounts
<1>1. ~raced /\ kind' = kind /\ status' = status /\ doing' = doing /\ Changing' = Changing
  BY DEF Opens, OpenFails, Rejects, Closes, device, Changing
<1>2. doing[t] \in {"connect", "disconnect"}
  BY DEF Opens, OpenFails, Rejects, Closes
<1>3. \A u \in Tasks : doing[u] \in {"connect", "disconnect"} => u = t
  BY <1>1, <1>2, Only
<1>4. Changing # {} /\ \A u, v \in Changing : u = v
  BY <1>2, <1>3 DEF Changing
<1>5. CASE Opens(t)
  <2>1. doing[t] = "connect" /\ open = {} /\ status # "CONNECTED"
    BY <1>1, <1>5 DEF Opens, Accounts
  <2>2. opens' # None /\ job'[t] = "done" /\ open' = {opens'} /\ Opened(t)' = opens'
    BY <1>5, <2>1 DEF Opens, Numbers, Control, None, Opened
  <2> QED BY <1>1, <1>3, <1>4, <2>1, <2>2 DEF Accounts
<1>6. CASE OpenFails(t)
  <2>1. doing[t] = "connect" /\ open = {} /\ status # "CONNECTED"
    BY <1>1, <1>6 DEF OpenFails, Accounts
  <2>2. open' = {} /\ job'[t] = "raised"
    BY <1>6, <2>1 DEF OpenFails, device, Control
  <2> QED BY <1>1, <1>3, <1>4, <2>1, <2>2 DEF Accounts
<1>7. CASE Rejects(t)
  <2>1. doing[t] = "connect" /\ open = {held} /\ status # "CONNECTED" /\ kind = "doip"
    BY <1>1, <1>7 DEF Rejects, Accounts, Opened, Captures
  <2>2. open' = open /\ held' = held /\ job'[t] = "raised"
    BY <1>7 DEF Rejects, device, Control
  <2> QED BY <1>1, <1>3, <1>4, <2>1, <2>2 DEF Accounts
<1>8. CASE Closes(t)
  <2>1. doing[t] = "disconnect" /\ open = {ToClose(t)}
    BY <1>1, <1>8 DEF Closes, Accounts
  <2>2. open' = {} /\ job'[t] = "done"
    BY <1>8, <2>1 DEF Closes, Close, ToClose, Control
  <2> QED BY <1>1, <1>3, <1>4, <2>1, <2>2 DEF Accounts
<1> QED BY <1>5, <1>6, <1>7, <1>8

\* And then the call returns or raises, and status says what is open.
LEMMA ReturnAccounts ==
  ASSUME DeviceInv, NEW t \in Tasks,
         ConnectReturns(t) \/ ConnectRaises(t) \/ DisconnectReturns(t)
  PROVE  Accounts'
<1> USE DEF is_connected, DeviceInv
<1> SUFFICES ASSUME ~raced' PROVE Accounts'
  BY DEF Accounts
<1>1. ~raced /\ doing[t] \in {"connect", "disconnect"} /\ doing' = [doing EXCEPT ![t] = "idle"]
  BY DEF ConnectReturns, ConnectRaises, DisconnectReturns, Finish
<1>2. \A u \in Tasks : doing'[u] \notin {"connect", "disconnect"}
  BY <1>1, Only DEF Control
<1>3. Changing' = {}
  BY <1>2 DEF Changing
<1>4. CASE ConnectReturns(t)
  <2>1. open = {Opened(t)} /\ Opened(t) # None
    BY <1>1, <1>4 DEF ConnectReturns, Accounts
  <2>2. open' = {held'} /\ held' # None /\ status' = "CONNECTED"
    BY <1>4, <2>1 DEF ConnectReturns, Opened
  <2> QED BY <1>2, <1>3, <2>2 DEF Accounts
<1>5. CASE ConnectRaises(t)
  <2>1. open = {} \/ (kind = "doip" /\ open = {held})
    BY <1>1, <1>5 DEF ConnectRaises, Accounts
  <2>2. ~is_connected
    BY <1>1, <1>5 DEF ConnectRaises, Accounts
  <2>3. open' = {} /\ ~is_connected'
    BY <1>5, <2>1, <2>2 DEF ConnectRaises, Close, is_connected
  <2> QED BY <1>2, <1>3, <2>3 DEF Accounts
<1>6. CASE DisconnectReturns(t)
  <2>1. open' = {} /\ status' = "DISCONNECTED"
    BY <1>1, <1>6 DEF DisconnectReturns, Accounts
  <2> QED BY <1>2, <1>3, <2>1 DEF Accounts
<1> QED BY <1>4, <1>5, <1>6

\* Every step leaves the device accounted for.
LEMMA AccountsStep == DeviceInv /\ [Next]_vars => Accounts'
<1> SUFFICES ASSUME DeviceInv, [Next]_vars PROVE Accounts'
  OBVIOUS
<1> USE DEF tvars, device, pool, line, sniffer, DeviceInv
<1>1. ASSUME NEW t \in Tasks, NEW r \in Requests, Calls(t), Ask(t, r) \/ AskByClient(t, r)
      PROVE  Accounts'
  <2>1. doing[t] = "idle" /\ doing' = [doing EXCEPT ![t] = "ask"] /\ UNCHANGED <<kind, device>>
    BY <1>1 DEF Calls, Idle, Ask, AskByClient
  <2>2. \A u \in Tasks \ {t} : job'[u] = job[u] /\ conn'[u] = conn[u]
    BY <1>1 DEF Ask, AskByClient, Submit, Control, Numbers
  <2> QED BY <2>1, <2>2, AsideKeeps DEF Control
<1>2. ASSUME NEW t \in Tasks, stop_capture(t) \/ stop_returns(t) PROVE Accounts'
  <2>1. /\ doing[t] \in {"idle", "stop"} /\ UNCHANGED <<kind, device, job, conn>>
        /\ doing' = doing \/ \E d \in {"idle", "stop"} : doing' = [doing EXCEPT ![t] = d]
    BY <1>2 DEF stop_capture, stop_returns, Calls, Idle
  <2> QED BY <2>1, AsideKeeps DEF Control
<1>3. ASSUME NEW t \in Tasks,
             \/ ClientSends(t) \/ Write(t) \/ WriteRaises(t) \/ Simulate(t)
             \/ Read(t) \/ WaitEnds(t) \/ AskReturns(t)
      PROVE  Accounts'
  <2>1. doing[t] = "ask" /\ UNCHANGED <<kind, device>>
    BY <1>3 DEF Control, ClientSends, Write, WriteRaises, Simulate, Read, WaitEnds, AskReturns
  <2>2. /\ doing' = doing \/ doing' = [doing EXCEPT ![t] = "idle"]
        /\ job' = job \/ job' = [job EXCEPT ![t] = job'[t]]
        /\ conn' = conn \/ conn' = [conn EXCEPT ![t] = conn'[t]]
    BY <1>3 DEF Control, Numbers, ClientSends, Write, WriteRaises, Simulate, Read, WaitEnds,
                AskReturns, Finish, Submit
  <2>3. \A u \in Tasks \ {t} : job'[u] = job[u] /\ conn'[u] = conn[u]
    BY <2>2 DEF Control, Numbers
  <2> QED BY <2>1, <2>2, <2>3, AsideKeeps DEF Control
<1>4. ASSUME UNCHANGED <<kind, device, doing, job, conn>> PROVE Accounts'
  BY <1>4 DEF Accounts, Changing, is_connected, Opened, ToClose
<1>5. ASSUME StartJob PROVE Accounts'
  <2>1. PICK t \in Tasks : \/ job[t] = "queued" /\ job' = [job EXCEPT ![t] = "running"]
                           \/ job' = job
    BY <1>5, StartsOne
  <2>2. UNCHANGED <<kind, device, doing, conn>>
    BY <1>5 DEF StartJob
  <2>3. \A u \in Tasks : job'[u] = job[u] \/ (job[u] = "queued" /\ job'[u] = "running")
    BY <2>1 DEF Control
  <2> QED BY <2>2, <2>3 DEF Accounts, Changing, is_connected, Opened, ToClose
<1>6. ASSUME NEW t \in Tasks, start_capture(t) PROVE Accounts'
  BY <1>4, <1>6 DEF start_capture
<1>7. ASSUME Vehicle \/ decode_loop \/ UNCHANGED vars PROVE Accounts'
  BY <1>4, <1>7 DEF Vehicle, Answer, Ignore, decode_loop, vars
<1>8. ASSUME NEW t \in Tasks, lifespan_ends(t) PROVE Accounts'
  BY <1>4, <1>8, DisconnectAccounts DEF lifespan_ends, Calls
<1> QED
  BY <1>1, <1>2, <1>3, <1>5, <1>6, <1>7, <1>8,
     ConnectAccounts, DisconnectAccounts, JobAccounts, ReturnAccounts
     DEF Next, Below, Progress, disconnect_device, query, kwp_service, uds_service

\* Once the server stops, nothing but its disconnect goes on.
LEMMA StoppingStep == DeviceInv /\ [Next]_vars => Stopping'
<1> SUFFICES ASSUME DeviceInv, [Next]_vars, ~serving' PROVE Stopping'
  BY DEF Stopping
<1> USE DEF tvars, device, pool, line, sniffer, DeviceInv, Control, is_connected
<1>1. ASSUME NEW t \in Tasks, lifespan_ends(t) PROVE Stopping'
  <2>1. serving /\ \A u \in Tasks : doing[u] = "idle"
    BY <1>1 DEF lifespan_ends, Idle
  <2>2. CASE ~is_connected
    BY <1>1, <2>1, <2>2 DEF lifespan_ends, Stopping
  <2>3. CASE is_connected /\ held = None
    <3>1. status' = "DISCONNECTED" /\ doing' = doing
      BY <1>1, <2>3 DEF lifespan_ends, Disconnect
    <3> QED BY <2>1, <3>1 DEF Stopping
  <2>4. CASE is_connected /\ held # None
    <3>1. doing' = [doing EXCEPT ![t] = "disconnect"]
      BY <1>1, <2>4 DEF lifespan_ends, Disconnect, Begin
    <3> QED BY <2>1, <3>1 DEF Stopping, Changing
  <2> QED BY <2>2, <2>3, <2>4
<1>2. CASE ~serving
  <2>1. /\ \A t \in Tasks : doing[t] \in {"idle", "disconnect"}
        /\ ~raced /\ is_connected => Changing # {}
    BY <1>2 DEF Stopping
  <2>2. ASSUME NEW t \in Tasks, Closes(t) PROVE Stopping'
    BY <2>1, <2>2 DEF Closes, Stopping, Changing
  <2>3. ASSUME NEW t \in Tasks, DisconnectReturns(t) PROVE Stopping'
    BY <2>1, <2>3 DEF DisconnectReturns, Finish, Stopping, Changing
  <2>4. ASSUME UNCHANGED <<device, doing>> PROVE Stopping'
    BY <2>1, <2>4 DEF Stopping, Changing
  <2>5. ASSUME StartJob \/ Vehicle \/ decode_loop \/ UNCHANGED vars PROVE Stopping'
    BY <2>4, <2>5 DEF StartJob, Vehicle, Answer, Ignore, decode_loop, vars
  <2>6. ASSUME NEW t \in Tasks, Progress(t) PROVE Closes(t) \/ DisconnectReturns(t)
    BY <2>1, <2>6
       DEF Progress, Opens, OpenFails, Rejects, ConnectReturns, ConnectRaises,
           ClientSends, Write, WriteRaises, Simulate, Read, WaitEnds, AskReturns
  <2>7. ASSUME NEW t \in Tasks PROVE ~Calls(t) /\ ~stop_returns(t) /\ ~lifespan_ends(t)
    BY <1>2, <2>1 DEF Calls, stop_returns, lifespan_ends
  <2> QED BY <2>2, <2>3, <2>5, <2>6, <2>7
          DEF Next, Below, connect_device, disconnect_device, query, kwp_service, uds_service,
              start_capture, stop_capture
<1>3. CASE serving
  <2>1. \E t \in Tasks : lifespan_ends(t)
    BY <1>3 DEF Next, Below, vars, connect_device, disconnect_device, query, kwp_service,
                uds_service, start_capture, stop_capture, stop_returns, decode_loop
  <2> QED BY <2>1, <1>1
<1> QED BY <1>2, <1>3

\* Every step keeps it.
LEMMA DeviceStep == DeviceInv /\ [Next]_vars => DeviceInv'
BY ControlStep, NumbersStep, AccountsStep, StoppingStep DEF DeviceInv

\* DeviceAccountedFor: whichever calls fail, and whatever the client asks for at
\* once short of two overlapping connects or disconnects, no device stays open
\* that status does not speak of.
THEOREM DeviceInvariant == Spec => []DeviceAccountedFor
<1>1. DeviceInv => DeviceAccountedFor
  BY DEF DeviceInv, Accounts, Stopping, DeviceAccountedFor, Changing, Idle
<1> QED BY <1>1, DeviceInit, DeviceStep, PTL DEF Spec

\* ExitLeavesNothingOpen: nor when the server has ended.
THEOREM ExitInvariant == Spec => []ExitLeavesNothingOpen
<1>1. DeviceInv => ExitLeavesNothingOpen
  BY DEF DeviceInv, Accounts, Stopping, ExitLeavesNothingOpen, Changing, Idle
<1> QED BY <1>1, DeviceInit, DeviceStep, PTL DEF Spec

-----------------------------------------------------------------------------
(* The capture.                                                            *)

\* As long as none was started in the middle of a stop, nobody stops the
\* capture that runs, and its loop finds its reader.
Capturing ==
  running /\ ~restarted =>
    /\ \A t \in Tasks : doing[t] # "stop"
    /\ loop \in {"created", "reading"} /\ reader /\ task

\* Every step keeps it: a stop clears the flag before it waits, and nothing but
\* a start sets it.
LEMMA CapturingStep == Control /\ Capturing /\ [Next]_vars => Capturing'
<1> SUFFICES ASSUME Control, Capturing, [Next]_vars, running', ~restarted'
             PROVE  /\ \A t \in Tasks : doing'[t] # "stop"
                    /\ loop' \in {"created", "reading"} /\ reader' /\ task'
  BY DEF Capturing
<1> USE DEF tvars, device, pool, line, sniffer, Control
<1> DEFINE Goal == /\ \A t \in Tasks : doing'[t] # "stop"
                   /\ loop' \in {"created", "reading"} /\ reader' /\ task'
<1>1. ASSUME NEW t \in Tasks, start_capture(t) PROVE Goal
  BY <1>1 DEF start_capture
<1>2. ASSUME NEW t \in Tasks, stop_capture(t) \/ stop_returns(t) PROVE Goal
  BY <1>2 DEF stop_capture, stop_returns, Capturing
<1>3. ASSUME decode_loop PROVE Goal
  BY <1>3 DEF decode_loop, Capturing
<1>4. ASSUME UNCHANGED sniffer, \A t \in Tasks : doing'[t] = "stop" => doing[t] = "stop"
      PROVE  Goal
  BY <1>4 DEF Capturing
<1>5. ASSUME NEW t \in Tasks, UNCHANGED sniffer, connect_device(t) \/ Disconnect(t) PROVE Goal
  BY <1>4, <1>5 DEF connect_device, Connect, Disconnect, Begin
<1>6. ASSUME NEW t \in Tasks, NEW r, UNCHANGED sniffer, Ask(t, r) \/ AskByClient(t, r) PROVE Goal
  BY <1>4, <1>6 DEF Ask, AskByClient
<1>7. ASSUME NEW t \in Tasks, UNCHANGED sniffer, Progress(t) PROVE Goal
  BY <1>4, <1>7
     DEF Progress, Opens, OpenFails, Rejects, ConnectReturns, ConnectRaises, Closes,
         DisconnectReturns, ClientSends, Write, WriteRaises, Simulate, Read, WaitEnds,
         AskReturns, Finish
<1>8. ASSUME UNCHANGED sniffer, StartJob \/ Vehicle \/ UNCHANGED tvars PROVE Goal
  BY <1>4, <1>8 DEF StartJob, Vehicle, Answer, Ignore
<1>9. ASSUME NEW t \in Tasks, lifespan_ends(t) PROVE Goal
  BY <1>5, <1>8, <1>9 DEF lifespan_ends
<1> QED
  BY <1>1, <1>2, <1>3, <1>5, <1>6, <1>7, <1>8, <1>9
     DEF Next, vars, Below, connect_device, disconnect_device, query, kwp_service, uds_service

\* CaptureRuns: a capture that is said to run does, for any number of clients
\* that start and stop it, unless one was started in the middle of a stop.
THEOREM CaptureInvariant == Spec => []CaptureRuns
<1>1. Init => Control /\ Queued /\ Capturing
  BY LockInit DEF LockInv, Init, Capturing
<1>2. Control /\ Queued /\ Capturing /\ [Next]_vars => (Control /\ Queued /\ Capturing)'
  BY ControlStep, CapturingStep
<1>3. Capturing => CaptureRuns
  BY DEF Capturing, CaptureRuns
<1> QED BY <1>1, <1>2, <1>3, PTL DEF Spec

-----------------------------------------------------------------------------
(* Types.                                                                  *)

\* Numbers of connections, requests and replies, and the flags.
Data ==
  /\ held \in 0 .. MaxOpens /\ opens \in 0 .. MaxOpens
  /\ open \subseteq Handles /\ late \subseteq 0 .. MaxOpens
  /\ conn \in [Tasks -> 0 .. MaxOpens]
  /\ req \in [Tasks -> Requests \cup {NoRequest}]
  /\ \A t \in Tasks : doing[t] = "ask" => req[t] \in Requests
  /\ got \in [Tasks -> Replies \cup {NoReply}]
  /\ asked \in Seq([req : Requests, conn : 0 .. MaxOpens])
  /\ wire \in [Handles -> Seq(Replies)]

Flags ==
  /\ kind \in Kinds /\ status \in Statuses
  /\ mixed \in BOOLEAN /\ raced \in BOOLEAN /\ serving \in BOOLEAN
  /\ running \in BOOLEAN /\ reader \in BOOLEAN /\ task \in BOOLEAN
  /\ loop \in Loops /\ restarted \in BOOLEAN

\* A sequence with one of its elements taken out.
LEMMA Removed ==
  ASSUME NEW S, NEW q \in Seq(S), NEW i \in 1 .. Len(q)
  PROVE  LET r == SubSeq(q, 1, i - 1) \o SubSeq(q, i + 1, Len(q))
         IN  /\ r \in Seq(S) /\ Len(r) = Len(q) - 1
             /\ \A k \in 1 .. Len(r) : r[k] = q[IF k < i THEN k ELSE k + 1]
<1> DEFINE a == SubSeq(q, 1, i - 1)
           b == SubSeq(q, i + 1, Len(q))
<1>0. Len(q) \in Nat /\ i \in 1 .. Len(q)
  OBVIOUS
<1>1. a \in Seq(S) /\ Len(a) = i - 1 /\ \A k \in 1 .. i - 1 : a[k] = q[k]
  BY SubSeqProperties
<1>2. b \in Seq(S) /\ Len(b) = Len(q) - i /\ \A k \in 1 .. Len(q) - i : b[k] = q[k + i]
  BY SubSeqProperties
<1> HIDE DEF a, b
<1>3. /\ a \o b \in Seq(S) /\ Len(a \o b) = Len(a) + Len(b)
      /\ \A k \in 1 .. Len(a) + Len(b) :
           (a \o b)[k] = IF k <= Len(a) THEN a[k] ELSE b[k - Len(a)]
  BY <1>1, <1>2, ConcatProperties
<1>4. Len(a \o b) = Len(q) - 1
  BY <1>0, <1>1, <1>2, <1>3
<1>5. \A k \in 1 .. Len(a \o b) : (a \o b)[k] = q[IF k < i THEN k ELSE k + 1]
  <2> TAKE k \in 1 .. Len(a \o b)
  <2>1. CASE k < i
    BY <1>0, <1>1, <1>2, <1>3, <1>4, <2>1
  <2>2. CASE k >= i
    <3>1. (a \o b)[k] = b[k - (i - 1)] /\ k - (i - 1) \in 1 .. Len(q) - i
      BY <1>0, <1>1, <1>2, <1>3, <1>4, <2>2
    <3>2. b[k - (i - 1)] = q[(k - (i - 1)) + i] /\ (k - (i - 1)) + i = k + 1
      BY <1>0, <1>2, <3>1
    <3> QED BY <1>0, <2>2, <3>1, <3>2
  <2> QED BY <1>0, <1>4, <2>1, <2>2
<1> QED BY <1>3, <1>4, <1>5 DEF a, b

\* Every step keeps the flags in range.
LEMMA FlagsStep == Flags /\ [Next]_vars => Flags'
<1> SUFFICES ASSUME Flags, [Next]_vars PROVE Flags'
  OBVIOUS
<1> USE DEF Flags, Statuses, Loops, tvars, device, pool, line, sniffer
<1>1. ASSUME NEW t \in Tasks, connect_device(t) PROVE Flags'
  BY <1>1 DEF connect_device, Connect, Begin
<1>2. ASSUME NEW t \in Tasks, Disconnect(t), UNCHANGED sniffer, serving' \in BOOLEAN PROVE Flags'
  BY <1>2 DEF Disconnect, Begin
<1>3. ASSUME NEW t \in Tasks, NEW r, Ask(t, r) \/ AskByClient(t, r), UNCHANGED <<serving, sniffer>>
      PROVE  Flags'
  BY <1>3 DEF Ask, AskByClient
<1>4. ASSUME NEW t \in Tasks, Below(t) PROVE Flags'
  BY <1>4, ZenonT(60)
     DEF Below, Progress, Opens, OpenFails, Rejects, ConnectReturns, ConnectRaises,
              Closes, DisconnectReturns, ClientSends, Write, WriteRaises, Simulate, Read,
              WaitEnds, AskReturns
<1>5. ASSUME StartJob \/ Vehicle \/ UNCHANGED tvars, UNCHANGED <<serving, sniffer>> PROVE Flags'
  <2>1. UNCHANGED <<kind, status, mixed, raced>>
    BY <1>5 DEF StartJob, Vehicle, Answer, Ignore
  <2> QED BY <1>5, <2>1
<1>8. ASSUME decode_loop PROVE Flags'
  BY <1>8 DEF decode_loop
<1>6. ASSUME NEW t \in Tasks, start_capture(t) \/ stop_capture(t) \/ stop_returns(t) PROVE Flags'
  BY <1>6 DEF start_capture, stop_capture, stop_returns
<1>7. ASSUME NEW t \in Tasks, lifespan_ends(t) PROVE Flags'
  <2>1. CASE is_connected
    BY <1>2, <1>7, <2>1 DEF lifespan_ends
  <2>2. CASE ~is_connected
    BY <1>7, <2>2 DEF lifespan_ends
  <2> QED BY <2>1, <2>2
<1> QED BY <1>1, <1>2, <1>3, <1>4, <1>5, <1>6, <1>7, <1>8
        DEF Next, vars, disconnect_device, query, kwp_service, uds_service

\* Every step keeps the data in range.
LEMMA DataStep == Control /\ Data /\ [Next]_vars => Data'
<1> SUFFICES ASSUME Control, Data, [Next]_vars PROVE Data'
  OBVIOUS
<1> USE TransportsAssumption
        DEF Data, None, NoRequest, Handles, tvars, device, pool, line, sniffer
<1>0. /\ doing \in [Tasks -> Doings] /\ 0 \in 0 .. MaxOpens /\ MaxOpens \in Nat
      /\ NoReply \in Replies \cup {NoReply}
  BY DEF Control
<1>1. ASSUME NEW t \in Tasks, connect_device(t) PROVE Data'
  BY <1>0, <1>1 DEF connect_device, Connect, Begin
<1>2. ASSUME NEW t \in Tasks, Disconnect(t) PROVE Data'
  BY <1>0, <1>2 DEF Disconnect, Begin
<1>3. ASSUME NEW t \in Tasks, NEW r \in Requests, Ask(t, r) \/ AskByClient(t, r) PROVE Data'
  <2>1. CASE Ask(t, r)
    BY <1>0, <2>1 DEF Ask, Captured
  <2>2. CASE AskByClient(t, r)
    BY <1>0, <2>2 DEF AskByClient
  <2> QED BY <1>3, <2>1, <2>2
<1>4. ASSUME NEW t \in Tasks, Opens(t) PROVE Data'
  <2>1. opens' \in 0 .. MaxOpens /\ opens' \in Handles
    BY <1>0, <1>4 DEF Opens
  <2> QED BY <1>0, <1>4, <2>1 DEF Opens
<1>5. ASSUME NEW t \in Tasks, Finish(t), held' \in 0 .. MaxOpens, opens' = opens,
             open' \subseteq open, late' \subseteq 0 .. MaxOpens, asked' = asked,
             wire' \in [Handles -> Seq(Replies)]
      PROVE  Data'
  BY <1>0, <1>5 DEF Finish
<1>6. ASSUME NEW t \in Tasks, NEW c, Close(c)
      PROVE  open' \subseteq open /\ wire' \in [Handles -> Seq(Replies)]
  BY <1>6 DEF Close
<1>7. ASSUME NEW t \in Tasks, ConnectReturns(t) \/ DisconnectReturns(t) PROVE Data'
  BY <1>0, <1>5, <1>7 DEF ConnectReturns, DisconnectReturns
<1>8. ASSUME NEW t \in Tasks, ConnectRaises(t) PROVE Data'
  BY <1>0, <1>5, <1>6, <1>8 DEF ConnectRaises
<1>9. ASSUME NEW t \in Tasks, Closes(t) PROVE Data'
  BY <1>0, <1>6, <1>9 DEF Closes
<1>10. ASSUME NEW t \in Tasks, OpenFails(t) \/ Rejects(t) PROVE Data'
  BY <1>0, <1>10 DEF OpenFails, Rejects
<1>11. ASSUME NEW t \in Tasks, WriteRaises(t) \/ AskReturns(t) PROVE Data'
  BY <1>5, <1>11 DEF WriteRaises, AskReturns
<1>12. ASSUME NEW t \in Tasks, ClientSends(t) PROVE Data'
  <2>1. CASE Finish(t)
    BY <1>5, <1>12, <2>1 DEF ClientSends
  <2>2. CASE ~Finish(t)
    BY <1>0, <1>12, <2>2 DEF ClientSends, Captured
  <2> QED BY <2>1, <2>2
<1>13. ASSUME NEW t \in Tasks, WaitEnds(t) PROVE Data'
  <2>1. Origin(conn[t]) \in 0 .. MaxOpens
    BY <1>0 DEF Origin
  <2> QED BY <1>5, <1>13, <2>1 DEF WaitEnds
<1>14. ASSUME NEW t \in Tasks, Write(t) PROVE Data'
  <2>1. [req |-> req[t], conn |-> Origin(held)] \in [req : Requests, conn : 0 .. MaxOpens]
    BY <1>0, <1>14 DEF Write, Origin
  <2>2. asked' \in Seq([req : Requests, conn : 0 .. MaxOpens])
    BY <1>14, <2>1, Appended DEF Write
  <2> QED BY <1>0, <1>14, <2>2 DEF Write
<1>15. ASSUME NEW t \in Tasks, Simulate(t) PROVE Data'
  BY <1>0, <1>15 DEF Simulate, Replies
<1>16. ASSUME NEW t \in Tasks, Read(t) PROVE Data'
  <2> DEFINE c == Channel(t)
  <2>1. c \in Handles /\ wire[c] \in Seq(Replies) /\ wire[c] # <<>>
    BY <1>16 DEF Read
  <2>2. Head(wire[c]) \in Replies /\ Tail(wire[c]) \in Seq(Replies)
    BY <2>1, Tailed
  <2>3. wire' \in [Handles -> Seq(Replies)] /\ got' \in [Tasks -> Replies \cup {NoReply}]
    BY <1>16, <2>1, <2>2 DEF Read
  <2> QED BY <1>0, <1>16, <2>3 DEF Read
<1>17. ASSUME NEW i \in 1 .. Len(asked), Ignore(i) PROVE Data'
  BY <1>0, <1>17, Removed DEF Ignore
<1>18. ASSUME NEW i \in 1 .. Len(asked), NEW ok \in BOOLEAN, Answer(i, ok) PROVE Data'
  <2>1. [req |-> asked[i].req, ok |-> ok] \in Replies
    <3>1. asked[i] \in [req : Requests, conn : 0 .. MaxOpens]
      BY ElementOfSeq
    <3> QED BY <3>1 DEF Replies
  <2>2. \A h \in Handles : wire'[h] = wire[h] \/ wire'[h] = Append(wire[h], [req |-> asked[i].req, ok |-> ok])
    BY <1>18 DEF Answer
  <2>3. DOMAIN wire' = Handles /\ wire' = [h \in Handles |-> wire'[h]]
    BY <1>18 DEF Answer
  <2>4. \A h \in Handles : wire'[h] \in Seq(Replies)
    <3> TAKE h \in Handles
    <3>1. wire[h] \in Seq(Replies)
      OBVIOUS
    <3> DEFINE a == [req |-> asked[i].req, ok |-> ok]
    <3>2. Append(wire[h], a) \in Seq(Replies)
      BY <2>1, <3>1, Appended
    <3> QED BY <2>2, <3>1, <3>2
  <2> QED BY <1>0, <1>18, <2>3, <2>4, Removed DEF Answer
<1>19. ASSUME UNCHANGED <<held, opens, open, late, conn, req, got, asked, wire>>,
              \A t \in Tasks : doing'[t] = "ask" => doing[t] = "ask"
       PROVE  Data'
  BY <1>19
<1>20. ASSUME NEW t \in Tasks, start_capture(t) \/ stop_capture(t) \/ stop_returns(t) PROVE Data'
  BY <1>0, <1>19, <1>20 DEF start_capture, stop_capture, stop_returns
<1>21. ASSUME StartJob \/ decode_loop \/ UNCHANGED vars PROVE Data'
  BY <1>19, <1>21 DEF StartJob, decode_loop, vars
<1>22. ASSUME NEW t \in Tasks, lifespan_ends(t) PROVE Data'
  <2>1. CASE is_connected
    BY <1>2, <1>22, <2>1 DEF lifespan_ends
  <2>2. CASE ~is_connected
    BY <1>19, <1>22, <2>2 DEF lifespan_ends
  <2> QED BY <2>1, <2>2
<1> QED
  BY <1>1, <1>2, <1>3, <1>4, <1>7, <1>8, <1>9, <1>10, <1>11, <1>12, <1>13, <1>14,
     <1>15, <1>16, <1>17, <1>18, <1>20, <1>21, <1>22
     DEF Next, Below, Progress, Vehicle, disconnect_device, query, kwp_service, uds_service

\* The threads at work, in the two ways.
AtWork  == {t \in Tasks : job[t] \in {"running", "reading"}}
Clients == {t \in Tasks : client[t] = "running"}

\* But for a job that starts, no thread goes to work.
LEMMA WorkStep ==
  ASSUME Control, [Next]_vars, kind \in Threaded, ~StartJob
  PROVE  AtWork' \subseteq AtWork /\ Clients' \subseteq Clients
<1> USE DEF Control, AtWork, Clients, tvars, device, pool, line, sniffer
<1> DEFINE Goal == AtWork' \subseteq AtWork /\ Clients' \subseteq Clients
<1>1. ASSUME NEW t \in Tasks, connect_device(t) \/ Disconnect(t) PROVE Goal
  BY <1>1 DEF connect_device, Connect, Disconnect, Begin, Submit
<1>2. ASSUME NEW t \in Tasks, NEW r, Ask(t, r) \/ AskByClient(t, r) PROVE Goal
  BY <1>2 DEF Ask, AskByClient, Submit
<1>3. ASSUME NEW t \in Tasks,
             \/ ConnectReturns(t) \/ ConnectRaises(t) \/ DisconnectReturns(t)
             \/ WriteRaises(t) \/ WaitEnds(t) \/ AskReturns(t)
      PROVE  Goal
  BY <1>3 DEF ConnectReturns, ConnectRaises, DisconnectReturns, WriteRaises, WaitEnds,
              AskReturns, Finish
<1>4. ASSUME NEW t \in Tasks, ClientSends(t) PROVE Goal
  BY <1>4 DEF ClientSends, Finish, Submit
<1>5. ASSUME NEW t \in Tasks,
             \/ Opens(t) \/ OpenFails(t) \/ Rejects(t) \/ Closes(t)
             \/ Write(t) \/ Simulate(t) \/ Read(t)
      PROVE  Goal
  BY <1>5 DEF Opens, OpenFails, Rejects, Closes, Write, Simulate, Read
<1>6. ASSUME UNCHANGED <<job, client>> PROVE Goal
  BY <1>6
<1>7. ASSUME NEW t \in Tasks, start_capture(t) \/ stop_capture(t) \/ stop_returns(t) PROVE Goal
  BY <1>6, <1>7 DEF start_capture, stop_capture, stop_returns
<1>8. ASSUME Vehicle \/ decode_loop \/ UNCHANGED vars PROVE Goal
  BY <1>6, <1>8 DEF Vehicle, Answer, Ignore, decode_loop, vars
<1>9. ASSUME NEW t \in Tasks, lifespan_ends(t) PROVE Goal
  BY <1>1, <1>6, <1>9 DEF lifespan_ends
<1> QED BY <1>1, <1>2, <1>3, <1>4, <1>5, <1>7, <1>8, <1>9
        DEF Next, Below, Progress, disconnect_device, query, kwp_service, uds_service

\* The pool is never asked for more threads than it has.
LEMMA OccupiedStep ==
  Control /\ Queued /\ Occupied \in 0 .. Workers /\ [Next]_vars => Occupied' \in 0 .. Workers
<1> SUFFICES ASSUME Control, Queued, Occupied \in 0 .. Workers, [Next]_vars
             PROVE  Occupied' \in 0 .. Workers
  OBVIOUS
<1>0. kind' = kind /\ Workers \in Nat
  BY KindStays, TransportsAssumption
<1>1. CASE kind \notin Threaded
  BY <1>0, <1>1 DEF Occupied
<1>2. CASE kind \in Threaded
  <2>1. Occupied = Cardinality(AtWork) + Cardinality(Clients)
        /\ Occupied' = Cardinality(AtWork') + Cardinality(Clients')
    BY <1>0, <1>2 DEF Occupied, AtWork, Clients
  <2>2. /\ IsFiniteSet(AtWork) /\ IsFiniteSet(AtWork')
        /\ IsFiniteSet(Clients) /\ IsFiniteSet(Clients')
    BY FS_Subset, TransportsAssumption DEF AtWork, Clients
  <2>3. /\ Cardinality(AtWork) \in Nat /\ Cardinality(AtWork') \in Nat
        /\ Cardinality(Clients) \in Nat /\ Cardinality(Clients') \in Nat
    BY <2>2, FS_CardinalityType
  <2>4. CASE ~StartJob
    <3>1. AtWork' \subseteq AtWork /\ Clients' \subseteq Clients
      BY <1>2, <2>4, WorkStep
    <3>2. /\ Cardinality(AtWork') <= Cardinality(AtWork)
          /\ Cardinality(Clients') <= Cardinality(Clients)
      BY <2>2, <3>1, FS_Subset
    <3> QED BY <1>0, <2>1, <2>3, <3>2
  <2>5. CASE StartJob
    <3>1. Occupied < Workers
      BY <2>5 DEF StartJob, Free
    <3>2. PICK t \in Tasks :
            \/ AtWork' \subseteq AtWork \cup {t} /\ Clients' = Clients
            \/ AtWork' = AtWork /\ Clients' \subseteq Clients \cup {t}
      BY <2>5, StartsOne DEF AtWork, Clients, Control
    <3>3. /\ IsFiniteSet(AtWork \cup {t}) /\ Cardinality(AtWork \cup {t}) <= Cardinality(AtWork) + 1
          /\ IsFiniteSet(Clients \cup {t}) /\ Cardinality(Clients \cup {t}) <= Cardinality(Clients) + 1
      <4>1. /\ IsFiniteSet(AtWork \cup {t})
            /\ Cardinality(AtWork \cup {t}) =
                 IF t \in AtWork THEN Cardinality(AtWork) ELSE Cardinality(AtWork) + 1
        BY <2>2, FS_AddElement
      <4>2. /\ IsFiniteSet(Clients \cup {t})
            /\ Cardinality(Clients \cup {t}) =
                 IF t \in Clients THEN Cardinality(Clients) ELSE Cardinality(Clients) + 1
        BY <2>2, FS_AddElement
      <4> QED BY <2>3, <4>1, <4>2
    <3>4. \/ Cardinality(AtWork') <= Cardinality(AtWork) + 1 /\ Clients' = Clients
          \/ AtWork' = AtWork /\ Cardinality(Clients') <= Cardinality(Clients) + 1
      <4>1. AtWork' \subseteq AtWork \cup {t} => Cardinality(AtWork') <= Cardinality(AtWork \cup {t})
        BY <3>3, FS_Subset
      <4>2. Clients' \subseteq Clients \cup {t} => Cardinality(Clients') <= Cardinality(Clients \cup {t})
        BY <3>3, FS_Subset
      <4>3. /\ Cardinality(AtWork \cup {t}) \in Nat /\ Cardinality(Clients \cup {t}) \in Nat
        BY <3>3, FS_CardinalityType
      <4> QED BY <2>3, <3>2, <3>3, <4>1, <4>2, <4>3
    <3> QED BY <1>0, <2>1, <2>3, <3>1, <3>4
  <2> QED BY <2>4, <2>5
<1> QED BY <1>1, <1>2

\* TypeOK: the types, and that no more threads are at work than there are.
THEOREM TypeInvariant == Spec => []TypeOK
<1> DEFINE Inv == Control /\ Queued /\ Flags /\ Data /\ Occupied \in 0 .. Workers
<1>1. Init => Inv
  <2> SUFFICES ASSUME Init PROVE Inv
    OBVIOUS
  <2>1. Control /\ Queued
    BY LockInit DEF LockInv
  <2>2. Flags
    BY DEF Flags, Init, TransportInit, Statuses, Loops
  <2>3. Data
    BY TransportsAssumption DEF Data, Init, TransportInit, None, Handles
  <2>4. Occupied \in 0 .. Workers
    <3>1. /\ {t \in Tasks : job[t] \in {"running", "reading"}} = {}
          /\ {t \in Tasks : client[t] = "running"} = {}
      BY DEF Init, TransportInit
    <3>2. Cardinality({}) = 0
      BY FS_EmptySet
    <3> QED BY <3>1, <3>2, TransportsAssumption DEF Occupied
  <2> QED BY <2>1, <2>2, <2>3, <2>4
<1>2. Inv /\ [Next]_vars => Inv'
  BY ControlStep, FlagsStep, DataStep, OccupiedStep
<1>3. Inv => TypeOK
  BY DEF TypeOK, Control, Flags, Data, Nobody
<1> QED BY <1>1, <1>2, <1>3, PTL DEF Spec

-----------------------------------------------------------------------------
(* Replies.                                                                *)

Reader(t) == doing[t] = "ask" /\ job[t] = "reading"

\* Nothing happened that could leave a reply of somebody else on the channels
\* with origin o: a wait that ended, two exchanges at a time, two buses.
Apart(o) ==
  /\ o \notin late
  /\ kind \notin Locked => ~mixed
  /\ kind = "socketcan" => ~raced

\* It is the request of a task that reads.
Awaited(o, r) == \E t \in Tasks : Reader(t) /\ Origin(conn[t]) = o /\ req[t] = r

\* Then there is one reader at most, and what is asked or on the wire, once in
\* all, is for it.
Pending ==
  \A o \in 0 .. MaxOpens : Apart(o) =>
    /\ \A t, u \in Tasks : Reader(t) /\ Reader(u) => t = u
    /\ \A i \in 1 .. Len(asked) : asked[i].conn = o =>
         /\ Awaited(o, asked[i].req)
         /\ \A j \in 1 .. Len(asked) : asked[j].conn = o => j = i
         /\ \A c \in Handles : Origin(c) = o => wire[c] = <<>>
    /\ \A c \in Handles : Origin(c) = o /\ wire[c] # <<>> =>
         /\ Len(wire[c]) = 1 /\ Awaited(o, wire[c][1].req)
         /\ \A d \in Handles : Origin(d) = o /\ wire[d] # <<>> => d = c

\* Where replies are, and where a reader looks for them.
Where ==
  /\ \A c \in Handles : wire[c] # <<>> => c \in open
  /\ kind \in Exclusive => \A c, d \in open : c = d
  /\ kind = "virtual" => \A t \in Tasks : job[t] # "reading"
  /\ kind = "doip" => /\ None \notin late /\ late \subseteq 0 .. opens /\ held <= opens
                      /\ \A t \in Tasks : Reader(t) =>
                           conn[t] \in 1 .. opens /\ (held \in late => held = conn[t])
  /\ kind # "doip" => /\ late \subseteq {None}
                      /\ \A i \in 1 .. Len(asked) : asked[i].conn = None

\* A task has its reply at the end of its exchange only.
Given == \A t \in Tasks : got[t] # NoReply => doing[t] = "ask" /\ job[t] = "done"

ReplyInv ==
  /\ LockInv /\ Numbers /\ Accounts /\ Stopping /\ Flags /\ Data
  /\ Where /\ Pending /\ Given /\ RightReply

\* What a step leaves alone as long as it is not one of an exchange.
NoExchange ==
  /\ UNCHANGED <<kind, asked, wire, late, mixed>>
  /\ raced => raced'
  /\ \A t \in Tasks : /\ (Reader(t) <=> Reader(t)')
                      /\ Reader(t) => conn'[t] = conn[t] /\ req'[t] = req[t]

\* Such a step keeps Pending.
LEMMA NoExchangePending ==
  ASSUME Pending, NoExchange PROVE Pending'
<1>1. \A o : Apart(o)' => Apart(o)
  BY DEF Apart, NoExchange
<1>2. \A o, r : Awaited(o, r) => Awaited(o, r)'
  BY DEF Awaited, NoExchange, Origin
<1>3. \A c : Origin(c)' = Origin(c)
  BY DEF NoExchange, Origin
<1> QED BY <1>1, <1>2, <1>3 DEF Pending, NoExchange

\* The steps that are not of an exchange.
LEMMA OtherSteps ==
  ASSUME LockInv, Data, [Next]_vars,
         \A t \in Tasks : ~Write(t) /\ ~Read(t) /\ ~WaitEnds(t) /\ ~Closes(t) /\ ~ConnectRaises(t),
         ~Vehicle
  PROVE  NoExchange
<1> USE DEF LockInv, Control, Data, tvars, device, pool, line, sniffer, Reader, NoExchange
<1>1. ASSUME NEW t \in Tasks, Calls(t), connect_device(t) \/ Disconnect(t) PROVE NoExchange
  BY <1>1 DEF connect_device, Connect, Disconnect, Begin, Submit, Calls, Idle
<1>2. ASSUME NEW t \in Tasks, NEW r, Calls(t), Ask(t, r) \/ AskByClient(t, r) PROVE NoExchange
  <2>1. \A u \in Tasks : job[u] = "reading" => u # t
    BY <1>2 DEF Calls, Idle
  <2>2. CASE Ask(t, r)
    BY <1>2, <2>1, <2>2 DEF Ask, Submit, Calls, Idle
  <2>3. CASE AskByClient(t, r)
    BY <1>2, <2>1, <2>3 DEF AskByClient, Calls, Idle
  <2> QED BY <1>2, <2>2, <2>3
<1>3. ASSUME NEW t \in Tasks, ConnectReturns(t) \/ DisconnectReturns(t) \/ WriteRaises(t) \/ AskReturns(t)
      PROVE  NoExchange
  BY <1>3 DEF ConnectReturns, DisconnectReturns, WriteRaises, AskReturns, Finish
<1>4. ASSUME NEW t \in Tasks, ClientSends(t) PROVE NoExchange
  BY <1>4 DEF ClientSends, Finish, Submit
<1>5. ASSUME NEW t \in Tasks, Opens(t) \/ OpenFails(t) \/ Rejects(t) \/ Simulate(t) PROVE NoExchange
  BY <1>5 DEF Opens, OpenFails, Rejects, Simulate
<1>6. ASSUME UNCHANGED <<kind, raced, doing, job, conn, req, line>> PROVE NoExchange
  BY <1>6
<1>7. ASSUME NEW t \in Tasks, start_capture(t) \/ stop_capture(t) \/ stop_returns(t) PROVE NoExchange
  BY <1>7 DEF start_capture, stop_capture, stop_returns, Calls, Idle
<1>8. ASSUME decode_loop \/ UNCHANGED vars PROVE NoExchange
  BY <1>6, <1>8 DEF decode_loop, vars
<1>9. ASSUME NEW t \in Tasks, lifespan_ends(t) PROVE NoExchange
  BY <1>1, <1>6, <1>9 DEF lifespan_ends, Calls
<1>10. ASSUME StartJob PROVE NoExchange
  <2>1. PICK t \in Tasks : \/ job[t] = "queued" /\ job' = [job EXCEPT ![t] = "running"]
                           \/ job' = job
    BY <1>10, StartsOne
  <2> QED BY <1>10, <2>1 DEF StartJob
<1> QED BY <1>1, <1>2, <1>3, <1>4, <1>5, <1>7, <1>8, <1>9, <1>10
        DEF Next, Below, Progress, connect_device, disconnect_device, query, kwp_service, uds_service

\* A connection that is closed takes what was on the way with it.
LEMMA ClosePending ==
  ASSUME LockInv, Data, Pending, NEW t \in Tasks, Closes(t) \/ ConnectRaises(t)
  PROVE  Pending'
<1> USE DEF LockInv, Control, Data, tvars, device, pool, line, Close
<1>1. /\ \A o : Apart(o)' => Apart(o)
      /\ \A c : Origin(c)' = Origin(c)
      /\ asked' = asked
  BY DEF Closes, ConnectRaises, Apart, Origin
<1>2. \A u \in Tasks : (Reader(u) <=> Reader(u)') /\ (Reader(u) => conn'[u] = conn[u] /\ req'[u] = req[u])
  BY DEF Closes, ConnectRaises, Reader, Finish
<1>3. \A o, r : Awaited(o, r) => Awaited(o, r)'
  BY <1>1, <1>2 DEF Awaited
<1>4. \A c \in Handles : wire'[c] = wire[c] \/ wire'[c] = <<>>
  BY DEF Closes, ConnectRaises
<1> QED BY <1>1, <1>2, <1>3, <1>4 DEF Pending

\* Nobody else reads while a request is sent, or it is no longer apart.
LEMMA WritePending ==
  ASSUME LockInv, Data, Pending, NEW t \in Tasks, Write(t)
  PROVE  Pending'
<1> USE DEF LockInv, Control, Data, tvars, device, pool, line
<1>1. /\ \A o : Apart(o)' => Apart(o)
      /\ \A c : Origin(c)' = Origin(c)
      /\ wire' = wire /\ kind' = kind
  BY DEF Write, Apart, Origin
<1>2. \A o \in 0 .. MaxOpens : Apart(o)' => \A u \in Tasks : ~Reader(u)
  <2> TAKE o \in 0 .. MaxOpens
  <2> HAVE Apart(o)'
  <2>1. CASE kind \in Locked
    BY <2>1, TransportsAssumption DEF Write, Permitted, Serial, Reader, Nobody
  <2>2. CASE kind \notin Locked
    BY <1>1, <2>2 DEF Write, Apart, Reader
  <2> QED BY <2>1, <2>2
<1>3. \A o \in 0 .. MaxOpens : Apart(o)' =>
        /\ \A i \in 1 .. Len(asked) : asked[i].conn # o
        /\ \A c \in Handles : Origin(c) = o => wire[c] = <<>>
  BY <1>1, <1>2 DEF Pending, Awaited
<1>4. \A u \in Tasks : Reader(u)' <=> Reader(u) \/ u = t
  BY DEF Write, Reader
<1>5. Reader(t)' /\ Origin(conn[t])' = Origin(held) /\ req' = req
  <2>1. Origin(None) = None
    BY DEF Origin, None
  <2>2. kind = "doip" => conn'[t] = held
    BY DEF Write
  <2> QED BY <1>1, <1>4, <2>1, <2>2 DEF Write, Origin
<1>6. \A i \in 1 .. Len(asked') :
        \/ i \in 1 .. Len(asked) /\ asked'[i] = asked[i]
        \/ i = Len(asked) + 1 /\ asked'[i] = [req |-> req[t], conn |-> Origin(held)]
  <2>1. [req |-> req[t], conn |-> Origin(held)] \in [req : Requests, conn : 0 .. MaxOpens]
    BY TransportsAssumption DEF Write, Origin, None
  <2>2. Len(asked) \in Nat
    OBVIOUS
  <2> QED BY <2>1, <2>2, Appended DEF Write
<1> SUFFICES ASSUME NEW o \in 0 .. MaxOpens, Apart(o)'
             PROVE  /\ \A u, v \in Tasks : Reader(u)' /\ Reader(v)' => u = v
                    /\ \A i \in 1 .. Len(asked') : asked'[i].conn = o =>
                         /\ Awaited(o, asked[i].req)'
                         /\ \A j \in 1 .. Len(asked') : asked'[j].conn = o => j = i
                         /\ \A c \in Handles : Origin(c)' = o => wire'[c] = <<>>
                    /\ \A c \in Handles : Origin(c)' = o => wire'[c] = <<>>
  BY DEF Pending
<1>7. \A u, v \in Tasks : Reader(u)' /\ Reader(v)' => u = v
  BY <1>2, <1>4
<1>8. \A c \in Handles : Origin(c)' = o => wire'[c] = <<>>
  BY <1>1, <1>3
<1>9. \A i \in 1 .. Len(asked') : asked'[i].conn = o =>
        i = Len(asked) + 1 /\ asked'[i] = [req |-> req[t], conn |-> Origin(held)]
  BY <1>3, <1>6
<1>10. \A i \in 1 .. Len(asked') : asked'[i].conn = o => Awaited(o, asked[i].req)'
  BY <1>5, <1>9 DEF Awaited
<1> QED BY <1>7, <1>8, <1>9, <1>10

\* At most one connection is open on a bus, unless two connects overlapped.
LEMMA OneOpen ==
  ASSUME Accounts, Where, Flags, kind \notin {"doip", "virtual"}, kind = "socketcan" => ~raced
  PROVE  \A c, d \in open : c = d
<1>1. CASE kind \in Exclusive
  BY <1>1 DEF Where
<1>2. CASE kind \notin Exclusive
  <2>1. ~raced
    BY <1>2, TransportsAssumption DEF Exclusive, AllKinds, Flags
  <2>2. CASE Changing = {}
    BY <2>1, <2>2 DEF Accounts
  <2>3. CASE Changing # {}
    BY <2>1, <2>3 DEF Accounts, Changing
  <2> QED BY <2>2, <2>3
<1> QED BY <1>1, <1>2

\* The vehicle answers what is asked, or not: it stays one thing for the reader.
LEMMA VehiclePending ==
  ASSUME LockInv, Accounts, Flags, Data, Where, Pending, Vehicle
  PROVE  Pending'
<1> USE DEF Data
<1>1. PICK i \in 1 .. Len(asked) : \E ok \in BOOLEAN : Ignore(i) \/ Answer(i, ok)
  BY DEF Vehicle
<1>2. /\ UNCHANGED <<kind, late, mixed, raced, doing, job, conn, req>>
      /\ asked' = SubSeq(asked, 1, i - 1) \o SubSeq(asked, i + 1, Len(asked))
  BY <1>1 DEF Ignore, Answer, device
<1>3. \A k \in 1 .. Len(asked') : \E j \in 1 .. Len(asked) :
        asked'[k] = asked[j] /\ j = IF k < i THEN k ELSE k + 1
  <2>1. Len(asked) \in Nat /\ i \in 1 .. Len(asked)
    OBVIOUS
  <2>2. /\ Len(asked') = Len(asked) - 1
        /\ \A k \in 1 .. Len(asked') : asked'[k] = asked[IF k < i THEN k ELSE k + 1]
    BY <1>2, Removed
  <2> QED BY <2>1, <2>2
<1>4. PICK ok \in BOOLEAN :
        \A c \in Handles :
          \/ wire'[c] = wire[c]
          \/ /\ c \in open /\ (kind = "doip" => c = asked[i].conn)
             /\ wire'[c] = Append(wire[c], [req |-> asked[i].req, ok |-> ok])
  BY <1>1 DEF Ignore, Answer
<1>5. \A o : Apart(o)' = Apart(o)
  BY <1>2 DEF Apart
<1>6. \A o, r : Awaited(o, r)' = Awaited(o, r)
  BY <1>2 DEF Awaited, Reader, Origin
<1> SUFFICES ASSUME NEW o \in 0 .. MaxOpens, Apart(o)
             PROVE  /\ \A t, u \in Tasks : Reader(t)' /\ Reader(u)' => t = u
                    /\ \A k \in 1 .. Len(asked') : asked'[k].conn = o =>
                         /\ Awaited(o, asked[k].req)'
                         /\ \A j \in 1 .. Len(asked') : asked'[j].conn = o => j = k
                         /\ \A c \in Handles : Origin(c)' = o => wire'[c] = <<>>
                    /\ \A c \in Handles : Origin(c)' = o /\ wire'[c] # <<>> =>
                         /\ Len(wire'[c]) = 1 /\ Awaited(o, wire[c][1].req)'
                         /\ \A d \in Handles : Origin(d)' = o /\ wire'[d] # <<>> => d = c
  BY <1>5 DEF Pending
<1>7. \A t, u \in Tasks : Reader(t)' /\ Reader(u)' => t = u
  BY <1>2 DEF Pending, Reader
<1>8. \A c \in Handles : Origin(c)' = o /\ wire'[c] # wire[c] => asked[i].conn = o
  BY <1>2, <1>4 DEF Origin, Where
<1>9. \A k \in 1 .. Len(asked') : asked'[k].conn = o =>
        /\ Awaited(o, asked[k].req)'
        /\ \A j \in 1 .. Len(asked') : asked'[j].conn = o => j = k
        /\ \A c \in Handles : Origin(c)' = o => wire'[c] = <<>>
  <2> TAKE k \in 1 .. Len(asked')
  <2> HAVE asked'[k].conn = o
  <2>1. PICK j \in 1 .. Len(asked) : asked'[k] = asked[j] /\ j = IF k < i THEN k ELSE k + 1
    BY <1>3
  <2>2. j # i /\ asked[i].conn # o
    <3>1. asked[j].conn = o /\ j # i
      BY <2>1
    <3> QED BY <3>1 DEF Pending
  <2>3. \A c \in Handles : Origin(c)' = o => wire'[c] = <<>>
    BY <1>2, <1>8, <2>1, <2>2 DEF Pending, Origin
  <2>4. Awaited(o, asked[k].req)'
    BY <1>6, <2>1 DEF Pending
  <2>5. \A l \in 1 .. Len(asked') : asked'[l].conn = o => l = k
    <3> TAKE l \in 1 .. Len(asked')
    <3> HAVE asked'[l].conn = o
    <3>1. PICK m \in 1 .. Len(asked) : asked'[l] = asked[m] /\ m = IF l < i THEN l ELSE l + 1
      BY <1>3
    <3>2. asked[m].conn = o /\ asked[j].conn = o
      BY <2>1, <3>1
    <3>3. m = j
      BY <3>2 DEF Pending
    <3> QED BY <2>1, <3>1, <3>3, SMTT(30)
  <2> QED BY <2>3, <2>4, <2>5
<1>10. ASSUME NEW c \in Handles, Origin(c)' = o, wire'[c] # <<>>
       PROVE  /\ Len(wire'[c]) = 1 /\ Awaited(o, wire[c][1].req)'
              /\ \A d \in Handles : Origin(d)' = o /\ wire'[d] # <<>> => d = c
  <2>1. CASE asked[i].conn # o
    <3>1. \A d \in Handles : Origin(d)' = o => wire'[d] = wire[d] /\ Origin(d) = o
      BY <1>2, <1>8, <2>1 DEF Origin
    <3> QED BY <1>6, <1>10, <3>1 DEF Pending
  <2>2. CASE asked[i].conn = o
    <3>1. Awaited(o, asked[i].req) /\ \A d \in Handles : Origin(d)' = o => wire[d] = <<>>
      BY <1>2, <2>2 DEF Pending, Origin
    <3>2. \A d \in Handles : Origin(d)' = o /\ wire'[d] # <<>> =>
            /\ d \in open /\ (kind = "doip" => d = asked[i].conn)
            /\ wire'[d] = <<[req |-> asked[i].req, ok |-> ok]>>
      BY <1>4, <3>1
    <3>3. Len(wire'[c]) = 1 /\ wire'[c][1].req = asked[i].req
      <4> DEFINE a == [req |-> asked[i].req, ok |-> ok]
      <4>1. wire'[c] = <<a>>
        BY <1>10, <3>2
      <4>2. a.req = asked[i].req /\ Len(<<a>>) = 1 /\ <<a>>[1] = a
        OBVIOUS
      <4> QED BY <4>1, <4>2
    <3>4. kind # "virtual"
      BY <3>1 DEF Awaited, Where, Reader
    <3>5. \A d \in Handles : Origin(d)' = o /\ wire'[d] # <<>> => d = c
      BY <1>10, <3>2, <3>4, OneOpen DEF Apart
    <3> QED BY <1>6, <3>1, <3>3, <3>5
  <2> QED BY <2>1, <2>2
<1> QED BY <1>7, <1>9, <1>10

\* A wait that ends without a reply gives its channels up.
LEMMA WaitPending ==
  ASSUME LockInv, Data, Pending, NEW t \in Tasks, WaitEnds(t)
  PROVE  Pending'
<1> USE DEF LockInv, Control, Data, tvars, device, pool, line
<1>1. /\ \A o : Apart(o)' => Apart(o) /\ o # Origin(conn[t])
      /\ \A c : Origin(c)' = Origin(c)
      /\ asked' = asked /\ wire' = wire
  BY DEF WaitEnds, Apart, Origin
<1>2. \A u \in Tasks : Reader(u)' <=> Reader(u) /\ u # t
  BY DEF WaitEnds, Reader, Finish
<1>3. \A u \in Tasks \ {t} : conn'[u] = conn[u] /\ req'[u] = req[u]
  BY DEF WaitEnds, Finish
<1>4. \A o, r : Awaited(o, r) /\ o # Origin(conn[t]) => Awaited(o, r)'
  BY <1>1, <1>2, <1>3 DEF Awaited
<1> QED BY <1>1, <1>2, <1>4 DEF Pending

\* What a task reads is its own, if nothing else can be on the channel.
LEMMA ReadsOwn ==
  ASSUME LockInv, Data, Pending, NEW t \in Tasks, Read(t), Apart(Origin(Channel(t)))
  PROVE  /\ Head(wire[Channel(t)]).req = req[t]
         /\ Origin(conn[t]) = Origin(Channel(t))
         /\ Len(wire[Channel(t)]) = 1
<1> DEFINE c == Channel(t)
           o == Origin(c)
<1>1. c \in Handles /\ wire[c] \in Seq(Replies) /\ wire[c] # <<>> /\ Reader(t)
  BY DEF Read, Data, Reader
<1>2. o \in 0 .. MaxOpens
  BY <1>1, TransportsAssumption DEF Origin, None, Handles
<1>3. Head(wire[c]) = wire[c][1]
  BY <1>1, Tailed
<1>4. /\ Len(wire[c]) = 1 /\ Awaited(o, wire[c][1].req)
      /\ \A u, v \in Tasks : Reader(u) /\ Reader(v) => u = v
  BY <1>1, <1>2 DEF Pending
<1>5. Origin(conn[t]) = o /\ req[t] = wire[c][1].req
  BY <1>1, <1>4 DEF Awaited
<1> QED BY <1>3, <1>4, <1>5

\* With the one thing that is there, nothing is left.
LEMMA ReadPending ==
  ASSUME LockInv, Data, Where, Pending, NEW t \in Tasks, Read(t)
  PROVE  Pending'
<1> USE DEF LockInv, Control, Data, tvars, device, pool, line
<1> DEFINE c == Channel(t)
<1>1. /\ c \in Handles /\ wire[c] \in Seq(Replies) /\ wire[c] # <<>>
      /\ Reader(t) /\ wire' = [wire EXCEPT ![c] = Tail(@)]
      /\ UNCHANGED <<kind, late, mixed, raced, asked, conn, req, doing>>
      /\ job' = job \/ job' = [job EXCEPT ![t] = "done"]
  BY DEF Read, Reader
<1>2. /\ \A o : Apart(o)' = Apart(o)
      /\ \A d : Origin(d)' = Origin(d)
  BY <1>1 DEF Apart, Origin
<1>3. Len(Tail(wire[c])) = Len(wire[c]) - 1 /\ Tail(wire[c]) \in Seq(Replies)
  BY <1>1, Tailed
<1> SUFFICES ASSUME NEW o \in 0 .. MaxOpens, Apart(o)
             PROVE  /\ \A u, v \in Tasks : Reader(u)' /\ Reader(v)' => u = v
                    /\ \A i \in 1 .. Len(asked') : asked'[i].conn = o =>
                         /\ Awaited(o, asked[i].req)'
                         /\ \A j \in 1 .. Len(asked') : asked'[j].conn = o => j = i
                         /\ \A d \in Handles : Origin(d)' = o => wire'[d] = <<>>
                    /\ \A d \in Handles : Origin(d)' = o /\ wire'[d] # <<>> =>
                         /\ Len(wire'[d]) = 1 /\ Awaited(o, wire[d][1].req)'
                         /\ \A e \in Handles : Origin(e)' = o /\ wire'[e] # <<>> => e = d
  BY <1>2 DEF Pending
<1>4. \A u, v \in Tasks : Reader(u)' /\ Reader(v)' => u = v
  <2>1. \A u \in Tasks : Reader(u)' => Reader(u)
    BY <1>1 DEF Reader
  <2> QED BY <2>1 DEF Pending
<1>5. CASE Origin(c) = o
  <2>1. Len(wire[c]) = 1 /\ \A d \in Handles : Origin(d) = o /\ wire[d] # <<>> => d = c
    BY <1>1, <1>5 DEF Pending
  <2>2. Tail(wire[c]) = <<>>
    <3>1. Len(Tail(wire[c])) = 0
      BY <1>3, <2>1
    <3> QED BY <1>3, <3>1, EmptySeq
  <2>3. \A d \in Handles : Origin(d) = o => wire'[d] = <<>>
    BY <1>1, <2>1, <2>2
  <2>4. \A i \in 1 .. Len(asked) : asked[i].conn # o
    BY <1>1, <1>5 DEF Pending
  <2> QED BY <1>1, <1>2, <1>4, <2>3, <2>4
<1>6. CASE kind # "doip" /\ o # None
  BY <1>1, <1>2, <1>4, <1>6 DEF Where, Origin
<1>7. CASE kind = "doip" /\ Origin(c) # o
  <2>1. kind = "doip" /\ c = held
    BY <1>7 DEF Channel, Captures
  <2>2. \A u \in Tasks : Reader(u) => u = t
    BY <1>1, <2>1 DEF Serial, Reader, Locked
  <2>3. Origin(conn[t]) # o
    <3> SUFFICES ASSUME conn[t] = o PROVE FALSE
      BY <2>1 DEF Origin
    <3>1. held # conn[t] /\ held \notin late
      BY <1>1, <1>7, <2>1 DEF Origin, Where
    <3>2. Apart(Origin(c))
      BY <2>1, <3>1 DEF Apart, Origin, Locked
    <3> QED BY <2>1, <3>1, <3>2, ReadsOwn DEF Origin
  <2>4. \A r : ~Awaited(o, r)
    BY <2>2, <2>3 DEF Awaited
  <2>5. \A i \in 1 .. Len(asked) : asked[i].conn # o
    BY <2>4 DEF Pending
  <2>6. \A d \in Handles : Origin(d) = o => wire[d] = <<>> /\ d # c
    BY <1>7, <2>4 DEF Pending
  <2> QED BY <1>1, <1>2, <1>4, <2>5, <2>6
<1> QED BY <1>5, <1>6, <1>7 DEF Origin

\* Every step keeps Pending.
LEMMA PendingStep == ReplyInv /\ [Next]_vars => Pending'
<1> SUFFICES ASSUME ReplyInv, [Next]_vars PROVE Pending'
  OBVIOUS
<1> USE DEF ReplyInv
<1>1. CASE \E t \in Tasks : Closes(t) \/ ConnectRaises(t)
  BY <1>1, ClosePending
<1>2. CASE \E t \in Tasks : Write(t)
  BY <1>2, WritePending
<1>3. CASE \E t \in Tasks : Read(t)
  BY <1>3, ReadPending
<1>4. CASE \E t \in Tasks : WaitEnds(t)
  BY <1>4, WaitPending
<1>5. CASE Vehicle
  BY <1>5, VehiclePending
<1> QED BY <1>1, <1>2, <1>3, <1>4, <1>5, OtherSteps, NoExchangePending

\* Which steps move the device, and which the replies.
LEMMA WhereSteps ==
  ASSUME LockInv, Data, [Next]_vars
  PROVE  /\ opens' >= opens /\ kind' = kind
         /\ \/ held' = held \/ held' = None \/ kind \in Captures
            \/ held' = opens + 1 /\ opens' = opens + 1
<1> USE DEF LockInv, Control, Data, tvars, device, pool, line, sniffer
<1>0. kind' = kind /\ opens \in Nat
  BY KindStays, TransportsAssumption
<1> DEFINE Goal == /\ opens' >= opens
                   /\ \/ held' = held \/ held' = None \/ kind \in Captures
                      \/ held' = opens + 1 /\ opens' = opens + 1
<1>1. ASSUME NEW t \in Tasks, connect_device(t) \/ Disconnect(t) PROVE Goal
  BY <1>0, <1>1 DEF connect_device, Connect, Disconnect, Begin
<1>2. ASSUME NEW t \in Tasks, NEW r, Ask(t, r) \/ AskByClient(t, r) PROVE Goal
  BY <1>0, <1>2 DEF Ask, AskByClient
<1>3. ASSUME NEW t \in Tasks, Opens(t) PROVE Goal
  BY <1>0, <1>3 DEF Opens
<1>4. ASSUME NEW t \in Tasks, ConnectReturns(t) \/ ConnectRaises(t) \/ DisconnectReturns(t) \/ Closes(t)
      PROVE  Goal
  BY <1>0, <1>4 DEF ConnectReturns, ConnectRaises, DisconnectReturns, Closes
<1>5. ASSUME NEW t \in Tasks,
             \/ OpenFails(t) \/ Rejects(t) \/ ClientSends(t) \/ Write(t) \/ WriteRaises(t)
             \/ Simulate(t) \/ Read(t) \/ WaitEnds(t) \/ AskReturns(t)
      PROVE  Goal
  BY <1>0, <1>5 DEF OpenFails, Rejects, ClientSends, Write, WriteRaises, Simulate, Read,
                    WaitEnds, AskReturns
<1>6. ASSUME UNCHANGED device PROVE Goal
  BY <1>0, <1>6
<1>7. ASSUME NEW t \in Tasks, start_capture(t) \/ stop_capture(t) \/ stop_returns(t) PROVE Goal
  BY <1>6, <1>7 DEF start_capture, stop_capture, stop_returns
<1>8. ASSUME StartJob \/ Vehicle \/ decode_loop \/ UNCHANGED vars PROVE Goal
  BY <1>6, <1>8 DEF StartJob, Vehicle, Answer, Ignore, decode_loop, vars
<1>9. ASSUME NEW t \in Tasks, lifespan_ends(t) PROVE Goal
  BY <1>1, <1>6, <1>9 DEF lifespan_ends
<1>10. Goal
  BY <1>1, <1>2, <1>3, <1>4, <1>5, <1>7, <1>8, <1>9
     DEF Next, Below, Progress, disconnect_device, query, kwp_service, uds_service
<1> QED BY <1>0, <1>10

\* Which steps open a connection, close one, or put a reply on one.
LEMMA OpenSteps ==
  ASSUME LockInv, Data, Where, [Next]_vars
  PROVE  /\ \/ open' \subseteq open
            \/ open' = open \cup {opens'} /\ (kind \in Exclusive => open = {})
         /\ \A c \in Handles : wire'[c] # <<>> => c \in open'
<1> USE DEF LockInv, Control, Data, Where, tvars, device, pool, line, sniffer, Close
<1> DEFINE Goal == /\ \/ open' \subseteq open
                      \/ open' = open \cup {opens'} /\ (kind \in Exclusive => open = {})
                   /\ \A c \in Handles : wire'[c] # <<>> => c \in open'
<1>1. ASSUME NEW t \in Tasks, Opens(t) PROVE Goal
  BY <1>1 DEF Opens
<1>2. ASSUME NEW t \in Tasks, Closes(t) \/ ConnectRaises(t) PROVE Goal
  BY <1>2 DEF Closes, ConnectRaises
<1>3. ASSUME NEW t \in Tasks, Read(t) PROVE Goal
  BY <1>3 DEF Read
<1>4. ASSUME Vehicle PROVE Goal
  BY <1>4 DEF Vehicle, Answer, Ignore
<1>5. ASSUME UNCHANGED <<open, wire>> PROVE Goal
  BY <1>5
<1>6. ASSUME NEW t \in Tasks, connect_device(t) \/ Disconnect(t) PROVE Goal
  BY <1>5, <1>6 DEF connect_device, Connect, Disconnect, Begin
<1>7. ASSUME NEW t \in Tasks, NEW r, Ask(t, r) \/ AskByClient(t, r) PROVE Goal
  BY <1>5, <1>7 DEF Ask, AskByClient
<1>8. ASSUME NEW t \in Tasks,
             \/ OpenFails(t) \/ Rejects(t) \/ ConnectReturns(t) \/ DisconnectReturns(t)
             \/ ClientSends(t) \/ Write(t) \/ WriteRaises(t) \/ Simulate(t)
             \/ WaitEnds(t) \/ AskReturns(t)
      PROVE  Goal
  BY <1>5, <1>8 DEF OpenFails, Rejects, ConnectReturns, DisconnectReturns, ClientSends, Write,
                    WriteRaises, Simulate, WaitEnds, AskReturns
<1>9. ASSUME NEW t \in Tasks, start_capture(t) \/ stop_capture(t) \/ stop_returns(t) PROVE Goal
  BY <1>5, <1>9 DEF start_capture, stop_capture, stop_returns
<1>10. ASSUME StartJob \/ decode_loop \/ UNCHANGED vars PROVE Goal
  BY <1>5, <1>10 DEF StartJob, decode_loop, vars
<1>11. ASSUME NEW t \in Tasks, lifespan_ends(t) PROVE Goal
  BY <1>5, <1>6, <1>11 DEF lifespan_ends
<1> QED BY <1>1, <1>2, <1>3, <1>4, <1>6, <1>7, <1>8, <1>9, <1>10, <1>11
        DEF Next, Below, Progress, disconnect_device, query, kwp_service, uds_service

\* Which steps make a reader, or end its wait.
LEMMA ReaderSteps ==
  ASSUME LockInv, Data, [Next]_vars
  PROVE  \/ /\ late' = late
            /\ \A i \in 1 .. Len(asked') : \E j \in 1 .. Len(asked) : asked'[i] = asked[j]
            /\ \A t \in Tasks : Reader(t)' => Reader(t) /\ conn'[t] = conn[t]
         \/ \E t \in Tasks : Write(t) \/ WaitEnds(t)
<1> USE DEF LockInv, Control, Data, tvars, device, pool, line, sniffer
<1> DEFINE Same == /\ late' = late
                   /\ \A i \in 1 .. Len(asked') : \E j \in 1 .. Len(asked) : asked'[i] = asked[j]
                   /\ \A t \in Tasks : Reader(t)' => Reader(t) /\ conn'[t] = conn[t]
<1>1. ASSUME NoExchange PROVE Same
  BY <1>1 DEF NoExchange
<1>2. ASSUME NEW t \in Tasks, Closes(t) \/ ConnectRaises(t) PROVE Same
  BY <1>2 DEF Closes, ConnectRaises, Finish, Reader
<1>3. ASSUME NEW t \in Tasks, Read(t) PROVE Same
  BY <1>3 DEF Read, Reader
<1>4. ASSUME Vehicle PROVE Same
  <2>1. PICK i \in 1 .. Len(asked) : \E ok \in BOOLEAN : Ignore(i) \/ Answer(i, ok)
    BY <1>4 DEF Vehicle
  <2>2. /\ UNCHANGED <<late, doing, job, conn>>
        /\ asked' = SubSeq(asked, 1, i - 1) \o SubSeq(asked, i + 1, Len(asked))
    BY <2>1 DEF Ignore, Answer
  <2>3. Len(asked) \in Nat /\ i \in 1 .. Len(asked)
    OBVIOUS
  <2>4. /\ Len(asked') = Len(asked) - 1
        /\ \A k \in 1 .. Len(asked') : asked'[k] = asked[IF k < i THEN k ELSE k + 1]
    BY <2>2, Removed
  <2>5. \A k \in 1 .. Len(asked') : (IF k < i THEN k ELSE k + 1) \in 1 .. Len(asked)
    BY <2>3, <2>4
  <2>6. \A k \in 1 .. Len(asked') : \E j \in 1 .. Len(asked) : asked'[k] = asked[j]
    BY <2>4, <2>5
  <2> QED BY <2>2, <2>6 DEF Reader
<1> QED BY <1>1, <1>2, <1>3, <1>4, OtherSteps

\* The simulated vehicle is never waited for.
LEMMA VirtualSteps ==
  ASSUME LockInv, Data, kind = "virtual", \A t \in Tasks : job[t] # "reading", [Next]_vars
  PROVE  \A t \in Tasks : job'[t] # "reading"
<1> USE DEF LockInv, Control, Data, tvars, device, pool, line, sniffer
<1> DEFINE Goal == \A t \in Tasks : job'[t] # "reading"
<1>1. ASSUME NEW t \in Tasks, connect_device(t) \/ Disconnect(t) PROVE Goal
  BY <1>1 DEF connect_device, Connect, Disconnect, Begin, Submit
<1>2. ASSUME NEW t \in Tasks, NEW r, Ask(t, r) \/ AskByClient(t, r) PROVE Goal
  BY <1>2 DEF Ask, AskByClient, Submit
<1>3. ASSUME NEW t \in Tasks,
             \/ ConnectReturns(t) \/ ConnectRaises(t) \/ DisconnectReturns(t)
             \/ WriteRaises(t) \/ WaitEnds(t) \/ AskReturns(t)
      PROVE  Goal
  BY <1>3 DEF ConnectReturns, ConnectRaises, DisconnectReturns, WriteRaises, WaitEnds,
              AskReturns, Finish
<1>4. ASSUME NEW t \in Tasks, ClientSends(t) PROVE Goal
  BY <1>4 DEF ClientSends, Finish, Submit
<1>5. ASSUME NEW t \in Tasks,
             \/ Opens(t) \/ OpenFails(t) \/ Rejects(t) \/ Closes(t)
             \/ Write(t) \/ Simulate(t) \/ Read(t)
      PROVE  Goal
  BY <1>5 DEF Opens, OpenFails, Rejects, Closes, Write, Simulate, Read
<1>6. ASSUME UNCHANGED job PROVE Goal
  BY <1>6
<1>7. ASSUME NEW t \in Tasks, start_capture(t) \/ stop_capture(t) \/ stop_returns(t) PROVE Goal
  BY <1>6, <1>7 DEF start_capture, stop_capture, stop_returns
<1>8. ASSUME Vehicle \/ decode_loop \/ UNCHANGED vars PROVE Goal
  BY <1>6, <1>8 DEF Vehicle, Answer, Ignore, decode_loop, vars
<1>9. ASSUME NEW t \in Tasks, lifespan_ends(t) PROVE Goal
  BY <1>1, <1>6, <1>9 DEF lifespan_ends
<1>10. ASSUME StartJob PROVE Goal
  BY <1>10, StartsOne
<1> QED BY <1>1, <1>2, <1>3, <1>4, <1>5, <1>7, <1>8, <1>9, <1>10
        DEF Next, Below, Progress, disconnect_device, query, kwp_service, uds_service

\* Every step keeps Where.
LEMMA WhereStep == ReplyInv /\ [Next]_vars => Where'
<1> SUFFICES ASSUME ReplyInv, [Next]_vars PROVE Where'
  OBVIOUS
<1> USE DEF ReplyInv, None
<1>0. kind' = kind /\ opens \in Nat /\ opens' >= opens /\ opens' \in Nat /\ held \in Nat
  BY WhereSteps, NumbersStep DEF Numbers
<1>1. \A c \in Handles : wire'[c] # <<>> => c \in open'
  BY OpenSteps
<1>2. kind \in Exclusive => \A c, d \in open' : c = d
  BY OpenSteps DEF Where
<1>3. kind = "virtual" => \A t \in Tasks : job'[t] # "reading"
  BY VirtualSteps DEF Where
<1>4. CASE \A t \in Tasks : ~Write(t) /\ ~WaitEnds(t)
  <2>1. /\ late' = late
        /\ \A i \in 1 .. Len(asked') : \E j \in 1 .. Len(asked) : asked'[i] = asked[j]
        /\ \A t \in Tasks : Reader(t)' => Reader(t) /\ conn'[t] = conn[t]
    BY <1>4, ReaderSteps
  <2>2. kind # "doip" => late' \subseteq {None} /\ \A i \in 1 .. Len(asked') : asked'[i].conn = None
    BY <2>1 DEF Where
  <2>3. ASSUME kind = "doip"
        PROVE  /\ None \notin late' /\ late' \subseteq 0 .. opens' /\ held' <= opens'
               /\ \A t \in Tasks : Reader(t)' =>
                    conn'[t] \in 1 .. opens' /\ (held' \in late' => held' = conn'[t])
    <3>1. held' \in {held, None} \/ (held' = opens + 1 /\ opens' = opens + 1)
      BY <2>3, WhereSteps DEF Captures
    <3> QED BY <1>0, <2>1, <2>3, <3>1 DEF Where
  <2> QED BY <1>0, <1>1, <1>2, <1>3, <2>2, <2>3 DEF Where
<1>5. ASSUME NEW t \in Tasks, Write(t) PROVE Where'
  <2>1. /\ UNCHANGED <<held, opens, late>>
        /\ \A u \in Tasks : Reader(u)' => Reader(u) \/ u = t
        /\ \A u \in Tasks \ {t} : conn'[u] = conn[u]
        /\ kind = "doip" => conn'[t] = held /\ held \in open
    BY <1>5 DEF Write, device, Reader, Channel, Captures, LockInv, Control, Data
  <2>2. kind # "doip" => \A i \in 1 .. Len(asked') : asked'[i].conn = None
    <3>1. asked \in Seq([req : Requests, conn : 0 .. MaxOpens])
      BY DEF Data
    <3>2. [req |-> req[t], conn |-> Origin(held)] \in [req : Requests, conn : 0 .. MaxOpens]
      BY <1>5, TransportsAssumption DEF Write, Origin, Data
    <3>3. \A i \in 1 .. Len(asked') :
            \/ i \in 1 .. Len(asked) /\ asked'[i] = asked[i]
            \/ asked'[i] = [req |-> req[t], conn |-> Origin(held)]
      BY <1>5, <3>1, <3>2, Appended DEF Write
    <3> QED BY <3>3 DEF Where, Origin
  <2>3. kind = "doip" => held \in 1 .. opens
    BY <1>0, <2>1, TransportsAssumption DEF Where, Data, Handles
  <2> QED BY <1>0, <1>1, <1>2, <1>3, <2>1, <2>2, <2>3 DEF Where
<1>6. ASSUME NEW t \in Tasks, WaitEnds(t) PROVE Where'
  <2>1. /\ UNCHANGED <<held, opens, asked>> /\ late' = late \cup {Origin(conn[t])} /\ Reader(t)
        /\ \A u \in Tasks : Reader(u)' => Reader(u) /\ u # t
    BY <1>6 DEF WaitEnds, device, Reader, Finish, LockInv, Control, Data
  <2>2. kind = "doip" => \A u \in Tasks : ~Reader(u)'
    BY <2>1 DEF LockInv, Serial, Reader, Locked
  <2> QED BY <1>0, <1>1, <1>2, <1>3, <2>1, <2>2 DEF Where, Origin
<1> QED BY <1>4, <1>5, <1>6

\* A step that is neither a read nor a simulated answer gives no reply, and who
\* has one keeps it until its call is over.
LEMMA GivenSteps ==
  ASSUME LockInv, Data, Given, [Next]_vars,
         \A t \in Tasks : ~Read(t) /\ ~Simulate(t)
  PROVE  /\ \A t \in Tasks : got'[t] # NoReply =>
              /\ got'[t] = got[t] /\ req'[t] = req[t] /\ conn'[t] = conn[t]
              /\ doing'[t] = "ask" /\ job'[t] = "done"
         /\ kind' = kind /\ late \subseteq late' /\ (mixed => mixed') /\ (raced => raced')
<1> USE DEF LockInv, Control, Data, Given, tvars, device, pool, line, sniffer
<1> DEFINE Goal == /\ \A t \in Tasks : got'[t] # NoReply =>
                        /\ got'[t] = got[t] /\ req'[t] = req[t] /\ conn'[t] = conn[t]
                        /\ doing'[t] = "ask" /\ job'[t] = "done"
                   /\ late \subseteq late' /\ (mixed => mixed') /\ (raced => raced')
<1>0. kind' = kind
  BY KindStays
<1>1. ASSUME NEW t \in Tasks, Calls(t), connect_device(t) \/ Disconnect(t) PROVE Goal
  BY <1>1 DEF connect_device, Connect, Disconnect, Begin, Submit, Calls, Idle
<1>2. ASSUME NEW t \in Tasks, NEW r, Calls(t), Ask(t, r) \/ AskByClient(t, r) PROVE Goal
  <2>1. \A u \in Tasks : got[u] # NoReply => u # t
    BY <1>2 DEF Calls, Idle
  <2>2. CASE Ask(t, r)
    BY <2>1, <2>2 DEF Ask, Submit
  <2>3. CASE AskByClient(t, r)
    BY <2>1, <2>3 DEF AskByClient
  <2> QED BY <1>2, <2>2, <2>3
<1>3. ASSUME NEW t \in Tasks,
             \/ ConnectReturns(t) \/ ConnectRaises(t) \/ DisconnectReturns(t)
             \/ WriteRaises(t) \/ WaitEnds(t) \/ AskReturns(t)
      PROVE  Goal
  <2>1. Finish(t) /\ UNCHANGED <<mixed, raced>> /\ late \subseteq late'
    BY <1>3 DEF ConnectReturns, ConnectRaises, DisconnectReturns, WriteRaises, WaitEnds,
                AskReturns
  <2>2. \A u \in Tasks : got'[u] # NoReply => u # t
    BY <2>1 DEF Finish
  <2>3. \A u \in Tasks \ {t} : /\ got'[u] = got[u] /\ req'[u] = req[u] /\ conn'[u] = conn[u]
                               /\ doing'[u] = doing[u] /\ job'[u] = job[u]
    BY <2>1 DEF Finish
  <2> QED BY <2>1, <2>2, <2>3
<1>4. ASSUME NEW t \in Tasks, ClientSends(t) PROVE Goal
  BY <1>4 DEF ClientSends, Finish, Submit
<1>5. ASSUME NEW t \in Tasks, Opens(t) \/ OpenFails(t) \/ Rejects(t) \/ Closes(t) \/ Write(t)
      PROVE  Goal
  <2>1. \A u \in Tasks : got[u] # NoReply => u # t
    BY <1>5 DEF Opens, OpenFails, Rejects, Closes, Write
  <2>2. /\ UNCHANGED <<doing, got, req, late, raced>> /\ (mixed => mixed')
        /\ \A u \in Tasks \ {t} : conn'[u] = conn[u] /\ job'[u] = job[u]
    <3>1. CASE Opens(t)
      BY <3>1 DEF Opens
    <3>2. CASE OpenFails(t) \/ Rejects(t) \/ Closes(t)
      BY <3>2 DEF OpenFails, Rejects, Closes
    <3>3. CASE Write(t)
      BY <3>3 DEF Write
    <3> QED BY <1>5, <3>1, <3>2, <3>3
  <2> QED BY <2>1, <2>2
<1>6. ASSUME UNCHANGED <<late, mixed, raced, doing, job, conn, req, got>> PROVE Goal
  BY <1>6
<1>7. ASSUME NEW t \in Tasks, start_capture(t) \/ stop_capture(t) \/ stop_returns(t) PROVE Goal
  BY <1>7 DEF start_capture, stop_capture, stop_returns, Calls, Idle
<1>8. ASSUME Vehicle \/ decode_loop \/ UNCHANGED vars PROVE Goal
  BY <1>6, <1>8 DEF Vehicle, Answer, Ignore, decode_loop, vars
<1>9. ASSUME NEW t \in Tasks, lifespan_ends(t) PROVE Goal
  BY <1>1, <1>6, <1>9 DEF lifespan_ends, Calls
<1>10. ASSUME StartJob PROVE Goal
  <2>1. \E t \in Tasks : \/ job[t] = "queued" /\ job' = [job EXCEPT ![t] = "running"]
                         \/ job' = job
    BY <1>10, StartsOne
  <2> QED BY <1>10, <2>1 DEF StartJob
<1>11. Goal
  BY <1>1, <1>2, <1>3, <1>4, <1>5, <1>7, <1>8, <1>9, <1>10
     DEF Next, Below, Progress, connect_device, disconnect_device, query, kwp_service, uds_service
<1> QED BY <1>0, <1>11

\* What may be wrong with the reply a task was given.
LEMMA ReadRight ==
  ASSUME ReplyInv, NEW t \in Tasks, Read(t)
  PROVE  Given' /\ RightReply'
<1> USE DEF ReplyInv
<1> DEFINE c == Channel(t)
           h == Head(wire[c])
<1>1. /\ UNCHANGED <<kind, late, mixed, raced, doing, req, conn>>
      /\ job[t] = "reading" /\ doing[t] = "ask"
      /\ \/ UNCHANGED <<got, job>>
         \/ /\ got' = [got EXCEPT ![t] = h] /\ job' = [job EXCEPT ![t] = "done"]
            /\ kind \in Matching => Fits(h, req[t])
  BY DEF Read, device
<1>2. CASE UNCHANGED <<got, job>>
  BY <1>1, <1>2 DEF Given, RightReply
<1>3. CASE /\ got' = [got EXCEPT ![t] = h] /\ job' = [job EXCEPT ![t] = "done"]
           /\ kind \in Matching => Fits(h, req[t])
  <2>1. Given'
    BY <1>1, <1>3 DEF Given, LockInv, Control, Data
  <2>2. \/ h.req = req[t]
        \/ Origin(c) \in late \/ (kind \notin Locked /\ mixed) \/ (kind = "socketcan" /\ raced)
    BY ReadsOwn DEF Apart
  <2>3. Origin(c) \in late => late # {} /\ (kind = "doip" => conn[t] \in late)
    BY <1>1 DEF Where, Origin, Channel, Captures, Reader
  <2>4. got'[t] = h /\ \A u \in Tasks \ {t} : got'[u] = got[u]
    BY <1>3 DEF Data
  <2>5. RightReply'
    <3> SUFFICES ASSUME NEW u \in Tasks, doing'[u] = "ask", got'[u] # NoReply,
                        got'[u].req # req'[u]
                 PROVE  /\ kind' \in Matching =>
                             /\ Service[got'[u].req] = Service[req'[u]]
                             /\ got'[u].ok => Echo[got'[u].req] = Echo[req'[u]]
                        /\ \/ late' # {} /\ (kind' = "doip" => conn'[u] \in late')
                           \/ kind' \notin Locked /\ mixed'
                           \/ kind' = "socketcan" /\ raced'
      BY DEF RightReply
    <3>1. CASE u = t
      BY <1>1, <1>3, <2>2, <2>3, <2>4, <3>1 DEF Fits
    <3>2. CASE u # t
      BY <1>1, <2>4, <3>2 DEF RightReply
    <3> QED BY <3>1, <3>2
  <2> QED BY <2>1, <2>5
<1> QED BY <1>1, <1>2, <1>3

\* The simulated vehicle answers what it is asked.
LEMMA SimulateRight ==
  ASSUME ReplyInv, NEW t \in Tasks, Simulate(t)
  PROVE  Given' /\ RightReply'
<1> USE DEF ReplyInv, LockInv, Control, Data, device, line
<1>1. /\ UNCHANGED <<kind, late, mixed, raced, doing, req, conn>>
      /\ job[t] = "running" /\ doing[t] = "ask" /\ job' = [job EXCEPT ![t] = "done"]
      /\ got' = [got EXCEPT ![t] = [req |-> req[t], ok |-> TRUE]]
  BY DEF Simulate
<1>2. got'[t].req = req'[t] /\ \A u \in Tasks \ {t} : got'[u] = got[u]
  BY <1>1
<1> QED BY <1>1, <1>2 DEF Given, RightReply

\* RightReply: in every state that can be reached a task that was given the reply
\* to another request is one of those that the property names.
THEOREM ReplyInvariant == Spec => []RightReply
<1>1. Init => ReplyInv
  <2> SUFFICES ASSUME Init PROVE ReplyInv
    OBVIOUS
  <2>1. LockInv /\ Numbers /\ Accounts /\ Stopping
    BY LockInit, DeviceInit DEF DeviceInv
  <2>2. Flags
    BY DEF Flags, Init, TransportInit, Statuses, Loops
  <2>3. Data
    BY TransportsAssumption DEF Data, Init, TransportInit, None, Handles
  <2>4. Where /\ Pending /\ Given /\ RightReply
    BY DEF Where, Pending, Given, RightReply, Reader, Init, TransportInit, None
  <2> QED BY <2>1, <2>2, <2>3, <2>4 DEF ReplyInv
<1>2. ReplyInv /\ [Next]_vars => ReplyInv'
  <2> SUFFICES ASSUME ReplyInv, [Next]_vars PROVE ReplyInv'
    OBVIOUS
  <2> USE DEF ReplyInv
  <2>1. LockInv'
    BY ControlStep, SerialStep DEF LockInv
  <2>2. Numbers' /\ Accounts' /\ Stopping'
    BY NumbersStep, AccountsStep, StoppingStep DEF LockInv, DeviceInv
  <2>3. Flags' /\ Data' /\ Where' /\ Pending'
    BY FlagsStep, DataStep, WhereStep, PendingStep DEF LockInv
  <2>4. Given' /\ RightReply'
    <3>1. CASE \E t \in Tasks : Read(t) \/ Simulate(t)
      BY <3>1, ReadRight, SimulateRight
    <3>2. CASE \A t \in Tasks : ~Read(t) /\ ~Simulate(t)
      BY <3>2, GivenSteps DEF Given, RightReply
    <3> QED BY <3>1, <3>2
  <2> QED BY <2>1, <2>2, <2>3, <2>4
<1> QED BY <1>1, <1>2, PTL DEF Spec, ReplyInv
=============================================================================
