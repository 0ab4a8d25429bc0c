------------------------- MODULE J2534ChannelProofs -------------------------
(***************************************************************************)
(* What an exchange hears: theorems about J2534Channel, for every set of   *)
(* ECUs and requests, every deadline, and any number of exchanges.         *)
(*                                                                         *)
(* Whether a reply is fresh, or an answer can be missed, depends on frames *)
(* that no one has read yet and on answers that ECUs are still working on. *)
(* Numbered says of which exchange those may be, AskHears and AskAllHears  *)
(* that an answer given is in the list, or in the buffer of a reader that  *)
(* has been behind for as long as it waits.  Together with TypeOK and the  *)
(* properties they are inductive; each is shown in a lemma with one step   *)
(* for each action.                                                        *)
(***************************************************************************)
EXTENDS J2534Channel, TLAPS

\* While an exchange is under way it has not ended, and it has collected replies
\* in the read loop of ask_all only.
Underway ==
  /\ pc # "idle" => outcome = "none" /\ n > 0
  /\ pc # "idle" /\ (pc # "read" \/ verb = "ask") => seen = {}
  /\ pc \in {"clear", "write"} => answered = NotYet /\ behind = 0
  /\ pc = "read" => behind <= elapsed

\* The exchange cannot have met a frame of an earlier one.
Clean == clearable /\ ~rx_clear_unsupported

\* No ECU works on a request yet to be written; once a clean exchange has
\* cleared the buffer, all there is belongs to it.
Numbered ==
  /\ \A o \in owes : o.n <= n /\ (o.n = n => o.req = req)
  /\ pc \in {"clear", "write"} => \A o \in owes : o.n < n
  /\ Clean /\ pc \in {"write", "read"} =>
       /\ \A o \in owes : o.n = n
       /\ \A i \in 1 .. Len(rx) : rx[i].kind # "noise" => rx[i].n = n
       /\ \A f \in seen : f.n = n

\* An ECU's answer to ask waits in the buffer as long as ask is reading, which has
\* been behind ever since.
AskHears ==
  pc = "read" /\ verb = "ask" =>
    \A e \in ECUs : answered[e] < Deadline =>
      /\ answered[e] + behind >= elapsed
      /\ \E i \in 1 .. Len(rx) : Matches(rx[i])

\* An ECU's answer to ask_all is in the list, or in the buffer of a reader that has
\* been behind ever since; and the loop does not end by the clock within P2.
AskAllHears ==
  /\ pc = "read" /\ verb = "ask_all" =>
       /\ quiet <= elapsed
       /\ \A e \in ECUs : answered[e] < Deadline /\ e \notin Listed =>
            /\ answered[e] + behind >= elapsed
            /\ \E i \in 1 .. Len(rx) : rx[i].kind # "noise" /\ rx[i].ecu = e
  /\ ListReturned => elapsed > P2Max

\* An exchange that timed out has used up its time.
Exhausted == verb = "ask" /\ outcome = "Timeout" => elapsed = Deadline

Sound == /\ TypeOK /\ Underway /\ Numbered /\ AskHears /\ AskAllHears /\ Exhausted
         /\ Backstop /\ FreshIfClearable /\ PromptHeard /\ TimeoutMeansSilence

-----------------------------------------------------------------------------
(* The buffer and the answers under way.                                   *)

\* Reading takes the first frame and moves the others up.
LEMMA ReadBuffer ==
  ASSUME TypeOK, rx # <<>>
  PROVE  /\ Head(rx) \in Frames /\ Head(rx) = rx[1] /\ 1 \in 1 .. Len(rx)
         /\ Tail(rx) \in Seq(Frames) /\ Len(Tail(rx)) = Len(rx) - 1
         /\ \A i \in 1 .. Len(Tail(rx)) : Tail(rx)[i] = rx[i + 1]
<1> rx \in Seq(Frames)
  BY DEF TypeOK
<1> QED OBVIOUS

\* A frame that arrives is added at the end.
LEMMA Arrival ==
  ASSUME TypeOK, NEW f \in Frames, Arrives(f)
  PROVE  /\ rx' \in Seq(Frames) /\ Len(rx') = Len(rx) + 1
         /\ Len(rx') \in 1 .. Len(rx') /\ rx'[Len(rx')] = f
         /\ \A i \in 1 .. Len(rx) : i \in 1 .. Len(rx') /\ rx'[i] = rx[i]
<1>1. rx \in Seq(Frames) /\ rx' = Append(rx, f)
  BY DEF TypeOK, Arrives
<1> QED BY <1>1

\* What an ECU sends is known by it and by the request it answers.
LEMMA ReplyFrame ==
  ASSUME TypeOK, NEW o \in owes, NEW kind \in {"full", "bare"}
  PROVE  /\ Reply(o, kind) \in Frames
         /\ Reply(o, kind).ecu = o.ecu /\ Reply(o, kind).kind = kind
         /\ Reply(o, kind).req = o.req /\ Reply(o, kind).n = o.n
<1>1. o \in Answers
  BY DEF TypeOK
<1> QED BY <1>1 DEF Reply, Frames, Replies, Answers

\* A frame that is not noise is a reply.
LEMMA AReply ==
  ASSUME NEW f \in Frames, f.kind # "noise"
  PROVE  f \in Replies
BY DEF Frames, Noise

\* A reply is noted at the time it comes, and only the first of its ECU.
LEMMA NotedAt ==
  ASSUME TypeOK, NEW o \in owes, Noted(o)
  PROVE  /\ answered' \in [ECUs -> 0 .. Deadline]
         /\ \A e \in ECUs : \/ answered'[e] = answered[e]
                            \/ /\ e = o.ecu /\ o.n = n /\ answered'[e] = elapsed
                               /\ elapsed < answered[e]
         /\ o.n = n => answered'[o.ecu] <= elapsed
<1>1. o.ecu \in ECUs /\ answered \in [ECUs -> 0 .. Deadline] /\ elapsed \in 0 .. Deadline
      /\ Deadline \in Nat
  BY ChannelAssumption DEF TypeOK, Answers
<1>2. CASE o.n = n /\ elapsed < answered[o.ecu]
  BY <1>1, <1>2 DEF Noted
<1>3. CASE ~(o.n = n /\ elapsed < answered[o.ecu])
  BY <1>1, <1>3 DEF Noted
<1> QED BY <1>2, <1>3

\* ECUs start to work on the request just written.
LEMMA SentAnswers ==
  ASSUME TypeOK, Sent, n > 0
  PROVE  /\ owes' \subseteq Answers
         /\ \A o \in owes' : o \in owes \/ (o.n = n /\ o.req = req)
         /\ owes \subseteq owes'
<1>1. PICK S \in SUBSET ECUs :
        owes' = owes \union {[ecu |-> e, req |-> req, n |-> n] : e \in S}
  BY DEF Sent
<1>2. \A e \in S : [ecu |-> e, req |-> req, n |-> n] \in Answers
  BY ChannelAssumption DEF TypeOK, Answers
<1> QED BY <1>1, <1>2 DEF TypeOK

\* What the bus does: a frame is added, a reply to the request of the ECU that sent
\* it or noise; the first reply to this exchange is noted at the time it comes.
LEMMA BusStep ==
  ASSUME TypeOK, NEW o \in owes, Answer(o) \/ Foretell(o)
  PROVE  /\ UNCHANGED <<pc, verb, req, n, elapsed, quiet, seen, outcome, tried, ok,
                         disconnected, behind, clearable>>
         /\ owes' \subseteq owes
         /\ rx' \in Seq(Frames) /\ Len(rx') = Len(rx) + 1 /\ Len(rx') \in 1 .. Len(rx')
         /\ \A i \in 1 .. Len(rx) : i \in 1 .. Len(rx') /\ rx'[i] = rx[i]
         /\ rx'[Len(rx')].kind # "noise" =>
              /\ rx'[Len(rx')].kind \in {"full", "bare"}
              /\ rx'[Len(rx')].ecu = o.ecu /\ rx'[Len(rx')].req = o.req
              /\ rx'[Len(rx')].n = o.n
         /\ answered' \in [ECUs -> 0 .. Deadline]
         /\ \A e \in ECUs : answered'[e] = answered[e]
              \/ /\ e = o.ecu /\ o.n = n /\ answered'[e] = elapsed
                 /\ elapsed < answered[e] /\ rx'[Len(rx')].kind # "noise"
<1> DEFINE last == rx'[Len(rx')]
           Plain == UNCHANGED <<pc, verb, req, n, elapsed, quiet, seen, outcome, tried, ok,
                                disconnected, behind, clearable>>
<1>1. Plain /\ owes' \subseteq owes
  BY DEF Answer, Foretell, exchange, clearing
<1>2. Noise \in Frames /\ Noise.kind = "noise"
  BY DEF Frames, Noise
<1>3. CASE \E kind \in {"full", "bare"} : Arrives(Reply(o, kind)) /\ Noted(o)
  <2>1. PICK kind \in {"full", "bare"} : Arrives(Reply(o, kind)) /\ Noted(o)
    BY <1>3
  <2>2. /\ Reply(o, kind) \in Frames /\ Reply(o, kind).ecu = o.ecu
        /\ Reply(o, kind).kind = kind /\ Reply(o, kind).req = o.req
        /\ Reply(o, kind).n = o.n
    BY ReplyFrame
  <2>3. /\ rx' \in Seq(Frames) /\ Len(rx') = Len(rx) + 1
        /\ Len(rx') \in 1 .. Len(rx') /\ last = Reply(o, kind)
        /\ \A i \in 1 .. Len(rx) : i \in 1 .. Len(rx') /\ rx'[i] = rx[i]
    BY <2>1, <2>2, Arrival
  <2>4. /\ answered' \in [ECUs -> 0 .. Deadline]
        /\ \A e \in ECUs : \/ answered'[e] = answered[e]
                           \/ /\ e = o.ecu /\ o.n = n /\ answered'[e] = elapsed
                              /\ elapsed < answered[e]
    BY <2>1, NotedAt
  <2>5. last.kind \in {"full", "bare"} /\ last.kind # "noise"
    BY <2>2, <2>3
  <2> HIDE DEF last, Plain
  <2> QED BY <1>1, <2>2, <2>3, <2>4, <2>5 DEF last, Plain
<1>4. CASE Arrives(Noise) /\ UNCHANGED answered
  <2>1. /\ rx' \in Seq(Frames) /\ Len(rx') = Len(rx) + 1
        /\ Len(rx') \in 1 .. Len(rx') /\ last = Noise
        /\ \A i \in 1 .. Len(rx) : i \in 1 .. Len(rx') /\ rx'[i] = rx[i]
    BY <1>2, <1>4, Arrival
  <2>2. answered \in [ECUs -> 0 .. Deadline]
    BY DEF TypeOK
  <2> QED BY <1>1, <1>2, <1>4, <2>1, <2>2
<1> QED BY <1>3, <1>4 DEF Answer, Foretell

-----------------------------------------------------------------------------
(* The inductive invariant.                                                *)

\* The channel starts with nothing collected, nothing owed and nothing heard.
LEMMA SoundInit == Init => Sound
<1> SUFFICES ASSUME Init PROVE Sound
  OBVIOUS
<1>1. TypeOK
  <2>1. req \in Requests
    BY ChannelAssumption DEF Init
  <2>2. rx \in Seq(Frames) /\ seen \subseteq Replies /\ owes \subseteq Answers
        /\ answered \in [ECUs -> 0 .. Deadline]
    BY ChannelAssumption DEF Init, NotYet
  <2>3. tried \in BOOLEAN /\ ok \in BOOLEAN /\ disconnected \in BOOLEAN
        /\ clearable \in BOOLEAN
    BY ChannelAssumption DEF Init
  <2> QED BY ChannelAssumption, <2>1, <2>2, <2>3 DEF Init, TypeOK, Verbs, Outcomes
<1>2. Underway /\ Numbered /\ AskHears /\ AskAllHears /\ Exhausted
  BY DEF Init, Underway, Numbered, AskHears, AskAllHears, Exhausted, ListReturned
<1>3. Backstop /\ FreshIfClearable /\ PromptHeard /\ TimeoutMeansSilence
  BY DEF Init, Backstop, FreshIfClearable, PromptHeard, TimeoutMeansSilence, AskReplied,
         ListReturned
<1> QED BY <1>1, <1>2, <1>3 DEF Sound

\* Types.
LEMMA TypeStep == Sound /\ [Next]_vars => TypeOK'
<1> SUFFICES ASSUME Sound, [Next]_vars PROVE TypeOK'
  OBVIOUS
<1> USE ChannelAssumption DEF exchange, clearing, history
<1>0. TypeOK /\ Underway
  BY DEF Sound
<1>1. ASSUME NEW v \in Verbs, NEW r \in Requests, Begin(v, r) PROVE TypeOK'
  <2>1. clearable' \in BOOLEAN
    BY <1>1, Zenon DEF Begin
  <2>2. answered' \in [ECUs -> 0 .. Deadline]
    BY <1>1, SMT DEF Begin, NotYet
  <2> QED BY <1>0, <1>1, <2>1, <2>2 DEF Begin, TypeOK, Verbs, Outcomes
<1>2. ASSUME NEW v \in Verbs, NEW r \in Requests, BeginDisconnected(v, r) PROVE TypeOK'
  <2>1. clearable' \in BOOLEAN
    BY <1>2, Zenon DEF BeginDisconnected
  <2>2. answered' \in [ECUs -> 0 .. Deadline]
    BY <1>2, SMT DEF BeginDisconnected, NotYet
  <2> QED BY <1>0, <1>2, <2>1, <2>2 DEF BeginDisconnected, TypeOK, Verbs, Outcomes
<1>3. CASE ClearRx
  <2>1. rx' = rx \/ rx' = <<>>
    BY <1>3, Zenon DEF ClearRx
  <2>2. tried' \in BOOLEAN /\ ok' \in BOOLEAN /\ clearable' \in BOOLEAN
    BY <1>0, <1>3, Zenon DEF ClearRx, TypeOK
  <2>3. /\ pc' = "write" /\ verb' = verb /\ req' = req /\ n' = n
        /\ elapsed' = elapsed /\ quiet' = quiet /\ seen' = seen /\ outcome' = outcome
        /\ owes' = owes /\ answered' = answered /\ behind' = behind
    BY <1>3 DEF ClearRx
  <2>4. disconnected' \in BOOLEAN
    BY <1>0, <1>3, Zenon DEF ClearRx, TypeOK
  <2>5. rx' \in Seq(Frames)
    <3>1. rx \in Seq(Frames) /\ <<>> \in Seq(Frames)
      BY <1>0 DEF TypeOK
    <3> QED BY <2>1, <3>1, Zenon
  <2> QED BY <1>0, <2>2, <2>3, <2>4, <2>5 DEF TypeOK
<1>4. CASE Write
  BY <1>0, <1>4, SentAnswers DEF Write, TypeOK, Underway
<1>5. CASE WriteRaises
  BY <1>0, <1>5, SentAnswers DEF WriteRaises, Raise, TypeOK, Outcomes, Underway
<1>6. CASE ReadDiscards
  BY <1>0, <1>6, ReadBuffer DEF ReadDiscards, Reading, Take, TypeOK
<1>7. CASE AskReturns
  <2>1. Head(rx) \in Frames /\ Tail(rx) \in Seq(Frames) /\ Head(rx).kind # "noise"
    BY <1>0, <1>7, ReadBuffer DEF AskReturns, Reading, Matches
  <2>2. Head(rx) \in Replies
    BY <2>1, AReply
  <2> QED BY <1>0, <1>7, <2>1, <2>2 DEF AskReturns, Take, TypeOK, Outcomes
<1>8. CASE AskAllCollects
  <2>1. Head(rx) \in Frames /\ Tail(rx) \in Seq(Frames)
        /\ \A g \in seen : g.ecu # Head(rx).ecu
    BY <1>0, <1>8, ReadBuffer DEF AskAllCollects, Reading, IsNew
  <2>2. Head(rx) \in Replies
    BY <1>8, <2>1, AReply DEF AskAllCollects, IsNew
  <2> QED BY <1>0, <1>8, <2>1, <2>2 DEF AskAllCollects, Take, TypeOK
<1>9. CASE ReadRaises
  BY <1>0, <1>9 DEF ReadRaises, Raise, TypeOK, Outcomes
<1>10. CASE Expire
  BY <1>0, <1>10 DEF Expire, Raise, TypeOK, Outcomes
<1>11. CASE Disconnect
  BY <1>0, <1>11 DEF Disconnect, TypeOK
<1>12. ASSUME NEW o \in owes, Answer(o) \/ Foretell(o) PROVE TypeOK'
  BY <1>0, <1>12, BusStep DEF TypeOK
<1>13. CASE Tick
  <2>1. quiet' \in 0 .. Coalesce
    BY <1>0, <1>13 DEF Tick, Expired, TypeOK, Underway, Verbs
  <2> QED BY <1>0, <1>13, <2>1 DEF Tick, Expired, TypeOK, Underway
<1>14. CASE Pause
  BY <1>0, <1>14 DEF Pause, TypeOK
<1>15. CASE UNCHANGED vars
  BY <1>0, <1>15 DEF vars, TypeOK
<1> QED BY <1>1, <1>2, <1>3, <1>4, <1>5, <1>6, <1>7, <1>8, <1>9, <1>10, <1>11, <1>12,
           <1>13, <1>14, <1>15 DEF Next, Exchange, Caller, Bus

\* An exchange under way has not ended.
LEMMA UnderwayStep == Sound /\ [Next]_vars => Underway'
<1> SUFFICES ASSUME Sound, [Next]_vars PROVE Underway'
  OBVIOUS
<1> USE ChannelAssumption DEF exchange, clearing, history
<1>0. TypeOK /\ Underway
  BY DEF Sound
<1>1. ASSUME NEW v \in Verbs, NEW r \in Requests, Begin(v, r) PROVE Underway'
  BY <1>0, <1>1 DEF Begin, Underway, TypeOK
<1>2. ASSUME NEW v \in Verbs, NEW r \in Requests, BeginDisconnected(v, r) PROVE Underway'
  BY <1>0, <1>2 DEF BeginDisconnected, Underway, TypeOK
<1>3. CASE ClearRx
  BY <1>0, <1>3 DEF ClearRx, Underway, TypeOK
<1>4. CASE Write
  BY <1>0, <1>4 DEF Write, Underway, TypeOK
<1>5. CASE WriteRaises
  BY <1>0, <1>5 DEF WriteRaises, Raise, Underway, TypeOK
<1>6. CASE ReadDiscards
  BY <1>0, <1>6 DEF ReadDiscards, Reading, Take, Underway, TypeOK
<1>7. CASE AskReturns
  BY <1>0, <1>7 DEF AskReturns, Reading, Take, Underway, TypeOK
<1>8. CASE AskAllCollects
  BY <1>0, <1>8 DEF AskAllCollects, Reading, Take, Underway, TypeOK
<1>9. CASE ReadRaises
  BY <1>0, <1>9 DEF ReadRaises, Raise, Underway, TypeOK
<1>10. CASE Expire
  BY <1>0, <1>10 DEF Expire, Raise, Underway, TypeOK
<1>11. CASE Disconnect
  BY <1>0, <1>11 DEF Disconnect, Underway, TypeOK
<1>12. ASSUME NEW o \in owes, Answer(o) \/ Foretell(o) PROVE Underway'
  <2>1. pc \in {"clear", "write"} => \A e \in ECUs : answered'[e] = answered[e]
    BY <1>0, <1>12, BusStep DEF Sound, Numbered, TypeOK, Answers
  <2>2. answered \in [ECUs -> 0 .. Deadline] /\ answered' \in [ECUs -> 0 .. Deadline]
    BY <1>0, <1>12, BusStep DEF TypeOK
  <2>3. pc \in {"clear", "write"} => answered' = answered
    BY <2>1, <2>2
  <2> QED BY <1>0, <1>12, <2>3, BusStep DEF Underway, NotYet
<1>13. CASE Tick
  BY <1>0, <1>13 DEF Tick, Underway, TypeOK
<1>14. CASE Pause
  BY <1>0, <1>14 DEF Pause, Underway, TypeOK
<1>15. CASE UNCHANGED vars
  BY <1>0, <1>15 DEF vars, Underway, TypeOK
<1> QED BY <1>1, <1>2, <1>3, <1>4, <1>5, <1>6, <1>7, <1>8, <1>9, <1>10, <1>11, <1>12,
       <1>13, <1>14, <1>15
       DEF Next, Exchange, Caller, Bus

\* Where frames and answers come from.
LEMMA NumberedStep == Sound /\ [Next]_vars => Numbered'
<1> SUFFICES ASSUME Sound, [Next]_vars PROVE Numbered'
  OBVIOUS
<1> USE ChannelAssumption DEF exchange, clearing, history
<1>0. TypeOK /\ Underway /\ Numbered
  BY DEF Sound
<1>1. ASSUME NEW v \in Verbs, NEW r \in Requests, Begin(v, r) PROVE Numbered'
  BY <1>0, <1>1 DEF Begin, Numbered, Clean, rx_clear_unsupported, TypeOK, Underway,
       Answers
<1>2. ASSUME NEW v \in Verbs, NEW r \in Requests, BeginDisconnected(v, r) PROVE Numbered'
  BY <1>0, <1>2 DEF BeginDisconnected, Numbered, Clean, rx_clear_unsupported, TypeOK,
       Underway, Answers
<1>3. CASE ClearRx
  <2>1. pc = "clear" /\ pc' = "write" /\ UNCHANGED <<owes, req, n, seen>>
    BY <1>3, Zenon DEF ClearRx
  <2>2. PICK works \in ClearResults :
          /\ \/ SkipsClear /\ UNCHANGED <<clearing, rx>>
             \/ ~SkipsClear /\ works /\ rx' = <<>> /\ tried' = TRUE /\ UNCHANGED ok
             \/ ~SkipsClear /\ ~works /\ ok' = (tried /\ ok) /\ tried' = TRUE
                /\ UNCHANGED rx
          /\ clearable' = (works /\ owes = {})
    BY <1>3, Zenon DEF ClearRx
  <2>3. Clean' => rx' = <<>> /\ owes = {}
    <3>1. CASE SkipsClear
      <4>1. tried' = tried /\ ok' = ok
        BY <2>2, <3>1
      <4> QED BY <3>1, <4>1, Zenon DEF SkipsClear, rx_clear_unsupported, Clean
    <3>2. CASE ~SkipsClear
      BY <2>2, <3>2, Zenon DEF Clean
    <3> QED BY <3>1, <3>2
  <2>4. seen = {}
    BY <1>0, <2>1 DEF Underway
  <2> HIDE DEF Clean
  <2> QED BY <1>0, <2>1, <2>3, <2>4 DEF Numbered, Underway
<1>4. CASE Write
  BY <1>0, <1>4, SentAnswers DEF Write, Numbered, Clean, rx_clear_unsupported, TypeOK,
       Underway, Answers
<1>5. CASE WriteRaises
  BY <1>0, <1>5, SentAnswers DEF WriteRaises, Raise, Numbered, Clean,
       rx_clear_unsupported, TypeOK, Underway, Answers
<1>6. CASE ReadDiscards
  BY <1>0, <1>6, ReadBuffer DEF ReadDiscards, Reading, Take, Numbered, Clean,
       rx_clear_unsupported, TypeOK, Underway, Answers
<1>7. CASE AskReturns
  BY <1>0, <1>7, ReadBuffer DEF AskReturns, Reading, Take, Numbered, Clean,
       rx_clear_unsupported, TypeOK, Underway, Answers
<1>8. CASE AskAllCollects
  <2>1. pc = "read" /\ Head(rx) = rx[1] /\ 1 \in 1 .. Len(rx) /\ rx[1].kind # "noise"
    BY <1>0, <1>8, ReadBuffer DEF AskAllCollects, Reading, IsNew
  <2>2. /\ Clean' = Clean /\ UNCHANGED <<pc, req, n, owes>>
        /\ rx' = Tail(rx) /\ seen' = seen \union {rx[1]}
    BY <1>8, <2>1 DEF AskAllCollects, Take, Clean, rx_clear_unsupported
  <2>3. \A i \in 1 .. Len(rx') : i + 1 \in 1 .. Len(rx) /\ rx'[i] = rx[i + 1]
    BY <1>0, <1>8, <2>2, ReadBuffer DEF AskAllCollects, Reading, TypeOK
  <2> HIDE DEF Clean
  <2> QED BY <1>0, <2>1, <2>2, <2>3 DEF Numbered
<1>9. CASE ReadRaises
  BY <1>0, <1>9 DEF ReadRaises, Raise, Numbered, Clean, rx_clear_unsupported, TypeOK,
       Underway, Answers
<1>10. CASE Expire
  BY <1>0, <1>10 DEF Expire, Raise, Numbered, Clean, rx_clear_unsupported, TypeOK,
       Underway, Answers
<1>11. CASE Disconnect
  BY <1>0, <1>11 DEF Disconnect, Numbered, Clean, rx_clear_unsupported, TypeOK,
       Underway,
       Answers
<1>12. ASSUME NEW o \in owes, Answer(o) \/ Foretell(o) PROVE Numbered'
  <2>1. Clean' = Clean /\ UNCHANGED <<pc, req, n, seen>> /\ owes' \subseteq owes
    BY <1>0, <1>12, BusStep DEF Clean, rx_clear_unsupported
  <2>2. \A i \in 1 .. Len(rx') : rx'[i].kind # "noise" =>
          rx'[i].n = o.n \/ (i \in 1 .. Len(rx) /\ rx'[i] = rx[i])
    BY <1>0, <1>12, BusStep DEF TypeOK
  <2> QED BY <1>0, <2>1, <2>2 DEF Numbered
<1>13. CASE Tick
  BY <1>0, <1>13 DEF Tick, Numbered, Clean, rx_clear_unsupported, TypeOK, Underway,
       Answers
<1>14. CASE Pause
  BY <1>0, <1>14 DEF Pause, Numbered, Clean, rx_clear_unsupported, TypeOK, Underway,
       Answers
<1>15. CASE UNCHANGED vars
  BY <1>0, <1>15 DEF vars, Numbered, Clean, rx_clear_unsupported, TypeOK, Underway,
       Answers
<1> QED BY <1>1, <1>2, <1>3, <1>4, <1>5, <1>6, <1>7, <1>8, <1>9, <1>10, <1>11, <1>12,
       <1>13, <1>14, <1>15
       DEF Next, Exchange, Caller, Bus

\* What ask hears.
LEMMA AskHearsStep == Sound /\ [Next]_vars => AskHears'
<1> SUFFICES ASSUME Sound, [Next]_vars PROVE AskHears'
  OBVIOUS
<1> USE ChannelAssumption DEF exchange, clearing, history
<1>0. TypeOK /\ Underway /\ Numbered /\ AskHears
  BY DEF Sound
<1>1. ASSUME NEW v \in Verbs, NEW r \in Requests, Begin(v, r) PROVE AskHears'
  BY <1>0, <1>1 DEF Begin, AskHears, Matches, TypeOK, Underway, NotYet
<1>2. ASSUME NEW v \in Verbs, NEW r \in Requests, BeginDisconnected(v, r) PROVE AskHears'
  BY <1>0, <1>2 DEF BeginDisconnected, AskHears, Matches, TypeOK, Underway, NotYet
<1>3. CASE ClearRx
  BY <1>0, <1>3 DEF ClearRx, AskHears, Matches, TypeOK, Underway, NotYet
<1>4. CASE Write
  BY <1>0, <1>4 DEF Write, AskHears, Matches, TypeOK, Underway, NotYet
<1>5. CASE WriteRaises
  BY <1>0, <1>5 DEF WriteRaises, Raise, AskHears, Matches, TypeOK, Underway, NotYet
<1>6. CASE ReadDiscards
  <2>1. ASSUME verb = "ask", NEW e \in ECUs, answered[e] < Deadline
        PROVE  /\ answered[e] + behind' >= elapsed
               /\ \E i \in 1 .. Len(rx') : Matches(rx'[i])
    <3>1. answered[e] + behind >= elapsed /\ \E i \in 1 .. Len(rx) : Matches(rx[i])
      BY <1>0, <1>6, <2>1 DEF ReadDiscards, Reading, Take, AskHears
    <3>2. PICK i \in 1 .. Len(rx) : Matches(rx[i])
      BY <3>1
    <3>3. i # 1
      BY <1>0, <1>6, <2>1, <3>2, ReadBuffer DEF ReadDiscards, Reading
    <3>4. i - 1 \in 1 .. Len(rx') /\ rx'[i - 1] = rx[i]
      BY <1>0, <1>6, <3>2, <3>3, ReadBuffer DEF ReadDiscards, Reading, Take, TypeOK
    <3>5. behind' = behind
      BY <1>6, <3>4 DEF ReadDiscards, Take
    <3> QED BY <3>1, <3>2, <3>4, <3>5
  <2>2. pc = "read" /\ UNCHANGED <<pc, verb, req, elapsed, answered>>
    BY <1>6 DEF ReadDiscards, Reading
  <2> QED BY <2>1, <2>2 DEF AskHears, Matches
<1>7. CASE AskReturns
  BY <1>0, <1>7 DEF AskReturns, Reading, Take, AskHears, Matches, TypeOK, Underway,
       NotYet
<1>8. CASE AskAllCollects
  BY <1>0, <1>8 DEF AskAllCollects, Reading, Take, AskHears, Matches, TypeOK, Underway,
       NotYet
<1>9. CASE ReadRaises
  BY <1>0, <1>9 DEF ReadRaises, Raise, AskHears, Matches, TypeOK, Underway, NotYet
<1>10. CASE Expire
  BY <1>0, <1>10 DEF Expire, Raise, Expired, AskHears, TypeOK, Underway
<1>11. CASE Disconnect
  BY <1>0, <1>11 DEF Disconnect, AskHears, Matches, TypeOK, Underway, NotYet
<1>12. ASSUME NEW o \in owes, Answer(o) \/ Foretell(o) PROVE AskHears'
  <2>1. ASSUME pc = "read", verb = "ask", NEW e \in ECUs, answered'[e] < Deadline
        PROVE  /\ answered'[e] + behind >= elapsed
               /\ \E i \in 1 .. Len(rx') : Matches(rx'[i])
    <3>1. CASE answered'[e] = answered[e]
      <4>1. answered[e] + behind >= elapsed /\ \E i \in 1 .. Len(rx) : Matches(rx[i])
        BY <1>0, <2>1, <3>1 DEF AskHears
      <4> QED BY <1>0, <1>12, <3>1, <4>1, BusStep
    <3>2. CASE answered'[e] # answered[e]
      <4>1. answered'[e] = elapsed /\ o.n = n /\ rx'[Len(rx')].kind # "noise"
        BY <1>0, <1>12, <3>2, BusStep
      <4>2. o.req = req
        BY <1>0, <4>1 DEF Numbered
      <4>3. Len(rx') \in 1 .. Len(rx') /\ Matches(rx'[Len(rx')])
        BY <1>0, <1>12, <4>1, <4>2, BusStep DEF Matches
      <4> QED BY <1>0, <4>1, <4>3 DEF TypeOK
    <3> QED BY <3>1, <3>2
  <2>2. UNCHANGED <<pc, verb, req, elapsed, behind>>
    BY <1>0, <1>12, BusStep
  <2> QED BY <2>1, <2>2 DEF AskHears, Matches
<1>13. CASE Tick
  BY <1>0, <1>13 DEF Tick, AskHears, Matches, TypeOK, Underway, NotYet
<1>14. CASE Pause
  BY <1>0, <1>14 DEF Pause, AskHears, Matches, TypeOK, Underway, NotYet
<1>15. CASE UNCHANGED vars
  BY <1>0, <1>15 DEF vars, AskHears, Matches, TypeOK, Underway, NotYet
<1> QED BY <1>1, <1>2, <1>3, <1>4, <1>5, <1>6, <1>7, <1>8, <1>9, <1>10, <1>11, <1>12,
       <1>13, <1>14, <1>15
       DEF Next, Exchange, Caller, Bus

\* What ask_all hears.
LEMMA AskAllHearsStep == Sound /\ [Next]_vars => AskAllHears'
<1> SUFFICES ASSUME Sound, [Next]_vars PROVE AskAllHears'
  OBVIOUS
<1> USE ChannelAssumption DEF exchange, clearing, history
<1>0. TypeOK /\ Underway /\ Numbered /\ AskAllHears
  BY DEF Sound
<1>1. ASSUME NEW v \in Verbs, NEW r \in Requests, Begin(v, r) PROVE AskAllHears'
  BY <1>0, <1>1 DEF Begin, AskAllHears, Listed, ListReturned, TypeOK, Underway, NotYet
<1>2. ASSUME NEW v \in Verbs, NEW r \in Requests, BeginDisconnected(v,
       r) PROVE AskAllHears'
  BY <1>0, <1>2 DEF BeginDisconnected, AskAllHears, Listed, ListReturned, TypeOK,
       Underway, NotYet
<1>3. CASE ClearRx
  BY <1>0, <1>3 DEF ClearRx, AskAllHears, Listed, ListReturned, TypeOK, Underway, NotYet
<1>4. CASE Write
  BY <1>0, <1>4 DEF Write, AskAllHears, Listed, ListReturned, TypeOK, Underway, NotYet
<1>5. CASE WriteRaises
  BY <1>0, <1>5 DEF WriteRaises, Raise, AskAllHears, Listed, ListReturned, TypeOK,
       Underway, NotYet
<1>6. CASE ReadDiscards
  <2>1. ASSUME verb = "ask_all", NEW e \in ECUs, answered[e] < Deadline, e \notin Listed
        PROVE  /\ answered[e] + behind' >= elapsed
               /\ \E i \in 1 .. Len(rx') : rx'[i].kind # "noise" /\ rx'[i].ecu = e
    <3>1. answered[e] + behind >= elapsed
          /\ \E i \in 1 .. Len(rx) : rx[i].kind # "noise" /\ rx[i].ecu = e
      BY <1>0, <1>6, <2>1 DEF ReadDiscards, Reading, Take, AskAllHears
    <3>2. PICK i \in 1 .. Len(rx) : rx[i].kind # "noise" /\ rx[i].ecu = e
      BY <3>1
    <3>3. i # 1
      BY <1>0, <1>6, <2>1, <3>2, ReadBuffer DEF ReadDiscards, Reading, Take, IsNew,
           Listed
    <3>4. i - 1 \in 1 .. Len(rx') /\ rx'[i - 1] = rx[i]
      BY <1>0, <1>6, <3>2, <3>3, ReadBuffer DEF ReadDiscards, Reading, Take, TypeOK
    <3>5. behind' = behind
      BY <1>6, <3>4 DEF ReadDiscards, Take
    <3> QED BY <3>1, <3>2, <3>4, <3>5
  <2>2. pc = "read" /\ UNCHANGED <<pc, verb, outcome, quiet, elapsed, answered>>
        /\ Listed' = Listed
    BY <1>6 DEF ReadDiscards, Reading, Take, Listed
  <2> QED BY <1>0, <2>1, <2>2 DEF AskAllHears, ListReturned
<1>7. CASE AskReturns
  BY <1>0, <1>7 DEF AskReturns, Reading, Take, AskAllHears, Listed, ListReturned,
       TypeOK,
       Underway, NotYet
<1>8. CASE AskAllCollects
  <2>1. Listed' = Listed \union {Head(rx).ecu}
    BY <1>8 DEF AskAllCollects, Listed
  <2>2. ASSUME NEW e \in ECUs, answered[e] < Deadline, e \notin Listed'
        PROVE  /\ answered[e] + behind' >= elapsed
               /\ \E i \in 1 .. Len(rx') : rx'[i].kind # "noise" /\ rx'[i].ecu = e
    <3>1. answered[e] + behind >= elapsed
          /\ \E i \in 1 .. Len(rx) : rx[i].kind # "noise" /\ rx[i].ecu = e
      BY <1>0, <1>8, <2>1, <2>2 DEF AskAllCollects, Reading, Take, AskAllHears
    <3>2. PICK i \in 1 .. Len(rx) : rx[i].kind # "noise" /\ rx[i].ecu = e
      BY <3>1
    <3>3. i # 1
      BY <1>0, <1>8, <2>1, <2>2, <3>2, ReadBuffer DEF AskAllCollects, Reading
    <3>4. i - 1 \in 1 .. Len(rx') /\ rx'[i - 1] = rx[i]
      BY <1>0, <1>8, <3>2, <3>3, ReadBuffer DEF AskAllCollects, Reading, Take, TypeOK
    <3>5. behind' = behind
      BY <1>8, <3>4 DEF AskAllCollects, Take
    <3> QED BY <3>1, <3>2, <3>4, <3>5
  <2>3. /\ pc = "read" /\ verb = "ask_all" /\ quiet' = 0
        /\ UNCHANGED <<pc, verb, outcome, elapsed, answered>>
    BY <1>8 DEF AskAllCollects, Reading
  <2> QED BY <1>0, <2>1, <2>2, <2>3 DEF AskAllHears, ListReturned, TypeOK, Underway
<1>9. CASE ReadRaises
  BY <1>0, <1>9 DEF ReadRaises, Raise, AskAllHears, Listed, ListReturned, TypeOK,
       Underway, NotYet
<1>10. CASE Expire
  <2>1. verb = "ask_all" => elapsed > P2Max
    BY <1>0, <1>10 DEF Expire, Expired, AskAllHears, TypeOK
  <2> QED BY <1>10, <2>1 DEF Expire, Raise, AskAllHears, ListReturned
<1>11. CASE Disconnect
  BY <1>0, <1>11 DEF Disconnect, AskAllHears, Listed, ListReturned, TypeOK, Underway,
       NotYet
<1>12. ASSUME NEW o \in owes, Answer(o) \/ Foretell(o) PROVE AskAllHears'
  <2>1. UNCHANGED <<pc, verb, outcome, quiet, elapsed, behind>> /\ Listed' = Listed
        /\ ListReturned' = ListReturned
    BY <1>0, <1>12, BusStep DEF Listed, ListReturned
  <2>2. ASSUME pc = "read", verb = "ask_all", NEW e \in ECUs, answered'[e] < Deadline,
               e \notin Listed
        PROVE  /\ answered'[e] + behind >= elapsed
               /\ \E i \in 1 .. Len(rx') : rx'[i].kind # "noise" /\ rx'[i].ecu = e
    <3>1. CASE answered'[e] = answered[e]
      <4>1. answered[e] + behind >= elapsed
            /\ \E i \in 1 .. Len(rx) : rx[i].kind # "noise" /\ rx[i].ecu = e
        BY <1>0, <2>2, <3>1 DEF AskAllHears
      <4> QED BY <1>0, <1>12, <3>1, <4>1, BusStep
    <3>2. CASE answered'[e] # answered[e]
      <4>1. /\ answered'[e] = elapsed /\ e = o.ecu
            /\ rx'[Len(rx')].kind # "noise" /\ rx'[Len(rx')].ecu = o.ecu
            /\ Len(rx') \in 1 .. Len(rx')
        BY <1>0, <1>12, <3>2, BusStep
      <4> QED BY <1>0, <4>1 DEF TypeOK
    <3> QED BY <3>1, <3>2
  <2> HIDE DEF Listed, ListReturned
  <2> QED BY <1>0, <2>1, <2>2 DEF AskAllHears
<1>13. CASE Tick
  BY <1>0, <1>13 DEF Tick, AskAllHears, Listed, ListReturned, TypeOK, Underway, NotYet
<1>14. CASE Pause
  BY <1>0, <1>14 DEF Pause, AskAllHears, Listed, ListReturned, TypeOK, Underway, NotYet
<1>15. CASE UNCHANGED vars
  BY <1>0, <1>15 DEF vars, AskAllHears, Listed, ListReturned, TypeOK, Underway, NotYet
<1> QED BY <1>1, <1>2, <1>3, <1>4, <1>5, <1>6, <1>7, <1>8, <1>9, <1>10, <1>11, <1>12,
       <1>13, <1>14, <1>15
       DEF Next, Exchange, Caller, Bus

\* An exchange that timed out keeps no clock.
LEMMA ExhaustedStep == Sound /\ [Next]_vars => Exhausted'
<1> SUFFICES ASSUME Sound, [Next]_vars PROVE Exhausted'
  OBVIOUS
<1> USE ChannelAssumption DEF exchange, clearing, history
<1>0. TypeOK /\ Underway /\ Exhausted
  BY DEF Sound
<1>1. ASSUME NEW v \in Verbs, NEW r \in Requests, Begin(v, r) \/ BeginDisconnected(v, r)
      PROVE  Exhausted'
  BY <1>1 DEF Begin, BeginDisconnected, Exhausted
<1>2. CASE ClearRx \/ Write
  BY <1>0, <1>2 DEF ClearRx, Write, Exhausted, Underway
<1>3. CASE WriteRaises \/ ReadRaises \/ Expire
  BY <1>0, <1>3 DEF WriteRaises, ReadRaises, Expire, Raise, Exhausted
<1>4. CASE ReadDiscards \/ AskReturns \/ AskAllCollects
  BY <1>0, <1>4 DEF ReadDiscards, AskReturns, AskAllCollects, Reading, Exhausted,
       Underway
<1>5. CASE Disconnect \/ Pause
  BY <1>0, <1>5 DEF Disconnect, Pause, Exhausted
<1>6. ASSUME NEW o \in owes, Answer(o) \/ Foretell(o) PROVE Exhausted'
  BY <1>0, <1>6, BusStep DEF Exhausted
<1>7. CASE Tick
  BY <1>0, <1>7 DEF Tick, Exhausted, Underway
<1>8. CASE UNCHANGED vars
  BY <1>0, <1>8 DEF vars, Exhausted
<1> QED BY <1>1, <1>2, <1>3, <1>4, <1>5, <1>6, <1>7, <1>8 DEF Next, Exchange, Caller,
     Bus

\* What ask returns.
LEMMA BackstopStep == Sound /\ [Next]_vars => Backstop'
<1> SUFFICES ASSUME Sound, [Next]_vars PROVE Backstop'
  OBVIOUS
<1> USE ChannelAssumption DEF exchange, clearing, history
<1>0. TypeOK /\ Underway /\ Backstop
  BY DEF Sound
<1>1. ASSUME NEW v \in Verbs, NEW r \in Requests, Begin(v, r) PROVE Backstop'
  BY <1>0, <1>1 DEF Begin, Backstop, AskReplied, Matches, Underway
<1>2. ASSUME NEW v \in Verbs, NEW r \in Requests, BeginDisconnected(v, r) PROVE Backstop'
  BY <1>0, <1>2 DEF BeginDisconnected, Backstop, AskReplied, Matches, Underway
<1>3. CASE ClearRx
  BY <1>0, <1>3 DEF ClearRx, Backstop, AskReplied, Matches, Underway
<1>4. CASE Write
  BY <1>0, <1>4 DEF Write, Backstop, AskReplied, Matches, Underway
<1>5. CASE WriteRaises
  BY <1>0, <1>5 DEF WriteRaises, Raise, Backstop, AskReplied, Matches, Underway
<1>6. CASE ReadDiscards
  BY <1>0, <1>6 DEF ReadDiscards, Reading, Take, Backstop, AskReplied, Matches, Underway
<1>7. CASE AskReturns
  BY <1>0, <1>7 DEF AskReturns, Reading, Take, Backstop, AskReplied, Matches, Underway
<1>8. CASE AskAllCollects
  BY <1>0, <1>8 DEF AskAllCollects, Reading, Take, Backstop, AskReplied, Matches,
       Underway
<1>9. CASE ReadRaises
  BY <1>0, <1>9 DEF ReadRaises, Raise, Backstop, AskReplied, Matches, Underway
<1>10. CASE Expire
  BY <1>0, <1>10 DEF Expire, Raise, Backstop, AskReplied, Matches, Underway
<1>11. CASE Disconnect
  BY <1>0, <1>11 DEF Disconnect, Backstop, AskReplied, Matches, Underway
<1>12. ASSUME NEW o \in owes, Answer(o) \/ Foretell(o) PROVE Backstop'
  BY <1>0, <1>12, BusStep DEF Backstop, AskReplied
<1>13. CASE Tick
  BY <1>0, <1>13 DEF Tick, Backstop, AskReplied, Matches, Underway
<1>14. CASE Pause
  BY <1>0, <1>14 DEF Pause, Backstop, AskReplied, Matches, Underway
<1>15. CASE UNCHANGED vars
  BY <1>0, <1>15 DEF vars, Backstop, AskReplied, Matches, Underway
<1> QED BY <1>1, <1>2, <1>3, <1>4, <1>5, <1>6, <1>7, <1>8, <1>9, <1>10, <1>11, <1>12,
       <1>13, <1>14, <1>15
       DEF Next, Exchange, Caller, Bus

\* What a clean exchange hears.
LEMMA FreshStep == Sound /\ [Next]_vars => FreshIfClearable'
<1> SUFFICES ASSUME Sound, [Next]_vars PROVE FreshIfClearable'
  OBVIOUS
<1> USE ChannelAssumption DEF exchange, clearing, history
<1>0. TypeOK /\ Underway /\ Numbered /\ FreshIfClearable
  BY DEF Sound
<1>1. ASSUME NEW v \in Verbs, NEW r \in Requests, Begin(v, r) PROVE FreshIfClearable'
  BY <1>0, <1>1 DEF Begin, FreshIfClearable, Numbered, Clean, Underway,
       rx_clear_unsupported, TypeOK
<1>2. ASSUME NEW v \in Verbs, NEW r \in Requests, BeginDisconnected(v,
       r) PROVE FreshIfClearable'
  BY <1>0, <1>2 DEF BeginDisconnected, FreshIfClearable, Numbered, Clean, Underway,
       rx_clear_unsupported, TypeOK
<1>3. CASE ClearRx
  BY <1>0, <1>3 DEF ClearRx, FreshIfClearable, Numbered, Clean, Underway,
       rx_clear_unsupported, TypeOK
<1>4. CASE Write
  BY <1>0, <1>4 DEF Write, FreshIfClearable, Numbered, Clean, Underway,
       rx_clear_unsupported, TypeOK
<1>5. CASE WriteRaises
  BY <1>0, <1>5 DEF WriteRaises, Raise, FreshIfClearable, Numbered, Clean, Underway,
       rx_clear_unsupported, TypeOK
<1>6. CASE ReadDiscards
  BY <1>0, <1>6 DEF ReadDiscards, Reading, Take, FreshIfClearable, Numbered, Clean,
       Underway,
       rx_clear_unsupported, TypeOK
<1>7. CASE AskReturns
  <2>1. Head(rx) = rx[1] /\ 1 \in 1 .. Len(rx) /\ rx[1].kind # "noise"
    BY <1>0, <1>7, ReadBuffer DEF AskReturns, Reading, Matches
  <2>2. pc = "read" /\ seen' = {rx[1]} /\ UNCHANGED <<clearable, tried, ok, n>>
    BY <1>7, <2>1 DEF AskReturns, Reading
  <2> QED BY <1>0, <2>1, <2>2 DEF FreshIfClearable, Numbered, Clean,
       rx_clear_unsupported
<1>8. CASE AskAllCollects
  BY <1>0, <1>8 DEF AskAllCollects, Reading, Take, FreshIfClearable, Numbered, Clean,
       Underway,
       rx_clear_unsupported, TypeOK
<1>9. CASE ReadRaises
  BY <1>0, <1>9 DEF ReadRaises, Raise, FreshIfClearable, Numbered, Clean, Underway,
       rx_clear_unsupported, TypeOK
<1>10. CASE Expire
  BY <1>0, <1>10 DEF Expire, Raise, FreshIfClearable, Numbered, Clean, Underway,
       rx_clear_unsupported, TypeOK
<1>11. CASE Disconnect
  BY <1>0, <1>11 DEF Disconnect, FreshIfClearable, Numbered, Clean, Underway,
       rx_clear_unsupported, TypeOK
<1>12. ASSUME NEW o \in owes, Answer(o) \/ Foretell(o) PROVE FreshIfClearable'
  BY <1>0, <1>12, BusStep DEF FreshIfClearable, rx_clear_unsupported
<1>13. CASE Tick
  BY <1>0, <1>13 DEF Tick, FreshIfClearable, Numbered, Clean, Underway,
       rx_clear_unsupported, TypeOK
<1>14. CASE Pause
  BY <1>0, <1>14 DEF Pause, FreshIfClearable, Numbered, Clean, Underway,
       rx_clear_unsupported, TypeOK
<1>15. CASE UNCHANGED vars
  BY <1>0, <1>15 DEF vars, FreshIfClearable, Numbered, Clean, Underway,
       rx_clear_unsupported, TypeOK
<1> QED BY <1>1, <1>2, <1>3, <1>4, <1>5, <1>6, <1>7, <1>8, <1>9, <1>10, <1>11, <1>12,
       <1>13, <1>14, <1>15
       DEF Next, Exchange, Caller, Bus

\* Whom ask_all hears.
LEMMA PromptStep == Sound /\ [Next]_vars => PromptHeard'
<1> SUFFICES ASSUME Sound, [Next]_vars PROVE PromptHeard'
  OBVIOUS
<1> USE ChannelAssumption DEF exchange, clearing, history
<1>0. TypeOK /\ Underway /\ AskAllHears /\ PromptHeard
  BY DEF Sound
<1>1. ASSUME NEW v \in Verbs, NEW r \in Requests, Begin(v, r) PROVE PromptHeard'
  BY <1>0, <1>1 DEF Begin, PromptHeard, AskAllHears, ListReturned, Listed, Underway,
       TypeOK, Verbs
<1>2. ASSUME NEW v \in Verbs, NEW r \in Requests, BeginDisconnected(v,
       r) PROVE PromptHeard'
  BY <1>0, <1>2 DEF BeginDisconnected, PromptHeard, AskAllHears, ListReturned, Listed,
       Underway, TypeOK, Verbs
<1>3. CASE ClearRx
  BY <1>0, <1>3 DEF ClearRx, PromptHeard, AskAllHears, ListReturned, Listed, Underway,
       TypeOK, Verbs
<1>4. CASE Write
  BY <1>0, <1>4 DEF Write, PromptHeard, AskAllHears, ListReturned, Listed, Underway,
       TypeOK, Verbs
<1>5. CASE WriteRaises
  BY <1>0, <1>5 DEF WriteRaises, Raise, PromptHeard, AskAllHears, ListReturned, Listed,
       Underway, TypeOK, Verbs
<1>6. CASE ReadDiscards
  BY <1>0, <1>6 DEF ReadDiscards, Reading, Take, PromptHeard, AskAllHears, ListReturned,
       Listed, Underway, TypeOK, Verbs
<1>7. CASE AskReturns
  BY <1>0, <1>7 DEF AskReturns, Reading, Take, PromptHeard, AskAllHears, ListReturned,
       Listed,
       Underway, TypeOK, Verbs
<1>8. CASE AskAllCollects
  BY <1>0, <1>8 DEF AskAllCollects, Reading, Take, PromptHeard, AskAllHears,
       ListReturned,
       Listed, Underway, TypeOK, Verbs
<1>9. CASE ReadRaises
  BY <1>0, <1>9 DEF ReadRaises, Raise, PromptHeard, AskAllHears, ListReturned, Listed,
       Underway, TypeOK, Verbs
<1>10. CASE Expire
  <2>1. CASE verb = "ask"
    BY <1>10, <2>1 DEF Expire, Raise, PromptHeard, ListReturned
  <2>2. CASE verb = "ask_all"
    <3>1. UNCHANGED <<verb, answered, behind>> /\ Listed' = Listed
      BY <1>10, <2>2 DEF Expire, Listed
    <3>2. ASSUME P2Max + behind < Coalesce, P2Max + behind < Deadline, NEW e \in ECUs,
                 answered[e] <= P2Max, e \notin Listed
          PROVE  FALSE
      <4>1. quiet <= elapsed /\ answered[e] + behind >= elapsed
        BY <1>0, <1>10, <2>2, <3>2 DEF Expire, AskAllHears, TypeOK
      <4>2. elapsed >= Deadline \/ quiet >= Coalesce
        BY <1>10 DEF Expire, Expired
      <4> QED BY <1>0, <3>2, <4>1, <4>2 DEF TypeOK
    <3> HIDE DEF Listed
    <3> QED BY <3>1, <3>2 DEF PromptHeard
  <2> QED BY <1>0, <2>1, <2>2 DEF TypeOK, Verbs
<1>11. CASE Disconnect
  BY <1>0, <1>11 DEF Disconnect, PromptHeard, AskAllHears, ListReturned, Listed,
       Underway, TypeOK, Verbs
<1>12. ASSUME NEW o \in owes, Answer(o) \/ Foretell(o) PROVE PromptHeard'
  <2>1. UNCHANGED <<verb, outcome, elapsed, behind>> /\ Listed' = Listed
        /\ ListReturned' = ListReturned
    BY <1>0, <1>12, BusStep DEF Listed, ListReturned
  <2>2. ASSUME ListReturned, NEW e \in ECUs, answered'[e] <= P2Max
        PROVE  answered'[e] = answered[e]
    BY <1>0, <1>12, <2>2, BusStep DEF AskAllHears, TypeOK
  <2> HIDE DEF Listed, ListReturned
  <2> QED BY <1>0, <2>1, <2>2 DEF PromptHeard
<1>13. CASE Tick
  BY <1>0, <1>13 DEF Tick, PromptHeard, AskAllHears, ListReturned, Listed, Underway,
       TypeOK, Verbs
<1>14. CASE Pause
  BY <1>0, <1>14 DEF Pause, PromptHeard, AskAllHears, ListReturned, Listed, Underway,
       TypeOK, Verbs
<1>15. CASE UNCHANGED vars
  BY <1>0, <1>15 DEF vars, PromptHeard, AskAllHears, ListReturned, Listed, Underway,
       TypeOK, Verbs
<1> QED BY <1>1, <1>2, <1>3, <1>4, <1>5, <1>6, <1>7, <1>8, <1>9, <1>10, <1>11, <1>12,
       <1>13, <1>14, <1>15
       DEF Next, Exchange, Caller, Bus

\* When ask gives up.
LEMMA SilenceStep == Sound /\ [Next]_vars => TimeoutMeansSilence'
<1> SUFFICES ASSUME Sound, [Next]_vars PROVE TimeoutMeansSilence'
  OBVIOUS
<1> USE ChannelAssumption DEF exchange, clearing, history
<1>0. TypeOK /\ Underway /\ AskHears /\ Exhausted /\ TimeoutMeansSilence
  BY DEF Sound
<1>1. ASSUME NEW v \in Verbs, NEW r \in Requests, Begin(v, r) PROVE TimeoutMeansSilence'
  BY <1>0, <1>1 DEF Begin, TimeoutMeansSilence, AskHears, Underway, TypeOK, Verbs
<1>2. ASSUME NEW v \in Verbs, NEW r \in Requests, BeginDisconnected(v,
       r) PROVE TimeoutMeansSilence'
  BY <1>0, <1>2 DEF BeginDisconnected, TimeoutMeansSilence, AskHears, Underway, TypeOK,
       Verbs
<1>3. CASE ClearRx
  BY <1>0, <1>3 DEF ClearRx, TimeoutMeansSilence, AskHears, Underway, TypeOK, Verbs
<1>4. CASE Write
  BY <1>0, <1>4 DEF Write, TimeoutMeansSilence, AskHears, Underway, TypeOK, Verbs
<1>5. CASE WriteRaises
  BY <1>0, <1>5 DEF WriteRaises, Raise, TimeoutMeansSilence, AskHears, Underway, TypeOK,
       Verbs
<1>6. CASE ReadDiscards
  BY <1>0, <1>6 DEF ReadDiscards, Reading, Take, TimeoutMeansSilence, AskHears,
       Underway,
       TypeOK, Verbs
<1>7. CASE AskReturns
  BY <1>0, <1>7 DEF AskReturns, Reading, Take, TimeoutMeansSilence, AskHears, Underway,
       TypeOK,
       Verbs
<1>8. CASE AskAllCollects
  BY <1>0, <1>8 DEF AskAllCollects, Reading, Take, TimeoutMeansSilence, AskHears,
       Underway,
       TypeOK, Verbs
<1>9. CASE ReadRaises
  BY <1>0, <1>9 DEF ReadRaises, Raise, TimeoutMeansSilence, AskHears, Underway, TypeOK,
       Verbs
<1>10. CASE Expire
  <2>1. verb = "ask" =>
          \A e \in ECUs : answered[e] < Deadline => answered[e] + behind >= Deadline
    BY <1>0, <1>10 DEF Expire, Expired, AskHears, TypeOK
  <2>2. UNCHANGED <<verb, answered, behind>>
    BY <1>10 DEF Expire
  <2> QED BY <2>1, <2>2 DEF TimeoutMeansSilence
<1>11. CASE Disconnect
  BY <1>0, <1>11 DEF Disconnect, TimeoutMeansSilence, AskHears, Underway, TypeOK, Verbs
<1>12. ASSUME NEW o \in owes, Answer(o) \/ Foretell(o) PROVE TimeoutMeansSilence'
  <2>1. ASSUME verb = "ask", outcome = "Timeout", NEW e \in ECUs
        PROVE  answered'[e] = answered[e]
    <3>1. elapsed = Deadline /\ answered[e] <= Deadline
      BY <1>0, <2>1 DEF Exhausted, TypeOK
    <3> QED BY <1>0, <1>12, <3>1, BusStep DEF TypeOK
  <2>2. UNCHANGED <<verb, outcome, behind>>
    BY <1>0, <1>12, BusStep
  <2> QED BY <1>0, <2>1, <2>2 DEF TimeoutMeansSilence
<1>13. CASE Tick
  BY <1>0, <1>13 DEF Tick, TimeoutMeansSilence, AskHears, Underway, TypeOK, Verbs
<1>14. CASE Pause
  BY <1>0, <1>14 DEF Pause, TimeoutMeansSilence, AskHears, Underway, TypeOK, Verbs
<1>15. CASE UNCHANGED vars
  BY <1>0, <1>15 DEF vars, TimeoutMeansSilence, AskHears, Underway, TypeOK, Verbs
<1> QED BY <1>1, <1>2, <1>3, <1>4, <1>5, <1>6, <1>7, <1>8, <1>9, <1>10, <1>11, <1>12,
       <1>13, <1>14, <1>15
       DEF Next, Exchange, Caller, Bus

-----------------------------------------------------------------------------
(* The theorems.                                                           *)

\* All of it holds in every reachable state.
THEOREM SoundInvariant == Spec => []Sound
<1>1. Sound /\ [Next]_vars => Sound'
  BY TypeStep, UnderwayStep, NumberedStep, AskHearsStep, AskAllHearsStep, ExhaustedStep,
     BackstopStep, FreshStep, PromptStep, SilenceStep DEF Sound
<1> QED BY SoundInit, <1>1, PTL DEF Spec

\* Types; no exchange outlasts its deadline, and no ECU is listed twice.
THEOREM ChannelTypes == Spec => []TypeOK
<1>1. Sound => TypeOK
  BY DEF Sound
<1> QED BY SoundInvariant, <1>1, PTL

\* A positive answer that ask returns was given to this very request, a negative
\* one to its service (j2534.py:851-880), whatever earlier exchanges left behind.
THEOREM BackstopHolds == Spec => []Backstop
<1>1. Sound => Backstop
  BY DEF Sound
<1> QED BY SoundInvariant, <1>1, PTL

\* Where the buffer can be cleared (j2534.py:794-809), and no ECU was still working
\* on an earlier request, an exchange hears of itself only.
THEOREM FreshIfClearableHolds == Spec => []FreshIfClearable
<1>1. Sound => FreshIfClearable
  BY DEF Sound
<1> QED BY SoundInvariant, <1>1, PTL

\* Leaving ask_all early by coalescing (j2534.py:909-914) loses no ECU that answers
\* within P2, for any window and any coalescing time that P2 and the ticks for which
\* the reader has been behind do not fill.
THEOREM PromptHeardHolds == Spec => []PromptHeard
<1>1. Sound => PromptHeard
  BY DEF Sound
<1> QED BY SoundInvariant, <1>1, PTL

\* ask raises Timeout (j2534.py:888) with an answer unread only if it has had frames
\* unread ever since that answer came; otherwise no ECU answered before the deadline.
THEOREM TimeoutMeansSilenceHolds == Spec => []TimeoutMeansSilence
<1>1. Sound => TimeoutMeansSilence
  BY DEF Sound
<1> QED BY SoundInvariant, <1>1, PTL

=============================================================================
