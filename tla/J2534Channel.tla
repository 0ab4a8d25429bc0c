----------------------------- MODULE J2534Channel -----------------------------
(***************************************************************************)
(* One exchange after the other on a live ISO15765 channel: ask, ask_all,  *)
(* the clearing of the receive buffer and the read loops                   *)
(* (transport/j2534.py, class J2534Channel), over a driver whose buffer    *)
(* keeps what arrives when nobody reads, and ECUs that answer when they    *)
(* like: promptly, late, with "response pending" first, or not at all.     *)
(*                                                                         *)
(* Time goes by in ticks of 50 ms, the J1979 limit for an answer, and it   *)
(* goes by with frames unread too: the loops look at the clock before each *)
(* single read.  A frame that is not a reply (a TX echo, a first-frame     *)
(* marker, one without a payload) is "noise"; a reply is known by its ECU, *)
(* by the request it answers and by the exchange it belongs to, which the  *)
(* code cannot see.  A "full" reply echoes service and parameter, a "bare" *)
(* one only the service: a negative response, or one of a single byte.     *)
(***************************************************************************)
EXTENDS Naturals, Sequences

CONSTANTS
  ECUs,          \* the ECUs on the bus
  Requests,      \* the requests asked: a service (sid) and a parameter (pid)
  Deadline,      \* timeout of ask, window of ask_all, in ticks
  Coalesce,      \* _COALESCE_MS, in ticks
  P2Max,         \* within it a compliant ECU has answered, in ticks
  ClearResults,  \* may CLEAR_RX_BUFFER succeed (TRUE), fail (FALSE)?
  MaxExchanges,  \* bound: exchanges on this channel
  MaxBuffer      \* bound: frames in the receive buffer

ASSUME ChannelAssumption ==
  /\ Requests \subseteq [sid : Nat, pid : Nat] /\ Requests # {}
  /\ Deadline \in Nat /\ Coalesce \in Nat /\ P2Max \in Nat
  /\ P2Max < Coalesce /\ P2Max < Deadline
  /\ ClearResults \subseteq BOOLEAN /\ ClearResults # {}
  /\ MaxExchanges \in Nat /\ MaxBuffer \in Nat \ {0}

VARIABLES
  pc,            \* "idle", or the driver call the exchange makes next
  verb,          \* the exchange under way, or the last one: ask or ask_all
  req,           \* its request
  n,             \* its number
  elapsed,       \* ticks since its request was written, saturated at Deadline
  quiet,         \* ticks since a new ECU replied, saturated at Coalesce
  seen,          \* the replies it has collected, or returned
  outcome,       \* how it ended: "replies", the "Timeout" of ask, or an error of
                 \* the driver "raised"; or "none"
  tried, ok,     \* _clear_rx_tried, _clear_rx_ok
  disconnected,  \* _disconnected
  rx,            \* driver: the receive buffer, oldest frame first
  owes,          \* world: answers that ECUs are still working on
  answered,      \* history: when each ECU answered the request, in ticks
  behind,        \* history: ticks for which the reader has had frames unread
  clearable      \* history: when this exchange came to clear the buffer, that
                 \* could be done, and no ECU was working on an earlier request

exchange == <<verb, req, n>>
clearing == <<tried, ok>>
history == <<answered, behind, clearable>>
vars == <<pc, exchange, elapsed, quiet, seen, outcome, clearing, disconnected, rx, owes,
          history>>

Verbs    == {"ask", "ask_all"}
Noise    == [kind |-> "noise"]
Replies  == [ecu : ECUs, kind : {"full", "bare"}, req : Requests, n : 1 .. MaxExchanges]
Frames   == Replies \union {Noise}
Answers  == [ecu : ECUs, req : Requests, n : 1 .. MaxExchanges]
Outcomes == {"none", "replies", "Timeout", "raised"}

\* The flag that probe() reads to put rx_clear_unsupported in the event log.
rx_clear_unsupported == tried /\ ~ok

NotYet == [e \in ECUs |-> Deadline]

-----------------------------------------------------------------------------
(* An exchange: clear, write, read.                                        *)

\* ask() or ask_all() is called.
Begin(v, r) ==
  /\ pc = "idle"
  /\ ~disconnected
  /\ n < MaxExchanges
  /\ verb' = v /\ req' = r /\ n' = n + 1
  /\ seen' = {} /\ outcome' = "none"
  /\ answered' = NotYet /\ behind' = 0 /\ clearable' = FALSE
  /\ elapsed' = Deadline /\ quiet' = 0
  /\ pc' = "clear"
  /\ UNCHANGED <<clearing, disconnected, rx, owes>>

\* The channel was disconnected: the call raises before it touches the driver.
BeginDisconnected(v, r) ==
  /\ pc = "idle"
  /\ disconnected
  /\ n < MaxExchanges
  /\ verb' = v /\ req' = r /\ n' = n + 1
  /\ seen' = {} /\ outcome' = "raised"
  /\ answered' = NotYet /\ behind' = 0 /\ clearable' = FALSE
  /\ UNCHANGED <<pc, elapsed, quiet, clearing, disconnected, rx, owes>>

\* Mutant of SkipsClear: one successful clear is taken to be enough.
SkipsClearOnceTried == tried

\* Known to be unsupported since the first attempt.
SkipsClear == tried /\ ~ok

\* _clear_rx; a failure after the first attempt leaves no trace.
ClearRx ==
  /\ pc = "clear"
  /\ \E works \in ClearResults :
       /\ \/ SkipsClear /\ UNCHANGED <<clearing, rx>>
          \/ ~SkipsClear /\ works /\ rx' = <<>> /\ tried' = TRUE /\ UNCHANGED ok
          \/ ~SkipsClear /\ ~works /\ ok' = (tried /\ ok) /\ tried' = TRUE /\ UNCHANGED rx
       /\ clearable' = (works /\ owes = {})
  /\ pc' = "write"
  /\ UNCHANGED <<exchange, elapsed, quiet, seen, outcome, disconnected, owes, answered,
                 behind>>

\* The request is out: the ECUs of some set start to work on it.
Sent ==
  \E S \in SUBSET ECUs :
    owes' = owes \union {[ecu |-> e, req |-> req, n |-> n] : e \in S}

Write ==
  /\ pc = "write"
  /\ Sent
  /\ elapsed' = 0 /\ quiet' = 0
  /\ pc' = "read"
  /\ UNCHANGED <<exchange, seen, outcome, clearing, disconnected, rx, history>>

\* The call ends with error e; its clock and what it has collected are lost.
Raise(e) ==
  /\ outcome' = e /\ seen' = {}
  /\ elapsed' = Deadline /\ quiet' = 0
  /\ pc' = "idle"

\* PassThruWriteMsgs fails; the request may have gone out all the same.
WriteRaises ==
  /\ pc = "write"
  /\ Raise("raised")
  /\ Sent
  /\ UNCHANGED <<exchange, clearing, disconnected, rx, history>>

-----------------------------------------------------------------------------
(* The read loops.                                                         *)

\* Mutant of Expired: ask_all waits one tick less for further ECUs.
ExpiredEarly ==
  \/ elapsed >= Deadline
  \/ verb = "ask_all" /\ seen # {} /\ quiet + 1 >= Coalesce

\* Mutant of Expired: ask_all ends by coalescing only.
ExpiredByQuiet ==
  \/ verb = "ask" /\ elapsed >= Deadline
  \/ verb = "ask_all" /\ seen # {} /\ quiet >= Coalesce

\* The loop condition of ask, and that of ask_all.
Expired ==
  \/ elapsed >= Deadline
  \/ verb = "ask_all" /\ seen # {} /\ quiet >= Coalesce

\* Mutant of Matches: the echoed PID is not compared.
MatchesSid(f) == f.kind # "noise" /\ f.req.sid = req.sid

\* Mutant of Matches: a negative response is taken for a stale frame.
MatchesPositive(f) == f.kind = "full" /\ f.req = req

\* What ask returns: a reply that echoes service and parameter, or one that names
\* the service and no parameter.
Matches(f) ==
  \/ f.kind = "bare" /\ f.req.sid = req.sid
  \/ f.kind = "full" /\ f.req = req

\* What ask_all collects: the first reply of each ECU, whatever it answers.
IsNew(f) == f.kind # "noise" /\ \A g \in seen : g.ecu # f.ecu

\* read_one returns the oldest frame.
Reading == pc = "read" /\ ~Expired /\ rx # <<>>

\* With the last of them the reader has caught up.
Take == rx' = Tail(rx) /\ behind' = IF rx' = <<>> THEN 0 ELSE behind

\* TX echo, first-frame marker, stale frame, second reply of an ECU.
ReadDiscards ==
  /\ Reading
  /\ verb = "ask" => ~Matches(Head(rx))
  /\ verb = "ask_all" => ~IsNew(Head(rx))
  /\ Take
  /\ UNCHANGED <<pc, exchange, elapsed, quiet, seen, outcome, clearing, disconnected,
                 owes, answered, clearable>>

AskReturns ==
  /\ Reading
  /\ verb = "ask" /\ Matches(Head(rx))
  /\ seen' = {Head(rx)} /\ outcome' = "replies"
  /\ Take
  /\ elapsed' = Deadline
  /\ pc' = "idle"
  /\ UNCHANGED <<exchange, quiet, clearing, disconnected, owes, answered, clearable>>

AskAllCollects ==
  /\ Reading
  /\ verb = "ask_all" /\ IsNew(Head(rx))
  /\ seen' = seen \union {Head(rx)}
  /\ quiet' = 0
  /\ Take
  /\ UNCHANGED <<pc, exchange, elapsed, outcome, clearing, disconnected, owes, answered,
                 clearable>>

\* PassThruReadMsgs fails with anything but an empty buffer.
ReadRaises ==
  /\ pc = "read" /\ ~Expired
  /\ Raise("raised")
  /\ UNCHANGED <<exchange, clearing, disconnected, rx, owes, history>>

Expire ==
  /\ pc = "read" /\ Expired
  /\ \/ verb = "ask" /\ Raise("Timeout")
     \/ /\ verb = "ask_all"
        /\ outcome' = "replies" /\ quiet' = 0 /\ pc' = "idle"
        /\ UNCHANGED <<elapsed, seen>>
  /\ UNCHANGED <<exchange, clearing, disconnected, rx, owes, history>>

\* The driver forgets the channel and its buffer, and nothing more arrives.
Disconnect ==
  /\ pc = "idle"
  /\ ~disconnected
  /\ disconnected' = TRUE
  /\ rx' = <<>> /\ owes' = {}
  /\ UNCHANGED <<pc, exchange, elapsed, quiet, seen, outcome, clearing, history>>

-----------------------------------------------------------------------------
(* The bus and the clock.                                                  *)

Arrives(f) == rx' = Append(rx, f)

Reply(o, kind) == [ecu |-> o.ecu, kind |-> kind, req |-> o.req, n |-> o.n]

\* A reply counts as the ECU's answer to the exchange once its request is out.
Noted(o) ==
  answered' = IF o.n = n /\ elapsed < answered[o.ecu]
              THEN [answered EXCEPT ![o.ecu] = elapsed] ELSE answered

\* A complete reply.
Answer(o) ==
  /\ \E kind \in {"full", "bare"} : Arrives(Reply(o, kind))
  /\ owes' = owes \ {o}
  /\ Noted(o)
  /\ UNCHANGED <<pc, exchange, elapsed, quiet, seen, outcome, clearing, disconnected,
                 behind, clearable>>

\* Ahead of the reply, as often as it likes: the marker of a first frame, or a
\* negative response 0x78, "response pending".
Foretell(o) ==
  /\ \/ Arrives(Noise) /\ UNCHANGED answered
     \/ Arrives(Reply(o, "bare")) /\ Noted(o)
  /\ UNCHANGED <<pc, exchange, elapsed, quiet, seen, outcome, clearing, disconnected,
                 owes, behind, clearable>>

\* 50 ms go by: in a read that finds nothing, or with frames still unread.
Tick ==
  /\ pc = "read" /\ ~Expired
  /\ elapsed' = elapsed + 1
  /\ quiet' = IF seen # {} THEN quiet + 1 ELSE 0
  /\ behind' = IF rx = <<>> THEN 0 ELSE behind + 1
  /\ UNCHANGED <<pc, exchange, seen, outcome, clearing, disconnected, rx, owes,
                 answered, clearable>>

\* Between two calls time goes by unmeasured: what comes now comes after the window.
Pause ==
  /\ pc = "idle"
  /\ elapsed' = Deadline /\ quiet' = 0
  /\ UNCHANGED <<pc, exchange, seen, outcome, clearing, disconnected, rx, owes, history>>

-----------------------------------------------------------------------------
(* The specification.                                                      *)

\* J2534Channel.__init__, with the exchange variables at rest.
Init ==
  /\ pc = "idle" /\ verb = "ask" /\ req = (CHOOSE r \in Requests : TRUE) /\ n = 0
  /\ elapsed = Deadline /\ quiet = 0 /\ seen = {} /\ outcome = "none"
  /\ tried = FALSE /\ ok = TRUE /\ disconnected = FALSE
  /\ rx = <<>> /\ owes = {}
  /\ answered = NotYet /\ behind = 0 /\ clearable = FALSE

\* The thread inside ask or ask_all.
Exchange ==
  \/ ClearRx \/ Write \/ WriteRaises
  \/ ReadDiscards \/ AskReturns \/ AskAllCollects \/ ReadRaises \/ Expire

Caller ==
  \/ \E v \in Verbs, r \in Requests : Begin(v, r) \/ BeginDisconnected(v, r)
  \/ Disconnect

\* A frame comes, whether the one before has been read or not.
Bus ==
  /\ Len(rx) < MaxBuffer
  /\ \E o \in owes : Answer(o) \/ Foretell(o)

Next == Exchange \/ Caller \/ Bus \/ Tick \/ Pause

Spec == Init /\ [][Next]_vars

-----------------------------------------------------------------------------
(* Properties.                                                             *)

\* Types; no exchange outlasts its deadline (j2534.py:834 and :906), on a silent bus
\* too, and a list has at most one reply of each ECU (j2534.py:927).
TypeOK ==
  /\ pc \in {"idle", "clear", "write", "read"}
  /\ verb \in Verbs /\ req \in Requests /\ n \in 0 .. MaxExchanges
  /\ elapsed \in 0 .. Deadline /\ quiet \in 0 .. Coalesce
  /\ seen \subseteq Replies
  /\ \A f, g \in seen : f.ecu = g.ecu => f = g
  /\ outcome \in Outcomes
  /\ tried \in BOOLEAN /\ ok \in BOOLEAN /\ disconnected \in BOOLEAN
  /\ rx \in Seq(Frames)
  /\ owes \subseteq Answers
  /\ answered \in [ECUs -> 0 .. Deadline] /\ behind \in 0 .. Deadline
  /\ clearable \in BOOLEAN

Listed == {f.ecu : f \in seen}
AskReplied == verb = "ask" /\ outcome = "replies"
ListReturned == verb = "ask_all" /\ outcome = "replies"

\* The secondary guard of ask (j2534.py:851-880): however many exchanges were cut
\* short before, and whatever they left in the buffer, an answer that ask returns
\* was given to this very request, or, if it names no parameter, to its service.
Backstop ==
  AskReplied => \A f \in seen : /\ f.req.sid = req.sid
                                /\ f.kind = "full" => f.req = req

\* The primary guard (j2534.py:794-809): where the driver can clear its buffer, and
\* failed to in no first attempt, an exchange hears of itself only, whatever the
\* earlier ones left behind, unless an ECU was still working on one of those.
FreshIfClearable ==
  clearable /\ ~rx_clear_unsupported /\ outcome = "replies" =>
    \A f \in seen : f.n = n

\* Coalescing is safe for compliant ECUs (j2534.py:103-107): every ECU that answered
\* within P2 is in the list of ask_all, also when a stale frame or a faster ECU
\* started the coalescing clock, and however the frames were spread; except that a
\* reader so far behind that P2 and its arrears fill the coalescing time or the
\* window may leave the answer unread.
PromptHeard ==
  ListReturned /\ P2Max + behind < Coalesce /\ P2Max + behind < Deadline =>
    \A e \in ECUs : answered[e] <= P2Max => e \in Listed

\* ask gives up (j2534.py:888) with an answer unread (j2534.py:833-835) only if it
\* has had frames unread ever since that answer came; a reader that has caught up
\* gives up only if no ECU answered, whatever stale frames and markers came first.
TimeoutMeansSilence ==
  verb = "ask" /\ outcome = "Timeout" =>
    \A e \in ECUs : answered[e] < Deadline => answered[e] + behind >= Deadline

\* PHASE_1_SCOPE.md:137 asks that ask_all "collect every ECU that answers within
\* the window"; here of a reader that has caught up with what came.
HeardWithinWindow ==
  ListReturned /\ behind = 0 => \A e \in ECUs : answered[e] < Deadline => e \in Listed

\* base.py:151 says of ask that "stale replies from earlier timed-out requests are
\* skipped internally".
AskNeverStale == AskReplied => \A f \in seen : f.n = n

=============================================================================
