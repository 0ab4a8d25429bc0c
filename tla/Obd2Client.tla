----------------------------- MODULE Obd2Client -----------------------------
(***************************************************************************)
(* The OBD-II client of the first version                                  *)
(* (OldVer/obd2_mcp/protocols/obd2.py) against one ECU.  Transports has    *)
(* the exchanges themselves; here one is a step, and what it hands to the  *)
(* client is the reply, a negative response, nothing, or the late reply to *)
(* an earlier request that timed out: any one on the transports that do    *)
(* not compare a reply with the request, one that fits on the others.      *)
(***************************************************************************)
EXTENDS Obd2Wire, SequencesExt

CONSTANTS
  Models,   \* what an ECU may have: as in Obd2Wire
  Echoed,   \* services whose replies repeat an identifier: of "01", "02", "08", "09"
  Dtcs,     \* trouble codes, as words
  MaxCodes  \* bound: codes that the ECU sets

ASSUME ClientAssumption ==
  /\ \A m \in Models : IsEcu(m)
  /\ Echoed \subseteq {"01", "02", "08", "09"}
  /\ Dtcs \subseteq Words \ {0} /\ IsFiniteSet(Dtcs)
  /\ MaxCodes \in Nat

VARIABLES
  ecu,       \* which one it is
  matching,  \* the transport compares
  codes,     \* its codes: stored ("03") and pending ones ("07")
  set,       \* how many it has set
  astray,    \* the reply to a request that timed out, on its way
  walk,      \* the walk through groups that is under way, or has just ended
  answer     \* the last call that was not a walk, and what it returned

cvars == <<ecu, matching, codes, set, astray, walk, answer>>

Lists  == {"03", "07"}

\* The codes of a list are in the place of the bytes, a word each, with a filler.
Listing(service) == [service |-> service, echo |-> 0, mask |-> {}, bytes |-> Append(SetToSeq(codes[service]), 0)]

Positive(service) == [service |-> service, echo |-> 0, mask |-> {}, bytes |-> <<>>]

Negative(service) == [Positive("7F") EXCEPT !.echo = service]

\* A walk: its service, the group it asks for next, whether it asks for masks,
\* for tests, or is over; the ids and the tests it found, the MIDs still to ask
\* for.  History: was a late reply taken, was every reply the right one?
NoWalk == [service |-> "none", group |-> 0, at |-> "over", found |-> {}, tests |-> {},
           todo |-> {}, strayed |-> FALSE, whole |-> TRUE]

\* What was asked for, and what it is that the answer shows.  History: the codes
\* the ECU had then, what kind of reply was taken.
NoAnswer == [service |-> "none", ident |-> 0, ok |-> FALSE, list |-> {}, had |-> {}, by |-> "none"]

-----------------------------------------------------------------------------
(* The exchange.                                                           *)

\* What J2534Transport compares.
FitsRequest(r, service, ident) ==
  \/ r.service = service /\ (service \in Lists \cup {"04"} \/ r.echo = ident)
  \/ r.service = "7F" /\ r.echo = service

\* own is the reply of the ECU, if it has one and the request reaches it.  By
\* which reply the client goes: its own, a late one, a negative one, or none at
\* all, in which case it may come later.
Exchange(service, ident, own, r, by) ==
  \/ by = "own" /\ own # NoReply /\ r = own /\ astray' = NoReply
  \/ by = "negative" /\ r = Negative(service) /\ astray' = NoReply
  \/ by = "late" /\ astray # NoReply /\ r = astray
       /\ (matching => FitsRequest(r, service, ident)) /\ astray' = own
  \/ by = "none" /\ r = NoReply /\ astray' \in {NoReply, own, astray}

Kinds == {"own", "negative", "late", "none"}

\* All replies that there can be.
Incoming(own, service) == {own, Negative(service), astray, NoReply}

-----------------------------------------------------------------------------
(* Calls of one exchange.                                                  *)

Answers(service, ident, ok, list, had, by) ==
  /\ walk' = IF walk.at = "over" THEN NoWalk ELSE walk
  /\ answer' = [service |-> service, ident |-> ident, ok |-> ok, list |-> list, had |-> had, by |-> by]

\* Mutant of Repeats: the service is looked at, not what it is about.
RepeatsService(r, service, ident) == r.service = service

\* response[0] and response[1]
Repeats(r, service, ident) == r.service = service /\ r.echo = ident

\* query_pid, query_freeze_frame, run_actuator_test, read_vin: the value is read
\* from a reply that repeats the request.  (Of identifiers the ECU has the same
\* for each of these services.)
query(service, ident) ==
  LET own == IF ident \in ecu.pids THEN Data(service, ident, <<>>) ELSE NoReply IN
  /\ \E r \in Incoming(own, service), by \in Kinds :
       /\ Exchange(service, ident, own, r, by)
       /\ Answers(service, ident, Repeats(r, service, ident),
                  IF Repeats(r, service, ident) THEN {r.echo} ELSE {}, {}, by)
  /\ UNCHANGED <<ecu, matching, codes, set>>

\* A code as it is shown: the letter and the number.
Dtc(word) == <<(4 * word) \div (Byte * Byte), (4 * word) % (Byte * Byte)>>

\* _parse_mode03_response, _parse_mode07_response
parse_dtcs(words) == {Dtc(w) : w \in ToSet(words) \ {0}}

\* read_dtcs, read_pending_dtcs: no list, and no answer, is an empty list.
read_dtcs(service) ==
  LET own == Listing(service) IN
  /\ \E r \in Incoming(own, service), by \in Kinds :
       /\ Exchange(service, 0, own, r, by)
       /\ Answers(service, 0, TRUE, IF r.service = service THEN parse_dtcs(r.bytes) ELSE {},
                  codes[service], by)
  /\ UNCHANGED <<ecu, matching, codes, set>>

\* clear_dtcs: the ECU does it if the request reaches it, also when its answer is
\* late, and not if it refuses.
clear_dtcs ==
  \E reached \in BOOLEAN :
    LET own == IF reached THEN Positive("04") ELSE NoReply IN
    /\ codes' = IF reached THEN [s \in Lists |-> {}] ELSE codes
    /\ \E r \in Incoming(own, "04"), by \in Kinds :
         /\ (by = "negative" => ~reached)
         /\ Exchange("04", 0, own, r, by)
         /\ Answers("04", 0, r.service = "04", {}, UNION {codes'[s] : s \in Lists}, by)
    /\ UNCHANGED <<ecu, matching, set>>

\* The ECU finds a fault.
SetsCode(service, dtc) ==
  /\ set < MaxCodes /\ dtc \notin codes[service]
  /\ codes' = [codes EXCEPT ![service] = @ \cup {dtc}]
  /\ set' = set + 1
  /\ UNCHANGED <<ecu, matching, astray, walk, answer>>

-----------------------------------------------------------------------------
(* Walks.  Other calls go on in between.                                   *)

start_walk(service) ==
  /\ walk.at = "over"
  /\ walk' = [NoWalk EXCEPT !.service = service, !.at = "masks"]
  /\ answer' = NoAnswer
  /\ UNCHANGED <<ecu, matching, codes, set, astray>>

WalkBase == Group * walk.group

\* The group that was read is entered; the walk goes on if there is another one,
\* if a reply was taken at all.
Enter(taken, mask, by) ==
  LET more == taken /\ more_groups(mask) /\ AnotherGroup(walk.group)
      all  == walk.found \cup (IF taken THEN supported_ids(WalkBase, mask) ELSE {})
  IN walk' = [walk EXCEPT
       !.group = IF more THEN @ + 1 ELSE @,
       !.at = IF more THEN "masks" ELSE IF walk.service = "06" THEN "tests" ELSE "over",
       !.found = all,
       !.todo = IF walk.service = "06" /\ ~more THEN all ELSE {},
       !.strayed = @ \/ by = "late",
       !.whole = @ /\ by = "own"]

IsMask(r) == r.service \in {"01", "06"} /\ r.echo \in Bases

\* discover_supported_pids: what is long enough is taken for the mask of the group
\* that was asked for.  (Garbage: four bytes of a reply that is no mask.)
discover_supported_pids ==
  LET own == respond(ecu, "01", WalkBase) IN
  /\ walk.at = "masks" /\ walk.service = "01"
  /\ \E r \in Incoming(own, "01"), by \in Kinds :
       /\ Exchange("01", WalkBase, own, r, by)
       /\ IF by = "late" /\ ~IsMask(r)
          THEN \/ \E garbage \in SUBSET (1 .. Group) : Enter(TRUE, garbage, by)
               \/ Enter(FALSE, {}, by)
          ELSE Enter(r.service \notin {"none", "7F"}, r.mask, by)
  /\ UNCHANGED <<ecu, matching, codes, set, answer>>

\* discover_monitor_mids: only the mask of that group is.
discover_monitor_mids ==
  LET own == respond(ecu, "06", WalkBase) IN
  /\ walk.at = "masks" /\ walk.service = "06"
  /\ \E r \in Incoming(own, "06"), by \in Kinds :
       /\ Exchange("06", WalkBase, own, r, by)
       /\ Enter(Repeats(r, "06", WalkBase) /\ Len(r.bytes) = 0, r.mask, by)
  /\ UNCHANGED <<ecu, matching, codes, set, answer>>

\* _parse_mode06_mid_response: the records as in decode_mode06, compared as
\* unsigned words whatever their id.
parse_mode06(bytes) ==
  {LET at(i)   == bytes[9 * (n - 1) + i]
       word(i) == Byte * at(i) + at(i + 1)
   IN [mid |-> at(1), tid |-> at(2), uasid |-> at(3),
       passed |-> word(6) <= word(4) /\ word(4) <= word(8)]
   : n \in 1 .. Len(bytes) \div 9}

\* read_monitor_tests, one MID.  Whose records they are they say themselves.
read_monitor_tests ==
  /\ walk.at = "tests"
  /\ IF walk.todo = {}
     THEN walk' = [walk EXCEPT !.at = "over"] /\ UNCHANGED astray
     ELSE LET mid == CHOOSE m \in walk.todo : \A n \in walk.todo : m <= n
              own == respond(ecu, "06", mid)
          IN \E r \in Incoming(own, "06"), by \in Kinds :
               /\ Exchange("06", mid, own, r, by)
               /\ walk' = [walk EXCEPT
                    !.todo = @ \ {mid},
                    !.tests = @ \cup (IF HasTests(r) THEN parse_mode06(r.bytes) ELSE {}),
                    !.whole = @ /\ by = "own"]
  /\ UNCHANGED <<ecu, matching, codes, set, answer>>

-----------------------------------------------------------------------------
ClientInit ==
  /\ ecu \in Models /\ matching \in BOOLEAN
  /\ codes = [s \in Lists |-> {}] /\ set = 0
  /\ astray = NoReply
  /\ walk = NoWalk /\ answer = NoAnswer

ClientNext ==
  \/ \E service \in Echoed, ident \in Ids : query(service, ident)
  \/ \E service \in Lists : read_dtcs(service)
  \/ clear_dtcs
  \/ \E service \in Lists, dtc \in Dtcs : SetsCode(service, dtc)
  \/ \E service \in {"01", "06"} : start_walk(service)
  \/ discover_supported_pids \/ discover_monitor_mids \/ read_monitor_tests

-----------------------------------------------------------------------------
(* Properties.                                                             *)

\* Type correctness.
ClientTypeOK ==
  /\ ecu \in Models /\ matching \in BOOLEAN
  /\ codes \in [Lists -> SUBSET Dtcs] /\ set \in 0 .. MaxCodes
  /\ walk.group \in 0 .. Groups - 1 /\ walk.at \in {"masks", "tests", "over"}
  /\ walk.found \subseteq Ids /\ walk.todo \subseteq Ids
  /\ answer.ok \in BOOLEAN /\ answer.by \in Kinds

\* A value is of the identifier it was asked for, whatever reply came.
ValueRight == answer.service \in Echoed => answer.list \subseteq {answer.ident}

\* A list is that of the ECU when it was asked, or empty since there was no
\* answer, unless it is a late one (on any transport: it fits).
ListRight ==
  (answer.service \in Lists /\ answer.by # "late") =>
    answer.list = IF answer.by = "own" THEN {Dtc(w) : w \in answer.had} ELSE {}

\* No code is left if clear_dtcs says so, unless by a late answer.
ClearRight == (answer.service = "04" /\ answer.ok /\ answer.by # "late") => answer.had = {}

\* A walk finds what the ECU supports, and all of it if every reply was the right
\* one: the MIDs whatever came, the PIDs unless a late reply was taken for another
\* group.  Its tests are of the ECU, with the right verdict for unsigned ids.
WalkRight ==
  LET all   == IF walk.service = "01" THEN ecu.pids ELSE Mids(ecu)
      Has(t) == \E i \in DOMAIN ecu.tests :
        LET r == ecu.tests[i]
            v == [mid |-> r.mid, tid |-> r.tid, uasid |-> r.uasid,
                  passed |-> r.min <= r.value /\ r.value <= r.max]
        IN IF 2 * r.uasid < Byte THEN t = v ELSE [t EXCEPT !.passed = TRUE] = [v EXCEPT !.passed = TRUE]
  IN /\ (walk.service = "06" \/ ~walk.strayed) => walk.found \subseteq all
     /\ (walk.at = "over" /\ walk.whole /\ walk.service # "none") => walk.found = all
     /\ \A t \in walk.tests : Has(t)
     /\ (walk.at = "over" /\ walk.whole /\ walk.service = "06") =>
          {<<t.mid, t.tid>> : t \in walk.tests}
            = {<<ecu.tests[i].mid, ecu.tests[i].tid>> : i \in DOMAIN ecu.tests}

\* What the client shows is what the ECU said.
ReadingsRight == ValueRight /\ ListRight /\ ClearRight /\ WalkRight
=============================================================================
