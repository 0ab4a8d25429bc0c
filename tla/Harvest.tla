------------------------------ MODULE Harvest ------------------------------
(***************************************************************************)
(* The harvest (backprobe/daemon/interrogate.py) with what it asks and     *)
(* reads: the VIN, the census of all ECUs by the groups of their PIDs, the *)
(* MIL, the monitor tests.  Watcher has the same steps with the answers    *)
(* left out, J2534Channel the exchanges with the frames kept.              *)
(*                                                                         *)
(* An action is one exchange and what is made of it.  Any ECU may be too   *)
(* late for it.  What is late is in the buffer when the next exchange      *)
(* begins (P2 is shorter than that takes), and the first that it hears of  *)
(* that ECU, unless the buffer can be cleared.                             *)
(***************************************************************************)
EXTENDS Obd2Wire, SequencesExt

CONSTANTS
  Ecus,     \* addresses, in their order
  Vehicles  \* what the ECUs of each vehicle have

None == 0

ASSUME HarvestAssumption ==
  /\ Ecus \subseteq Nat \ {None} /\ IsFiniteSet(Ecus)
  /\ \A v \in Vehicles : DOMAIN v = Ecus /\ \A e \in Ecus : IsEcu(v[e])

VARIABLES
  vehicle,    \* which one it is
  clearable,  \* CLEAR_RX_BUFFER works
  behind,     \* a reply of an ECU that no exchange has read yet
  stage,      \* how far harvest() is
  group,      \* the group _support_walk asks for next
  pid_map,    \* its result: the ECUs heard, with the ids of each
  mid_map,
  vin, mil,   \* what was read, or None
  todo,       \* _harvest_mode06: the ECUs and MIDs still to ask for
  tests,      \* the results, by ECU
  missed      \* history: the reply of some ECU was not the one read

hvars == <<vehicle, clearable, behind, stage, group, pid_map, mid_map, vin, mil, todo, tests, missed>>

Stages == {"vin", "pids", "mil", "mids", "tests", "done", "nobody", "lost"}

Nothing == [e \in {} |-> <<>>]

-----------------------------------------------------------------------------
(* The channel.                                                            *)

Reply(e, service, ident) == respond(vehicle[e], service, ident)

\* What stays in the buffer after an exchange in which the ECUs of late were not
\* read: the next one empties it, if it can.
Stay(service, ident, late) ==
  behind' = [e \in Ecus |-> IF e \in late /\ ~clearable THEN Reply(e, service, ident) ELSE NoReply]

\* ask: the reply of the ECU who, and no other ECU's; or None, for nothing that
\* fits in time.  Stale frames are skipped.
Ask(service, ident, who) ==
  /\ who # None => Reply(who, service, ident) # NoReply
  /\ \E late \in SUBSET (Ecus \ {who}) : Stay(service, ident, late)

\* ask_all: for each ECU the first frame, which is a stale one if there is one.
\* late are the ECUs whose reply is not read.
Heard(e, service, ident, late) ==
  IF behind[e] # NoReply THEN behind[e]
  ELSE IF e \in late THEN NoReply ELSE Reply(e, service, ident)

AskAll(service, ident, late) ==
  /\ Stay(service, ident, late)
  /\ missed' = (missed \/ \E e \in Ecus : Heard(e, service, ident, late) # Reply(e, service, ident))

-----------------------------------------------------------------------------
(* The support walk.                                                       *)

Base == Group * group

\* Of the ECUs whose reply can be decoded, the ids are added to what there is.
Collect(map, got) ==
  [e \in DOMAIN map \cup DOMAIN got |->
     (IF e \in DOMAIN map THEN map[e] ELSE <<>>)
       \o (IF e \in DOMAIN got THEN InOrder(supported_ids(got[e].echo, got[e].mask)) ELSE <<>>)]

\* Mutant of Further: all of them must have another group.
FurtherForAll(got) == got # Nothing /\ \A e \in DOMAIN got : more_groups(got[e].mask)

\* any_more
Further(got) == \E e \in DOMAIN got : more_groups(got[e].mask)

\* One group of the walk: map and map' are the result so far and now.  The walk
\* goes on if an ECU says so; otherwise, or if nobody answers, to the stage next.
Walk(service, map, newmap, this, next) ==
  \E late \in SUBSET Ecus :
    LET heard == {e \in Ecus : Heard(e, service, Base, late) # NoReply}
        got   == [e \in {f \in heard : Masked(Heard(f, service, Base, late), service)} |->
                    Heard(e, service, Base, late)]
    IN
    /\ AskAll(service, Base, late)
    /\ newmap = Collect(map, got)
    /\ IF Further(got) /\ AnotherGroup(group)
       THEN group' = group + 1 /\ stage' = this
       ELSE group' = 0 /\ stage' = next

-----------------------------------------------------------------------------
(* harvest().                                                              *)

read_vin ==
  /\ stage = "vin"
  /\ \E who \in Ecus \cup {None} : Ask("09", 2, who) /\ vin' = who
  /\ stage' = "pids"
  /\ UNCHANGED <<vehicle, clearable, group, pid_map, mid_map, mil, todo, tests, missed>>

AfterCensus(map) == IF map = Nothing THEN "nobody" ELSE "mil"

walk_pids ==
  /\ stage = "pids"
  /\ Walk("01", pid_map, pid_map', "pids", AfterCensus(pid_map'))
  /\ UNCHANGED <<vehicle, clearable, mid_map, vin, mil, todo, tests>>

read_mil ==
  /\ stage = "mil"
  /\ \E who \in Ecus \cup {None} : Ask("01", 1, who) /\ mil' = who
  /\ stage' = "mids"
  /\ UNCHANGED <<vehicle, clearable, group, pid_map, mid_map, vin, todo, tests, missed>>

\* sorted(mid_map.get(ecu, [])) for one ECU of the census after the other.
MidsToAsk(map) ==
  FlattenSeq([i \in 1 .. Cardinality(DOMAIN pid_map) |->
    LET e == InOrder(DOMAIN pid_map)[i]
        mids == IF e \in DOMAIN map THEN sorted(map[e]) ELSE <<>>
    IN [j \in DOMAIN mids |-> <<e, mids[j]>>]])

walk_mids ==
  /\ stage = "mids"
  /\ Walk("06", mid_map, mid_map', "mids", "tests")
  /\ todo' = IF stage' = "tests" THEN MidsToAsk(mid_map') ELSE todo
  /\ UNCHANGED <<vehicle, clearable, pid_map, vin, mil, tests>>

\* All ECUs answer to a MID; only the one it is asked for is listened to.
harvest_mid ==
  /\ stage = "tests" /\ todo # <<>>
  /\ LET e == Head(todo)[1]
         mid == Head(todo)[2]
     IN \E late \in SUBSET Ecus :
          LET r == Heard(e, "06", mid, late) IN
          /\ AskAll("06", mid, late)
          /\ tests' = [tests EXCEPT ![e] = @ \o (IF HasTests(r) THEN decode_mode06(r.bytes) ELSE <<>>)]
  /\ todo' = Tail(todo)
  /\ UNCHANGED <<vehicle, clearable, stage, group, pid_map, mid_map, vin, mil>>

\* The summary.
harvest_returns ==
  /\ stage = "tests" /\ todo = <<>>
  /\ stage' = "done"
  /\ UNCHANGED <<vehicle, clearable, behind, group, pid_map, mid_map, vin, mil, todo, tests, missed>>

\* DeviceLost goes through to the watcher.
DeviceLost ==
  /\ stage \notin {"done", "nobody", "lost"}
  /\ stage' = "lost"
  /\ UNCHANGED <<vehicle, clearable, behind, group, pid_map, mid_map, vin, mil, todo, tests, missed>>

\* The probe has asked for the first group and read one reply to it.
HarvestInit ==
  /\ vehicle \in Vehicles
  /\ clearable \in BOOLEAN
  /\ \E late \in SUBSET Ecus :
       behind = [e \in Ecus |-> IF e \in late /\ ~clearable THEN respond(vehicle[e], "01", 0) ELSE NoReply]
  /\ stage = "vin" /\ group = 0
  /\ pid_map = Nothing /\ mid_map = Nothing
  /\ vin = None /\ mil = None
  /\ todo = <<>>
  /\ tests = [e \in Ecus |-> <<>>]
  /\ missed = FALSE

HarvestNext ==
  \/ read_vin \/ walk_pids \/ read_mil \/ walk_mids
  \/ harvest_mid \/ harvest_returns \/ DeviceLost

-----------------------------------------------------------------------------
(* Properties.                                                             *)

\* Type correctness.
HarvestTypeOK ==
  /\ vehicle \in Vehicles /\ clearable \in BOOLEAN
  /\ DOMAIN behind = Ecus /\ (clearable => \A e \in Ecus : behind[e] = NoReply)
  /\ stage \in Stages /\ group \in 0 .. Groups - 1
  /\ \A map \in {pid_map, mid_map} :
       DOMAIN map \subseteq Ecus /\ \A e \in DOMAIN map : map[e] \in Seq(Ids)
  /\ vin \in Ecus \cup {None} /\ mil \in Ecus \cup {None}
  /\ todo \in Seq(Ecus \X Ids)
  /\ DOMAIN tests = Ecus
  /\ missed \in BOOLEAN

Asked(map, e) == IF e \in DOMAIN map THEN {map[e][i] : i \in DOMAIN map[e]} ELSE {}

NoneTwice(map) ==
  \A e \in DOMAIN map : \A i, j \in DOMAIN map[e] : map[e][i] = map[e][j] => i = j

\* The census is right: an ECU is listed with ids that it supports, and none of
\* them twice, also when what is read is the reply to an earlier group; and if
\* every ECU was heard every time, all ECUs are there with all that they support.
CensusRight ==
  /\ \A e \in Ecus : /\ Asked(pid_map, e) \subseteq vehicle[e].pids
                     /\ Asked(mid_map, e) \subseteq Mids(vehicle[e])
  /\ NoneTwice(pid_map) /\ NoneTwice(mid_map)
  /\ (stage = "done" /\ ~missed) =>
       \A e \in Ecus : /\ e \in DOMAIN pid_map /\ Asked(pid_map, e) = vehicle[e].pids
                       /\ Asked(mid_map, e) = Mids(vehicle[e])

\* The value of a word in Annex E: two's complement for the ids with the high bit.
Signed(uasid, raw) ==
  IF 2 * uasid >= Byte /\ 2 * raw >= Byte * Byte THEN raw - Byte * Byte ELSE raw

Verdict(r) ==
  [mid |-> r.mid, tid |-> r.tid, uasid |-> r.uasid,
   passed |-> /\ Signed(r.uasid, r.min) <= Signed(r.uasid, r.value)
              /\ Signed(r.uasid, r.value) <= Signed(r.uasid, r.max)]

\* A test that is listed is one of that ECU, not of another that answered to the
\* same MID, with the verdict that the ECU itself would give; if every ECU was
\* heard every time, all tests are there, once.  (Of ids that the table does not
\* have, the words are shown as they are, and compared as unsigned.)
TestsRight ==
  \A e \in Ecus :
    LET of == vehicle[e].tests
        Right(t) == \E i \in DOMAIN of :
          IF of[i].uasid \in Scaled THEN t = Verdict(of[i])
          ELSE [t EXCEPT !.passed = TRUE] = [Verdict(of[i]) EXCEPT !.passed = TRUE]
    IN /\ \A i \in DOMAIN tests[e] : Right(tests[e][i])
       /\ (stage = "done" /\ ~missed) => Len(tests[e]) = Len(of)
=============================================================================
