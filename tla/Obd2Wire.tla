------------------------------ MODULE Obd2Wire ------------------------------
(***************************************************************************)
(* What an ECU answers and what is read out of it: the encoders of the     *)
(* virtual vehicle (backprobe/transport/virtual.py) and the decoders of    *)
(* backprobe/obd2/decode.py, which are pure functions.                     *)
(*                                                                         *)
(* A reply is a record: its service, the byte after it, and one of a       *)
(* support mask, a string of bytes, or neither.  The bits of a mask are    *)
(* numbered as the code numbers the identifiers they stand for: bit k of   *)
(* the group at base is base + k, and the last one says that there is a    *)
(* further group.                                                          *)
(***************************************************************************)
EXTENDS Naturals, Integers, Sequences, FiniteSets, Sorting

CONSTANTS
  Group,   \* bits of a support mask: 32
  Groups,  \* groups that are asked for and answered: 6, at 0x00 .. 0xA0; the first
           \* version asks for two more
  Byte,    \* values of a byte: 256
  Scaled   \* unit and scaling ids in the table _MODE06_SCALING

ASSUME WireAssumption ==
  /\ Group \in Nat /\ Group > 1
  /\ Groups \in Nat \ {0}
  /\ Byte \in Nat /\ Byte > 1 /\ Byte % 2 = 0
  /\ Group * Groups <= Byte
  /\ Scaled \subseteq 1 .. Byte - 1

Bases == {Group * i : i \in 0 .. Groups - 1}

\* Identifiers of data.  Those at a base are the groups themselves.
Ids == {base + k : base \in Bases, k \in 1 .. Group - 1}

NoReply == [service |-> "none", echo |-> 0, mask |-> {}, bytes |-> <<>>]

Mask(service, base, mask)    == [service |-> service, echo |-> base, mask |-> mask, bytes |-> <<>>]
Data(service, ident, bytes)  == [service |-> service, echo |-> ident, mask |-> {}, bytes |-> bytes]

-----------------------------------------------------------------------------
(* Support masks.                                                          *)

\* The bits that _encode_support_mask sets.
support_mask(base, supported) ==
  {k \in 1 .. Group - 1 : base + k \in supported}
    \cup {k \in {Group} : \E s \in supported : s > base + Group - 1}

\* decode_supported_pids and decode_mode06_mids: the identifiers of a group,
\* by the base that the reply repeats;
supported_ids(base, mask) == {base + k : k \in mask \ {Group}}

\* and whether there is another one.
more_groups(mask) == Group \in mask

\* Mutant of AnotherGroup: one too many.
AnotherGroupToo(group) == group < Groups

\* There is a group that a walk asks for after this one.
AnotherGroup(group) == group + 1 < Groups

\* What they take for a mask: any reply to their service that is long enough.
Masked(reply, service) == reply.service = service

-----------------------------------------------------------------------------
(* Monitor tests: [mid, tid, uasid, value, min, max].                      *)

Words == 0 .. Byte * Byte - 1

Records == [mid : 0 .. Byte - 1, tid : 0 .. Byte - 1, uasid : 0 .. Byte - 1,
            value : Words, min : Words, max : Words]

\* _encode_mode06: nine bytes for each record, the words with the high byte first.
Nine(r) ==
  <<r.mid, r.tid, r.uasid,
    r.value \div Byte, r.value % Byte, r.min \div Byte, r.min % Byte,
    r.max \div Byte, r.max % Byte>>

encode_mode06(records) ==
  [i \in 1 .. 9 * Len(records) |-> Nine(records[1 + ((i - 1) \div 9)])[1 + ((i - 1) % 9)]]

\* Mutant of scale: every id is read as unsigned.
scale_unsigned(uasid, raw) == raw

\* _scale_mode06.  Factors are positive and a record has one factor and one
\* offset, so that they do not tell who is greater; the sign does.  An id that is
\* not in the table is passed on as it is.
scale(uasid, raw) ==
  IF uasid \in Scaled /\ 2 * uasid >= Byte /\ 2 * raw >= Byte * Byte
  THEN raw - Byte * Byte ELSE raw

\* decode_mode06: a record at a time, as long as nine bytes are left.
decode_mode06(bytes) ==
  [n \in 1 .. Len(bytes) \div 9 |->
     LET at(i)   == bytes[9 * (n - 1) + i]
         word(i) == scale(at(3), Byte * at(i) + at(i + 1))
     IN [mid |-> at(1), tid |-> at(2), uasid |-> at(3),
         passed |-> word(6) <= word(4) /\ word(4) <= word(8)]]

\* It takes a reply to its service with one record at least.
HasTests(reply) == reply.service = "06" /\ Len(reply.bytes) >= 9

-----------------------------------------------------------------------------
(* An ECU: the PIDs it supports, its monitor tests, whether it has a VIN.   *)

Mids(ecu) == {ecu.tests[i].mid : i \in DOMAIN ecu.tests}

\* Its tests of one MID, in the order it has them.
Of(ecu, mid) ==
  LET at == InOrder({i \in DOMAIN ecu.tests : ecu.tests[i].mid = mid})
  IN [n \in DOMAIN at |-> ecu.tests[at[n]]]

\* What there may be: identifiers are those of data.
IsEcu(ecu) ==
  /\ ecu.pids \subseteq Ids /\ Mids(ecu) \subseteq Ids
  /\ ecu.tests \in Seq(Records) /\ ecu.vin \in BOOLEAN

\* A support mask, or silence where there is nothing in this group or beyond.
GroupReply(service, base, supported) ==
  IF base = 0 \/ \E s \in supported : s > base
  THEN Mask(service, base, support_mask(base, supported)) ELSE NoReply

\* _respond.  (The payload of a live value is not told apart from another one of
\* its PID.)
respond(ecu, service, ident) ==
  CASE service = "01" /\ ident \in Bases -> GroupReply("01", ident, ecu.pids)
    [] service = "01" /\ ident \in ecu.pids -> Data("01", ident, <<>>)
    [] service = "06" /\ ident \in Bases -> GroupReply("06", ident, Mids(ecu))
    [] service = "06" /\ ident \in Mids(ecu) -> Data("06", ident, encode_mode06(Of(ecu, ident)))
    [] service = "09" /\ ident = 0 -> Mask("09", 0, support_mask(0, IF ecu.vin THEN {2} ELSE {}))
    [] service = "09" /\ ident = 2 /\ ecu.vin -> Data("09", 2, <<>>)
    [] OTHER -> NoReply
=============================================================================
