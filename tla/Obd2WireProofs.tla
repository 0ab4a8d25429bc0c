--------------------------- MODULE Obd2WireProofs ---------------------------
(***************************************************************************)
(* The decoders undo the encoders, whatever the size of a group, of a      *)
(* byte, and the number of groups.                                         *)
(***************************************************************************)
EXTENDS Obd2Wire, SortingProofs

-----------------------------------------------------------------------------
(* Support masks.                                                          *)

\* What is read out of the mask of a group are its identifiers, and whether there
\* are others further on.
THEOREM MaskRoundTrip ==
  ASSUME NEW base \in Nat, NEW supported \in SUBSET Nat
  PROVE  LET mask == support_mask(base, supported)
         IN  /\ supported_ids(base, mask) = supported \cap (base + 1 .. base + Group - 1)
             /\ more_groups(mask) <=> \E s \in supported : s >= base + Group
<1> DEFINE mask == support_mask(base, supported)
<1>1. mask \ {Group} = {k \in 1 .. Group - 1 : base + k \in supported}
  BY WireAssumption DEF support_mask
<1>2. supported_ids(base, mask) = supported \cap (base + 1 .. base + Group - 1)
  <2>1. ASSUME NEW s \in supported_ids(base, mask)
        PROVE  s \in supported \cap (base + 1 .. base + Group - 1)
    BY <1>1, WireAssumption DEF supported_ids
  <2>2. ASSUME NEW s \in supported, s \in base + 1 .. base + Group - 1
        PROVE  s \in supported_ids(base, mask)
    <3>1. s - base \in mask \ {Group} /\ base + (s - base) = s
      BY <1>1, <2>2, WireAssumption
    <3> QED BY <3>1 DEF supported_ids
  <2> QED BY <2>1, <2>2
<1>3. more_groups(mask) <=> \E s \in supported : s >= base + Group
  BY WireAssumption DEF more_groups, support_mask
<1> QED BY <1>2, <1>3

\* A mask that says there is more is followed by an answer for the next group: a
\* walk from group to group never meets silence before the last.
THEOREM NextGroupAnswers ==
  ASSUME NEW base \in Bases, NEW supported \in SUBSET Ids, NEW service,
         more_groups(support_mask(base, supported))
  PROVE  GroupReply(service, base + Group, supported)
           = Mask(service, base + Group, support_mask(base + Group, supported))
<1>1. PICK i \in 0 .. Groups - 1 : base = Group * i
  BY DEF Bases
<1>2. base \in Nat
  BY <1>1, WireAssumption
<1>3. supported \subseteq Nat
  BY WireAssumption DEF Ids, Bases
<1>4. PICK s \in supported : s >= base + Group
  BY <1>2, <1>3, MaskRoundTrip
<1>5. PICK j \in 0 .. Groups - 1, k \in 1 .. Group - 1 : s = Group * j + k
  BY DEF Ids, Bases
<1>6. s # base + Group
  <2> SUFFICES ASSUME s = base + Group PROVE FALSE
    OBVIOUS
  <2>1. /\ i \in Int /\ j \in Int /\ k \in Int /\ Group \in Int
        /\ Group * j + k = Group * (i + 1)
    BY <1>1, <1>5, WireAssumption
  <2>2. CASE j >= i + 1
    BY <2>1, <2>2, WireAssumption
  <2>3. CASE j <= i
    <3>1. Group * j <= Group * i
      BY <2>1, <2>3, WireAssumption
    <3>2. Group * (i + 1) = Group * i + Group
      BY <2>1
    <3>3. Group * j \in Int /\ Group * i \in Int
      BY <2>1
    <3> QED BY <2>1, <3>1, <3>2, <3>3
  <2> QED BY <2>1, <2>2, <2>3
<1>7. s > base + Group
  BY <1>2, <1>3, <1>4, <1>6, WireAssumption
<1> QED BY <1>7 DEF GroupReply

-----------------------------------------------------------------------------
(* Monitor tests.                                                          *)

\* A word in two bytes.
LEMMA WordRoundTrip ==
  ASSUME NEW w \in Words
  PROVE  /\ w \div Byte \in 0 .. Byte - 1 /\ w % Byte \in 0 .. Byte - 1
         /\ Byte * (w \div Byte) + (w % Byte) = w
<1>1. Byte \in Nat /\ Byte > 0 /\ w \in Nat /\ w < Byte * Byte
  BY WireAssumption DEF Words
<1>2. w \div Byte \in Int /\ w % Byte \in 0 .. Byte - 1
  BY <1>1
<1>3. Byte * (w \div Byte) + (w % Byte) = w
  BY <1>1
<1>4. w \div Byte >= 0
  <2> SUFFICES ASSUME w \div Byte <= -1 PROVE FALSE
    BY <1>2
  <2>1. Byte * (w \div Byte) <= -Byte
    BY <1>1, <1>2
  <2> QED BY <1>1, <1>2, <1>3, <2>1
<1>5. w \div Byte < Byte
  <2> SUFFICES ASSUME w \div Byte >= Byte PROVE FALSE
    BY <1>1, <1>2
  <2>1. Byte * (w \div Byte) >= Byte * Byte
    BY <1>1, <1>2
  <2> QED BY <1>1, <1>2, <1>3, <2>1
<1> QED BY <1>1, <1>2, <1>3, <1>4, <1>5

\* A number read with the sign of its id is the one that was written: modulo the
\* number of words, in two's complement.
THEOREM SignedRoundTrip ==
  ASSUME NEW uasid \in Scaled, 2 * uasid >= Byte,
         NEW n \in Int, -(Byte * Byte) <= 2 * n, 2 * n < Byte * Byte
  PROVE  scale(uasid, n % (Byte * Byte)) = n
<1> DEFINE W == Byte * Byte
<1>1. W \in Nat /\ W > 0
  BY WireAssumption
<1>2. CASE n >= 0
  <2>1. n % W = n
    <3> HIDE DEF W
    <3>1. n < W
      BY <1>1 DEF W
    <3> QED BY <1>1, <1>2, <3>1
  <2> QED BY <1>1, <1>2, <2>1 DEF scale
<1>3. CASE n < 0
  <2>1. n % W = n + W
    <3>1. n + W >= 0
      BY <1>1
    <3> HIDE DEF W
    <3> QED BY <1>1, <1>3, <3>1
  <2> QED BY <1>1, <1>3, <2>1 DEF scale
<1> QED BY <1>2, <1>3

\* Byte i of record n.
LEMMA NthByte ==
  ASSUME NEW records \in Seq(Records), NEW n \in 1 .. Len(records), NEW i \in 1 .. 9
  PROVE  encode_mode06(records)[9 * (n - 1) + i] = Nine(records[n])[i]
<1> DEFINE m == 9 * (n - 1) + i
<1>1. /\ m \in 1 .. 9 * Len(records) /\ Len(records) \in Nat
      /\ (m - 1) \div 9 = n - 1 /\ (m - 1) % 9 = i - 1
  OBVIOUS
<1>2. encode_mode06(records)[m] = Nine(records[1 + ((m - 1) \div 9)])[1 + ((m - 1) % 9)]
  BY <1>1 DEF encode_mode06
<1>3. 1 + ((m - 1) \div 9) = n /\ 1 + ((m - 1) % 9) = i
  BY <1>1
<1> QED BY <1>2, <1>3

\* What both decoders read of record n: its ids, its words, and how many records
\* there are.
LEMMA RecordsReadBack ==
  ASSUME NEW records \in Seq(Records)
  PROVE  LET bytes    == encode_mode06(records)
             at(n, i) == bytes[9 * (n - 1) + i]
             word(n, i) == Byte * at(n, i) + at(n, i + 1)
         IN  /\ Len(bytes) = 9 * Len(records) /\ Len(bytes) \div 9 = Len(records)
             /\ \A n \in 1 .. Len(records) :
                  /\ at(n, 1) = records[n].mid /\ at(n, 2) = records[n].tid
                  /\ at(n, 3) = records[n].uasid
                  /\ word(n, 4) = records[n].value
                  /\ word(n, 6) = records[n].min /\ word(n, 8) = records[n].max
<1> DEFINE bytes == encode_mode06(records)
           at(n, i)   == bytes[9 * (n - 1) + i]
           word(n, i) == Byte * at(n, i) + at(n, i + 1)
<1>1. Len(bytes) = 9 * Len(records) /\ Len(bytes) \div 9 = Len(records)
  <2>1. Len(records) \in Nat
    OBVIOUS
  <2>2. Len(bytes) = 9 * Len(records)
    BY <2>1 DEF encode_mode06
  <2> HIDE DEF bytes
  <2> QED BY <2>1, <2>2
<1>2. ASSUME NEW n \in 1 .. Len(records)
      PROVE  /\ at(n, 1) = records[n].mid /\ at(n, 2) = records[n].tid /\ at(n, 3) = records[n].uasid
             /\ word(n, 4) = records[n].value
             /\ word(n, 6) = records[n].min /\ word(n, 8) = records[n].max
  <2>1. records[n] \in Records
    OBVIOUS
  <2>2. \A i \in 1 .. 9 : at(n, i) = Nine(records[n])[i]
    BY NthByte
  <2> HIDE DEF bytes
  <2>3. /\ at(n, 1) = records[n].mid /\ at(n, 2) = records[n].tid /\ at(n, 3) = records[n].uasid
        /\ at(n, 4) = records[n].value \div Byte /\ at(n, 5) = records[n].value % Byte
        /\ at(n, 6) = records[n].min \div Byte /\ at(n, 7) = records[n].min % Byte
        /\ at(n, 8) = records[n].max \div Byte /\ at(n, 9) = records[n].max % Byte
    BY <2>2 DEF Nine
  <2>4. /\ records[n].value \in Words /\ records[n].min \in Words /\ records[n].max \in Words
    BY <2>1 DEF Records
  <2>5. \A w \in Words : Byte * (w \div Byte) + (w % Byte) = w
    BY WordRoundTrip
  <2> HIDE DEF at
  <2> QED BY <2>3, <2>4, <2>5
<1> QED BY <1>1, <1>2

\* The decoder finds the records that were encoded, with the same ids, and the same
\* verdict as the numbers themselves have.
THEOREM TestsRoundTrip ==
  ASSUME NEW records \in Seq(Records)
  PROVE  decode_mode06(encode_mode06(records)) =
           [n \in 1 .. Len(records) |->
              LET r       == records[n]
                  read(w) == scale(r.uasid, w)
              IN [mid |-> r.mid, tid |-> r.tid, uasid |-> r.uasid,
                  passed |-> read(r.min) <= read(r.value) /\ read(r.value) <= read(r.max)]]
<1> DEFINE bytes == encode_mode06(records)
           at(n, i)   == bytes[9 * (n - 1) + i]
           word(n, i) == scale(at(n, 3), Byte * at(n, i) + at(n, i + 1))
<1>1. Len(bytes) \div 9 = Len(records)
  BY RecordsReadBack
<1>2. ASSUME NEW n \in 1 .. Len(records)
      PROVE  LET r == records[n]
             IN  /\ at(n, 1) = r.mid /\ at(n, 2) = r.tid /\ at(n, 3) = r.uasid
                 /\ word(n, 4) = scale(r.uasid, r.value)
                 /\ word(n, 6) = scale(r.uasid, r.min)
                 /\ word(n, 8) = scale(r.uasid, r.max)
  BY RecordsReadBack
<1>3. decode_mode06(bytes) =
        [n \in 1 .. Len(records) |->
           [mid |-> at(n, 1), tid |-> at(n, 2), uasid |-> at(n, 3),
            passed |-> word(n, 6) <= word(n, 4) /\ word(n, 4) <= word(n, 8)]]
  <2> HIDE DEF bytes
  <2> QED BY <1>1 DEF decode_mode06
<1> DEFINE read(r, w) == scale(r.uasid, w)
           found(n)   == [mid |-> at(n, 1), tid |-> at(n, 2), uasid |-> at(n, 3),
                          passed |-> word(n, 6) <= word(n, 4) /\ word(n, 4) <= word(n, 8)]
           verdict(r) == [mid |-> r.mid, tid |-> r.tid, uasid |-> r.uasid,
                          passed |-> /\ read(r, r.min) <= read(r, r.value)
                                     /\ read(r, r.value) <= read(r, r.max)]
<1>4. ASSUME NEW n \in 1 .. Len(records) PROVE found(n) = verdict(records[n])
  <2> HIDE DEF bytes, at, word
  <2> QED BY <1>2
<1>5. decode_mode06(bytes) = [n \in 1 .. Len(records) |-> found(n)]
  BY <1>3
<1>6. [n \in 1 .. Len(records) |-> found(n)] = [n \in 1 .. Len(records) |-> verdict(records[n])]
  <2> HIDE DEF found, verdict
  <2> QED BY <1>4
<1>7. decode_mode06(bytes) = [n \in 1 .. Len(records) |-> verdict(records[n])]
  <2> HIDE DEF bytes, found, verdict
  <2> QED BY <1>5, <1>6
<1> HIDE DEF at, word, found
<1> QED BY <1>7

-----------------------------------------------------------------------------
(* What an ECU answers.                                                    *)

\* Identifiers are numbers, finitely many, and none is that of a group.
LEMMA IdsAreNumbers ==
  /\ Bases \in SUBSET Nat /\ 0 \in Bases
  /\ \A g \in 0 .. Groups - 1 : Group * g \in Bases
  /\ Ids \in SUBSET Nat /\ IsFiniteSet(Ids) /\ Ids \cap Bases = {}
  /\ \A x \in Ids : 0 < x /\ x < Group * Groups
<1>1. Bases \in SUBSET Nat /\ \A g \in 0 .. Groups - 1 : Group * g \in Bases
  BY WireAssumption DEF Bases
<1>2. 0 \in Bases
  <2>1. 0 \in 0 .. Groups - 1 /\ Group * 0 = 0
    BY WireAssumption
  <2> QED BY <1>1, <2>1
<1>3. ASSUME NEW x \in Ids
      PROVE  x \in Nat /\ 0 < x /\ x < Group * Groups /\ x \notin Bases
  <2>1. PICK i \in 0 .. Groups - 1, k \in 1 .. Group - 1 : x = Group * i + k
    BY DEF Ids, Bases
  <2>2. /\ i \in Nat /\ k \in Nat /\ Group \in Nat /\ Groups \in Nat /\ i + 1 <= Groups
        /\ 0 < k /\ k < Group
    BY WireAssumption
  <2>3. Group * i \in Nat /\ Group * (i + 1) = Group * i + Group
    BY <2>2
  <2>4. Group * (i + 1) <= Group * Groups
    <3>1. (i + 1) * Group <= Groups * Group
      BY <2>2, TimesMonotone
    <3> QED BY <2>2, <3>1
  <2>5. x \notin Bases
    <3> SUFFICES ASSUME NEW j \in 0 .. Groups - 1, x = Group * j PROVE FALSE
      BY DEF Bases
    <3>1. j \in Nat
      BY WireAssumption
    <3>2. CASE j <= i
      <4>1. j * Group <= i * Group
        BY <2>2, <3>1, <3>2, TimesMonotone
      <4>2. Group * j <= Group * i /\ Group * j \in Nat
        BY <2>2, <3>1, <4>1
      <4> QED BY <2>1, <2>2, <2>3, <4>2
    <3>3. CASE i + 1 <= j
      <4>1. (i + 1) * Group <= j * Group
        BY <2>2, <3>1, <3>3, TimesMonotone
      <4>2. Group * (i + 1) <= Group * j /\ Group * j \in Nat
        BY <2>2, <3>1, <4>1
      <4> QED BY <2>1, <2>2, <2>3, <4>2
    <3> QED BY <2>2, <3>1, <3>2, <3>3
  <2>6. Group * Groups \in Nat
    BY <2>2
  <2> QED BY <2>1, <2>2, <2>3, <2>4, <2>5, <2>6
<1>4. Ids \in SUBSET (0 .. Group * Groups)
  <2>1. Group * Groups \in Nat
    BY WireAssumption
  <2> QED BY <1>3, <2>1
<1>5. IsFiniteSet(Ids)
  <2>1. 0 \in Int /\ Group * Groups \in Int
    BY WireAssumption
  <2> QED BY <1>4, <2>1, FS_Interval, FS_Subset
<1> QED BY <1>1, <1>2, <1>3, <1>5

\* The identifiers of S in the group g, and below it.
InGroup(S, g) == {x \in S : Group * g <= x /\ x < Group * (g + 1)}
Below(S, g)   == {x \in S : x < Group * g}

\* A mask read out.
LEMMA GroupRead ==
  ASSUME NEW S \in SUBSET Ids, NEW g \in 0 .. Groups - 1
  PROVE  LET mask == support_mask(Group * g, S)
         IN  /\ supported_ids(Group * g, mask) = InGroup(S, g)
             /\ more_groups(mask) <=> \E x \in S : x >= Group * (g + 1)
<1> DEFINE base == Group * g
           mask == support_mask(base, S)
<1>1. base \in Nat /\ base \in Bases /\ S \in SUBSET Nat /\ base \notin S
  BY IdsAreNumbers
<1>2. Group * (g + 1) = base + Group /\ Group \in Nat
  BY WireAssumption
<1> HIDE DEF base
<1>3. /\ supported_ids(base, mask) = S \cap (base + 1 .. base + Group - 1)
      /\ more_groups(mask) <=> \E s \in S : s >= base + Group
  BY <1>1, MaskRoundTrip
<1>4. S \cap (base + 1 .. base + Group - 1) = {x \in S : base <= x /\ x < base + Group}
  <2>1. \A x \in S : x \in Nat /\ x # base
    BY <1>1
  <2>2. \A x \in S : x \in base + 1 .. base + Group - 1 <=> base <= x /\ x < base + Group
    BY <1>1, <1>2, <2>1
  <2> QED BY <2>2
<1> HIDE DEF mask
<1> QED BY <1>2, <1>3, <1>4 DEF InGroup, base, mask

\* What is below a group and what is in it is below the next; all is below the last.
LEMMA BelowNext ==
  ASSUME NEW S \in SUBSET Ids, NEW g \in Nat
  PROVE  /\ Below(S, g + 1) = Below(S, g) \cup InGroup(S, g)
         /\ Below(S, g) \cap InGroup(S, g) = {}
         /\ Below(S, Groups) = S /\ Below(S, 0) = {}
<1>1. S \in SUBSET Nat /\ \A x \in S : 0 < x /\ x < Group * Groups
  BY IdsAreNumbers
<1>2. Group * g \in Nat /\ Group * (g + 1) = Group * g + Group /\ Group \in Nat /\ Group * 0 = 0
  BY WireAssumption
<1>3. Group * Groups \in Nat
  BY WireAssumption
<1>4. Below(S, g + 1) = Below(S, g) \cup InGroup(S, g)
  <2>1. \A x \in S : x < Group * (g + 1) <=>
                    x < Group * g \/ (Group * g <= x /\ x < Group * (g + 1))
    BY <1>1, <1>2
  <2> QED BY <2>1 DEF Below, InGroup
<1>5. Below(S, g) \cap InGroup(S, g) = {}
  <2>1. \A x \in S : ~(x < Group * g /\ Group * g <= x)
    BY <1>1, <1>2
  <2> QED BY <2>1 DEF Below, InGroup
<1>6. Below(S, Groups) = S
  BY <1>1 DEF Below
<1>7. Below(S, 0) = {}
  <2>1. \A x \in S : ~(x < Group * 0)
    BY <1>1, <1>2
  <2> QED BY <2>1 DEF Below
<1> QED BY <1>4, <1>5, <1>6, <1>7

\* After the last group that a walk asks for there is nothing more.
LEMMA LastGroup ==
  ASSUME NEW S \in SUBSET Ids, NEW g \in 0 .. Groups - 1,
         ~(more_groups(support_mask(Group * g, S)) /\ AnotherGroup(g))
  PROVE  Below(S, g + 1) = S
<1>1. g \in Nat
  BY WireAssumption
<1>2. CASE ~AnotherGroup(g)
  <2>1. g + 1 = Groups
    BY <1>1, <1>2, WireAssumption DEF AnotherGroup
  <2> QED BY <1>1, <2>1, BelowNext
<1>3. CASE ~more_groups(support_mask(Group * g, S))
  <2>1. \A x \in S : ~(x >= Group * (g + 1))
    BY <1>3, GroupRead
  <2>2. Group * (g + 1) \in Nat /\ S \in SUBSET Nat
    BY <1>1, IdsAreNumbers, WireAssumption
  <2>3. \A x \in S : x < Group * (g + 1)
    BY <2>1, <2>2
  <2> QED BY <2>3 DEF Below
<1> QED BY <1>2, <1>3

\* Where the tests of one MID stand.
At(ecu, mid) == {i \in DOMAIN ecu.tests : ecu.tests[i].mid = mid}

\* They are the records with it.
LEMMA OfLists ==
  ASSUME NEW ecu, ecu.tests \in Seq(Records), NEW mid
  PROVE  LET at == At(ecu, mid)
         IN  /\ IsFiniteSet(at)
             /\ Of(ecu, mid) \in Seq(Records) /\ Len(Of(ecu, mid)) = Cardinality(at)
             /\ \A n \in DOMAIN Of(ecu, mid) : \E i \in at : Of(ecu, mid)[n] = ecu.tests[i]
             /\ \A i \in at : \E n \in DOMAIN Of(ecu, mid) : Of(ecu, mid)[n] = ecu.tests[i]
<1> DEFINE of == ecu.tests
           at == At(ecu, mid)
           q  == InOrder(at)
<1>1. /\ DOMAIN of = 1 .. Len(of) /\ Len(of) \in Nat
      /\ \A i \in DOMAIN of : of[i] \in Records
  OBVIOUS
<1> HIDE DEF of
<1>2. at \in SUBSET Nat /\ at \in SUBSET (1 .. Len(of))
  BY <1>1 DEF At, of
<1>3. IsFiniteSet(at)
  <2>1. IsFiniteSet(1 .. Len(of))
    BY <1>1, FS_Interval
  <2> HIDE DEF at
  <2> QED BY <1>2, <2>1, FS_Subset
<1>4. /\ q \in Seq(at) /\ DOMAIN q = 1 .. Cardinality(at)
      /\ {q[i] : i \in DOMAIN q} = at
  <2> HIDE DEF at
  <2> QED BY <1>2, <1>3, InOrderLists
<1>5. Cardinality(at) \in Nat
  BY <1>3, FS_CardinalityType
<1>6. Of(ecu, mid) = [n \in DOMAIN q |-> of[q[n]]]
  BY DEF Of, At, of
<1> HIDE DEF q
<1>7. \A n \in DOMAIN q : q[n] \in at
  BY <1>4
<1>8. \A i \in at : of[i] \in Records
  BY <1>1, <1>2
<1> HIDE DEF at
<1>9. Of(ecu, mid) \in [1 .. Cardinality(at) -> Records]
  BY <1>4, <1>6, <1>7, <1>8
<1>10. Of(ecu, mid) \in Seq(Records) /\ Len(Of(ecu, mid)) = Cardinality(at)
  BY <1>5, <1>9
<1>11. \A n \in DOMAIN q : Of(ecu, mid)[n] = of[q[n]]
  BY <1>6
<1>12. \A n \in DOMAIN Of(ecu, mid) : \E i \in at : Of(ecu, mid)[n] = of[i]
  BY <1>6, <1>7, <1>11
<1>13. \A i \in at : \E n \in DOMAIN Of(ecu, mid) : Of(ecu, mid)[n] = of[i]
  BY <1>4, <1>6, <1>11
<1> QED BY <1>3, <1>10, <1>12, <1>13 DEF at, of

\* Groups are answered with their masks, MIDs with their tests.
LEMMA Responds ==
  ASSUME NEW ecu, IsEcu(ecu)
  PROVE  /\ \A base \in Bases :
              /\ respond(ecu, "01", base) = GroupReply("01", base, ecu.pids)
              /\ respond(ecu, "06", base) = GroupReply("06", base, Mids(ecu))
         /\ \A ident \in Ids :
              /\ respond(ecu, "01", ident) = IF ident \in ecu.pids THEN Data("01", ident, <<>>) ELSE NoReply
              /\ respond(ecu, "06", ident) =
                   IF ident \in Mids(ecu) THEN Data("06", ident, encode_mode06(Of(ecu, ident))) ELSE NoReply
<1>1. ecu.pids \cap Bases = {} /\ Mids(ecu) \cap Bases = {}
  BY IdsAreNumbers DEF IsEcu
<1>2. Ids \cap Bases = {}
  BY IdsAreNumbers
<1>3. ASSUME NEW base \in Bases
      PROVE  /\ respond(ecu, "01", base) = GroupReply("01", base, ecu.pids)
             /\ respond(ecu, "06", base) = GroupReply("06", base, Mids(ecu))
  <2>1. base \notin ecu.pids /\ base \notin Mids(ecu)
    BY <1>1
  <2> QED BY <2>1 DEF respond
<1>4. ASSUME NEW ident \in Ids
      PROVE  /\ respond(ecu, "01", ident) = IF ident \in ecu.pids THEN Data("01", ident, <<>>) ELSE NoReply
             /\ respond(ecu, "06", ident) =
                  IF ident \in Mids(ecu) THEN Data("06", ident, encode_mode06(Of(ecu, ident))) ELSE NoReply
  <2>1. ident \notin Bases
    BY <1>2
  <2> QED BY <2>1 DEF respond
<1> QED BY <1>3, <1>4

\* To a MID that it has, an ECU answers with one test at least, and the others not
\* at all.
LEMMA MidAnswered ==
  ASSUME NEW ecu, IsEcu(ecu), NEW mid \in Ids
  PROVE  LET r == respond(ecu, "06", mid)
         IN  /\ HasTests(r) <=> mid \in Mids(ecu)
             /\ mid \in Mids(ecu) => r.bytes = encode_mode06(Of(ecu, mid))
<1> DEFINE r == respond(ecu, "06", mid)
           of == Of(ecu, mid)
<1>1. CASE mid \notin Mids(ecu)
  BY <1>1, Responds DEF HasTests, NoReply
<1>2. CASE mid \in Mids(ecu)
  <2>1. r = Data("06", mid, encode_mode06(of))
    BY <1>2, Responds
  <2>2. PICK i \in DOMAIN ecu.tests : ecu.tests[i].mid = mid
    BY <1>2 DEF Mids
  <2>3. \E n \in DOMAIN of : of[n] = ecu.tests[i]
    <3>1. ecu.tests \in Seq(Records)
      BY DEF IsEcu
    <3>2. \A j \in At(ecu, mid) : \E n \in DOMAIN of : of[n] = ecu.tests[j]
      BY <3>1, OfLists
    <3> QED BY <2>2, <3>2 DEF At
  <2>4. of \in Seq(Records)
    BY OfLists DEF IsEcu
  <2> HIDE DEF of
  <2>5. Len(of) \in Nat /\ Len(of) >= 1
    BY <2>3, <2>4
  <2>6. Len(encode_mode06(of)) = 9 * Len(of)
    BY <2>5 DEF encode_mode06
  <2> HIDE DEF r
  <2>7. r.service = "06" /\ r.bytes = encode_mode06(of)
    BY <2>1 DEF Data
  <2>8. HasTests(r)
    BY <2>5, <2>6, <2>7 DEF HasTests
  <2> QED BY <1>2, <2>7, <2>8 DEF r, of
<1> QED BY <1>1, <1>2

\* Replies that an exchange for monitor tests may hear of an ECU.
OfService06(ecu, r) == r = NoReply \/ \E ident \in Bases \cup Ids : r = respond(ecu, "06", ident)
=============================================================================
