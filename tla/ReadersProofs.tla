---------------------------- MODULE ReadersProofs ----------------------------
(***************************************************************************)
(* Theorems about Readers, for any ECUs, any vehicles whose identifiers    *)
(* and tests fit on the wire, any size of masks and bytes, and any replies *)
(* that come late or not at all.                                           *)
(*                                                                         *)
(* The harvest: Known says what a walk through the groups has found before *)
(* it asks for the next one, and that what the buffer still holds can only *)
(* be the mask of the group before; GroupWalked, that one round keeps it.  *)
(* CensusInv and TestsInv put this at each stage.                          *)
(*                                                                         *)
(* The client: a reply that comes astray has bits of a mask, and tests of  *)
(* this ECU if it is to service 06 (AstrayInv); WalkInv says how much of   *)
(* what the ECU supports a walk has found where it stands, and which of    *)
(* its tests, by the MIDs still to ask for.                                *)
(***************************************************************************)
EXTENDS Readers, Obd2WireProofs

-----------------------------------------------------------------------------
(* The census.                                                             *)

\* The result of a walk: for ECUs that there are, identifiers of all, none twice;
Part(map, all) ==
  /\ DOMAIN map \subseteq Ecus
  /\ \A e \in DOMAIN map :
       map[e] \in Seq(Ids) /\ IsInjective(map[e]) /\ ToSet(map[e]) \subseteq all[e]

\* all identifiers of every ECU.
Whole(map, all) == DOMAIN map = Ecus /\ \A e \in Ecus : ToSet(map[e]) = all[e]

AllBelow(all, g) == [e \in Ecus |-> Below(all[e], g)]

\* What a walk has found before it asks for group g.  A mask in the buffer, from
\* the exchange before, has not been entered yet.
Known(service, all, map, g, b) ==
  /\ Part(map, AllBelow(all, g))
  /\ \A e \in Ecus :
       \/ b[e].service # service
       \/ /\ g > 0
          /\ b[e] = Mask(service, Group * (g - 1), support_mask(Group * (g - 1), all[e]))
          /\ e \in DOMAIN map => ToSet(map[e]) \subseteq Below(all[e], g - 1)

\* It has found all that there is before group g.
WholeTo(all, map, g) == g > 0 => Whole(map, AllBelow(all, g))

\* The identifiers of a group are added to those of earlier ones.
LEMMA Entered ==
  ASSUME NEW S \in SUBSET Ids, NEW k \in 0 .. Groups - 1,
         NEW list \in Seq(Ids), IsInjective(list), ToSet(list) \subseteq Below(S, k)
  PROVE  LET new == list \o InOrder(supported_ids(Group * k, support_mask(Group * k, S)))
         IN  /\ new \in Seq(Ids) /\ IsInjective(new)
             /\ ToSet(new) = ToSet(list) \cup InGroup(S, k)
             /\ ToSet(new) \subseteq Below(S, k + 1)
<1> DEFINE found == InGroup(S, k)
           more == InOrder(found)
<1>1. supported_ids(Group * k, support_mask(Group * k, S)) = found
  BY GroupRead
<1>2. found \in SUBSET Ids /\ found \in SUBSET Nat /\ IsFiniteSet(found)
  <2>1. found \in SUBSET Ids
    BY DEF InGroup
  <2>2. Ids \in SUBSET Nat /\ IsFiniteSet(Ids)
    BY IdsAreNumbers
  <2> HIDE DEF found
  <2>3. IsFiniteSet(found)
    BY <2>1, <2>2, FS_Subset
  <2> QED BY <2>1, <2>2, <2>3
<1>3. k \in Nat
  BY WireAssumption
<1>4. Below(S, k + 1) = Below(S, k) \cup found /\ Below(S, k) \cap found = {}
  BY <1>3, BelowNext
<1> HIDE DEF found
<1>5. more \in Seq(Ids) /\ IsInjective(more) /\ ToSet(more) = found
  <2>1. more \in Seq(found) /\ IsInjective(more) /\ ToSet(more) = found
    BY <1>2, InOrderLists DEF IsInjective, ToSet
  <2> HIDE DEF more
  <2>2. more \in Seq(Ids)
    BY <1>2, <2>1, SeqMonotonic
  <2> QED BY <2>1, <2>2
<1> HIDE DEF more
<1>6. ToSet(list) \cap ToSet(more) = {}
  BY <1>4, <1>5
<1>7. /\ list \o more \in Seq(Ids) /\ IsInjective(list \o more)
      /\ ToSet(list \o more) = ToSet(list) \cup found
  BY <1>5, <1>6, Concatenated
<1> QED BY <1>1, <1>4, <1>7 DEF more, found

\* A group that an ECU is silent to is empty, and so are those after it.
LEMMA SilentGroup ==
  ASSUME NEW S \in SUBSET Ids, NEW g \in 0 .. Groups - 1, NEW service \in {"01", "06"}
  PROVE  \/ GroupReply(service, Group * g, S) = Mask(service, Group * g, support_mask(Group * g, S))
         \/ /\ GroupReply(service, Group * g, S) = NoReply
            /\ g > 0 /\ InGroup(S, g) = {} /\ Below(S, g + 1) = S
<1>1. g \in Nat /\ Group * g \in Nat /\ Group * (g + 1) = Group * g + Group /\ Group > 0
  BY WireAssumption
<1>2. S \in SUBSET Nat /\ Group * g \notin S
  BY IdsAreNumbers
<1>3. CASE Group * g = 0 \/ \E s \in S : s > Group * g
  BY <1>3 DEF GroupReply
<1>4. CASE ~(Group * g = 0 \/ \E s \in S : s > Group * g)
  <2>1. \A s \in S : s < Group * g
    BY <1>1, <1>2, <1>4
  <2>2. InGroup(S, g) = {}
    <3>1. \A s \in S : ~(Group * g <= s)
      BY <1>1, <1>2, <2>1
    <3> QED BY <3>1 DEF InGroup
  <2>3. Below(S, g + 1) = S
    <3>1. \A s \in S : s < Group * (g + 1)
      BY <1>1, <1>2, <2>1, WireAssumption
    <3> QED BY <3>1 DEF Below
  <2>4. g # 0
    BY <1>4, WireAssumption
  <2> QED BY <1>1, <1>4, <2>2, <2>3, <2>4 DEF GroupReply
<1> QED BY <1>3, <1>4

\* The identifiers of one ECU before group g is asked for, old, and what the buffer
\* has of it, b: nothing that is for this walk, or the mask of the group before.
Pending(service, S, g, old, b) ==
  /\ old \in Seq(Ids) /\ IsInjective(old) /\ ToSet(old) \subseteq Below(S, g)
  /\ \/ b.service # service
     \/ /\ g > 0
        /\ b = Mask(service, Group * (g - 1), support_mask(Group * (g - 1), S))
        /\ ToSet(old) \subseteq Below(S, g - 1)

\* h is what is heard of it then.
HeardAs(service, S, g, b, h) ==
  h = b \/ (b = NoReply /\ h = GroupReply(service, Group * g, S))

\* Its identifiers afterwards.
With(service, old, h) ==
  IF h.service = service THEN old \o InOrder(supported_ids(h.echo, h.mask)) ELSE old

\* They have grown as they may.
Grown(service, S, g, old, b, h, new) ==
  /\ new \in Seq(Ids) /\ IsInjective(new) /\ ToSet(new) \subseteq Below(S, g + 1)
  /\ h = b => ToSet(new) \subseteq Below(S, g)
  /\ h = GroupReply(service, Group * g, S) => ToSet(new) = ToSet(old) \cup InGroup(S, g)

\* One group of a walk, for one ECU.
LEMMA EcuEntered ==
  ASSUME NEW S \in SUBSET Ids, NEW g \in 0 .. Groups - 1, NEW service \in {"01", "06"},
         NEW old, NEW b, NEW h,
         Pending(service, S, g, old, b), HeardAs(service, S, g, b, h)
  PROVE  Grown(service, S, g, old, b, h, With(service, old, h))
<1> SUFFICES ASSUME NEW new,
                    new = IF h.service = service
                          THEN old \o InOrder(supported_ids(h.echo, h.mask)) ELSE old
             PROVE  /\ new \in Seq(Ids) /\ IsInjective(new) /\ ToSet(new) \subseteq Below(S, g + 1)
                    /\ h = b => ToSet(new) \subseteq Below(S, g)
                    /\ h = GroupReply(service, Group * g, S) =>
                         ToSet(new) = ToSet(old) \cup InGroup(S, g)
  BY DEF With, Grown
<1> USE DEF Pending, HeardAs
<1> DEFINE reply == GroupReply(service, Group * g, S)
<1>1. g \in Nat
  BY WireAssumption
<1>2. Below(S, g + 1) = Below(S, g) \cup InGroup(S, g)
  BY <1>1, BelowNext
<1>3. \/ /\ reply = Mask(service, Group * g, support_mask(Group * g, S))
         /\ reply.service = service /\ reply.echo = Group * g
      \/ reply = NoReply /\ reply.service = "none" /\ InGroup(S, g) = {}
  <2>1. \/ reply = Mask(service, Group * g, support_mask(Group * g, S))
        \/ reply = NoReply /\ InGroup(S, g) = {}
    BY SilentGroup
  <2> HIDE DEF reply
  <2> QED BY <2>1 DEF Mask, NoReply
<1> HIDE DEF reply
<1>4. CASE h.service # service
  <2>1. new = old
    BY <1>4
  <2>2. h = reply => InGroup(S, g) = {}
    BY <1>3, <1>4
  <2> QED BY <1>2, <2>1, <2>2 DEF reply
<1>5. CASE h.service = service /\ b = NoReply
  <2>1. h # b /\ h = reply
    BY <1>5 DEF NoReply, reply
  <2>2. h = Mask(service, Group * g, support_mask(Group * g, S))
    BY <1>3, <1>5, <2>1
  <2>3. new = old \o InOrder(supported_ids(Group * g, support_mask(Group * g, S)))
    BY <1>5, <2>2 DEF Mask
  <2> QED BY <2>1, <2>3, Entered
<1>6. CASE h.service = service /\ b # NoReply
  <2>1. /\ g > 0 /\ h = Mask(service, Group * (g - 1), support_mask(Group * (g - 1), S))
        /\ ToSet(old) \subseteq Below(S, g - 1)
    BY <1>6
  <2>2. g - 1 \in 0 .. Groups - 1 /\ g - 1 \in Nat /\ g - 1 + 1 = g
    BY <1>1, <2>1, WireAssumption
  <2>3. new = old \o InOrder(supported_ids(Group * (g - 1), support_mask(Group * (g - 1), S)))
    BY <1>6, <2>1 DEF Mask
  <2>4. new \in Seq(Ids) /\ IsInjective(new) /\ ToSet(new) \subseteq Below(S, g)
    <3>1. ToSet(new) \subseteq Below(S, g - 1 + 1) /\ new \in Seq(Ids) /\ IsInjective(new)
      BY <2>1, <2>2, <2>3, Entered
    <3> QED BY <2>2, <3>1
  <2>5. h # reply
    <3>1. h.echo = Group * (g - 1) /\ h.service = service
      BY <2>1 DEF Mask
    <3>2. Group * (g - 1) # Group * g
      BY <1>1, WireAssumption
    <3> QED BY <1>3, <3>1, <3>2
  <2> QED BY <1>2, <2>4, <2>5 DEF reply
<1> QED BY <1>4, <1>5, <1>6

\* Of what is heard, h, the replies that can be decoded.
Got(service, h) == [e \in {f \in Ecus : h[f].service = service} |-> h[e]]

\* h is what is heard, and b2 what is left in the buffer, after group g has been
\* asked for, with b in the buffer and the ECUs of late late.
Round(service, all, g, b, late, h, b2) ==
  /\ \A e \in Ecus : h[e] = IF b[e] # NoReply THEN b[e] ELSE IF e \in late THEN NoReply
                            ELSE GroupReply(service, Group * g, all[e])
  /\ \A e \in Ecus : b2[e] = NoReply \/ (e \in late /\ b2[e] = GroupReply(service, Group * g, all[e]))

\* Every ECU is heard.
AllHeard(service, all, g, h) == \A e \in Ecus : h[e] = GroupReply(service, Group * g, all[e])

\* One group of a walk, for all ECUs.
THEOREM GroupWalked ==
  ASSUME NEW service \in {"01", "06"}, NEW all \in [Ecus -> SUBSET Ids],
         NEW g \in 0 .. Groups - 1,
         NEW b, NEW map, Known(service, all, map, g, b),
         NEW late, NEW h, NEW b2, Round(service, all, g, b, late, h, b2)
  PROVE  LET got == Got(service, h)
             new == Collect(map, got)
         IN  /\ Known(service, all, new, g + 1, b2)
             /\ (WholeTo(all, map, g) /\ AllHeard(service, all, g, h))
                  => /\ WholeTo(all, new, g + 1)
                     /\ ~(Further(got) /\ AnotherGroup(g)) => Whole(new, all)
<1> DEFINE got    == Got(service, h)
           new    == Collect(map, got)
           old(e) == IF e \in DOMAIN map THEN map[e] ELSE <<>>
           now(e) == With(service, old(e), h[e])
           reply(e) == GroupReply(service, Group * g, all[e])
<1>1. g \in Nat /\ g + 1 > 0 /\ g + 1 - 1 = g
  BY WireAssumption
<1>2. DOMAIN map \subseteq Ecus
  BY DEF Known, Part
<1>3. ASSUME NEW e \in Ecus
      PROVE  Pending(service, all[e], g, old(e), b[e])
  <2>1. e \notin DOMAIN map => old(e) \in Seq(Ids) /\ IsInjective(old(e)) /\ ToSet(old(e)) = {}
    BY DEF IsInjective, ToSet
  <2>2. e \in DOMAIN map =>
          map[e] \in Seq(Ids) /\ IsInjective(map[e]) /\ ToSet(map[e]) \subseteq Below(all[e], g)
    BY DEF Known, Part, AllBelow
  <2>3. \/ b[e].service # service
        \/ /\ g > 0
           /\ b[e] = Mask(service, Group * (g - 1), support_mask(Group * (g - 1), all[e]))
           /\ e \in DOMAIN map => ToSet(map[e]) \subseteq Below(all[e], g - 1)
    BY DEF Known
  <2> QED BY <2>1, <2>2, <2>3 DEF Pending
<1>4. ASSUME NEW e \in Ecus
      PROVE  /\ now(e) \in Seq(Ids) /\ IsInjective(now(e)) /\ ToSet(now(e)) \subseteq Below(all[e], g + 1)
             /\ e \in late => ToSet(now(e)) \subseteq Below(all[e], g)
             /\ h[e] = reply(e) => ToSet(now(e)) = ToSet(old(e)) \cup InGroup(all[e], g)
  <2>1. all[e] \in SUBSET Ids
    OBVIOUS
  <2>2. HeardAs(service, all[e], g, b[e], h[e]) /\ (e \in late => h[e] = b[e])
    BY DEF HeardAs, Round
  <2>3. Pending(service, all[e], g, old(e), b[e])
    BY <1>3
  <2> HIDE DEF old
  <2>4. /\ now(e) \in Seq(Ids) /\ IsInjective(now(e)) /\ ToSet(now(e)) \subseteq Below(all[e], g + 1)
        /\ h[e] = b[e] => ToSet(now(e)) \subseteq Below(all[e], g)
        /\ h[e] = GroupReply(service, Group * g, all[e]) =>
             ToSet(now(e)) = ToSet(old(e)) \cup InGroup(all[e], g)
    <3>1. Grown(service, all[e], g, old(e), b[e], h[e], With(service, old(e), h[e]))
      BY <2>1, <2>2, <2>3, EcuEntered
    <3> QED BY <3>1 DEF Grown
  <2> QED BY <2>2, <2>4
<1>5. DOMAIN got = {f \in Ecus : h[f].service = service} /\ \A e \in DOMAIN got : got[e] = h[e]
  BY DEF Got
<1> HIDE DEF got
<1>6. DOMAIN new = DOMAIN map \cup DOMAIN got
  BY DEF Collect
<1>7. \A e \in DOMAIN new : new[e] = now(e)
  <2> SUFFICES ASSUME NEW e \in DOMAIN new PROVE new[e] = now(e)
    OBVIOUS
  <2>1. e \in Ecus
    BY <1>2, <1>5, <1>6
  <2>2. new[e] = old(e) \o (IF e \in DOMAIN got THEN InOrder(supported_ids(got[e].echo, got[e].mask)) ELSE <<>>)
    BY <1>6 DEF Collect
  <2>3. old(e) \o <<>> = old(e)
    <3> HIDE DEF old
    <3> QED BY <1>3, <2>1, ConcatEmptySeq DEF Pending
  <2> HIDE DEF old
  <2> QED BY <1>5, <2>1, <2>2, <2>3 DEF With
<1> HIDE DEF new, now, old
<1>8. Part(new, AllBelow(all, g + 1))
  BY <1>2, <1>4, <1>5, <1>6, <1>7 DEF Part, AllBelow
<1>9. ASSUME NEW e \in Ecus
      PROVE  \/ b2[e].service # service
             \/ /\ b2[e] = Mask(service, Group * g, support_mask(Group * g, all[e]))
                /\ e \in DOMAIN new => ToSet(new[e]) \subseteq Below(all[e], g)
  <2>1. CASE b2[e] = NoReply
    BY <2>1 DEF NoReply
  <2>2. CASE e \in late /\ b2[e] = reply(e)
    <3>1. e \in DOMAIN new => ToSet(new[e]) \subseteq Below(all[e], g)
      BY <1>4, <1>7, <2>2
    <3>2. reply(e) = NoReply \/ reply(e) = Mask(service, Group * g, support_mask(Group * g, all[e]))
      BY SilentGroup
    <3> HIDE DEF reply
    <3> QED BY <2>2, <3>1, <3>2 DEF NoReply
  <2> QED BY <2>1, <2>2 DEF reply, Round
<1>10. ASSUME WholeTo(all, map, g), AllHeard(service, all, g, h)
       PROVE  /\ DOMAIN new = Ecus
              /\ \A e \in Ecus : h[e] = reply(e) /\ ToSet(new[e]) = Below(all[e], g + 1)
  <2>1. \A e \in Ecus : h[e] = reply(e)
    BY <1>10 DEF AllHeard
  <2>3. ASSUME NEW e \in Ecus PROVE e \in DOMAIN new /\ ToSet(old(e)) = Below(all[e], g)
    <3>1. CASE g > 0
      <4>1. DOMAIN map = Ecus /\ ToSet(map[e]) = Below(all[e], g)
        BY <1>10, <3>1 DEF WholeTo, Whole, AllBelow
      <4> QED BY <1>6, <4>1 DEF old
    <3>2. CASE g = 0
      <4>1. Below(all[e], g) = {}
        BY <1>1, <3>2, BelowNext
      <4>2. reply(e) = Mask(service, Group * g, support_mask(Group * g, all[e]))
        <5>1. all[e] \in SUBSET Ids /\ ~(g > 0)
          BY <3>2
        <5> QED BY <5>1, SilentGroup
      <4>3. h[e].service = service
        BY <2>1, <4>2 DEF Mask
      <4>4. ToSet(old(e)) \subseteq Below(all[e], g)
        BY <1>3 DEF Pending
      <4> QED BY <1>5, <1>6, <4>1, <4>3, <4>4
    <3> QED BY <1>1, <3>1, <3>2
  <2>4. ASSUME NEW e \in Ecus PROVE ToSet(new[e]) = Below(all[e], g + 1)
    <3>1. Below(all[e], g + 1) = Below(all[e], g) \cup InGroup(all[e], g)
      BY <1>1, BelowNext
    <3> QED BY <1>4, <1>7, <2>1, <2>3, <3>1
  <2>5. DOMAIN new = Ecus
    BY <1>2, <1>5, <1>6, <2>3
  <2> QED BY <2>1, <2>4, <2>5
<1>11. Known(service, all, new, g + 1, b2)
  BY <1>1, <1>8, <1>9 DEF Known
<1>12. ASSUME WholeTo(all, map, g), AllHeard(service, all, g, h)
       PROVE  WholeTo(all, new, g + 1)
  BY <1>10, <1>12 DEF WholeTo, Whole, AllBelow
<1>13. ASSUME WholeTo(all, map, g), AllHeard(service, all, g, h), ~(Further(got) /\ AnotherGroup(g)) PROVE Whole(new, all)
  <2>1. ASSUME NEW e \in Ecus PROVE Below(all[e], g + 1) = all[e]
    <3>1. all[e] \in SUBSET Ids
      OBVIOUS
    <3>2. CASE reply(e) = Mask(service, Group * g, support_mask(Group * g, all[e]))
      <4>1. h[e].service = service /\ h[e].mask = support_mask(Group * g, all[e])
        BY <1>10, <1>13, <3>2 DEF Mask
      <4>2. ~(more_groups(support_mask(Group * g, all[e])) /\ AnotherGroup(g))
        BY <1>5, <1>13, <4>1 DEF Further
      <4> QED BY <3>1, <4>2, LastGroup
    <3>3. CASE reply(e) # Mask(service, Group * g, support_mask(Group * g, all[e]))
      BY <3>1, <3>3, SilentGroup
    <3> QED BY <3>2, <3>3
  <2> QED BY <1>10, <1>13, <2>1 DEF Whole
<1> QED BY <1>11, <1>12, <1>13 DEF new, got

-----------------------------------------------------------------------------
(* The walks of the harvest.                                               *)

Pids    == [e \in Ecus |-> vehicle[e].pids]
AllMids == [e \in Ecus |-> Mids(vehicle[e])]

\* A vehicle has an ECU at each address.
LEMMA VehicleHasEcus ==
  ASSUME vehicle \in Vehicles
  PROVE  /\ DOMAIN vehicle = Ecus /\ \A e \in Ecus : IsEcu(vehicle[e])
         /\ Pids \in [Ecus -> SUBSET Ids] /\ AllMids \in [Ecus -> SUBSET Ids]
<1>1. DOMAIN vehicle = Ecus /\ \A e \in Ecus : IsEcu(vehicle[e])
  BY HarvestAssumption
<1>2. \A e \in Ecus : vehicle[e].pids \in SUBSET Ids /\ Mids(vehicle[e]) \in SUBSET Ids
  BY <1>1 DEF IsEcu
<1> QED BY <1>1, <1>2 DEF Pids, AllMids

\* What stays in the buffer.
LEMMA Stays ==
  ASSUME NEW service, NEW ident, NEW late, Stay(service, ident, late)
  PROVE  /\ DOMAIN behind' = Ecus
         /\ clearable => \A e \in Ecus : behind'[e] = NoReply
         /\ \A e \in Ecus : behind'[e] = NoReply
                            \/ (e \in late /\ behind'[e] = Reply(e, service, ident))
BY DEF Stay

\* One step of a walk, of the action.
LEMMA Walked ==
  ASSUME NEW service \in {"01", "06"}, NEW all \in [Ecus -> SUBSET Ids],
         group \in 0 .. Groups - 1, missed \in BOOLEAN,
         \A e \in Ecus : Reply(e, service, Base) = GroupReply(service, Base, all[e]),
         NEW map, NEW newmap, NEW this, NEW next,
         Known(service, all, map, group, behind), ~missed => WholeTo(all, map, group),
         Walk(service, map, newmap, this, next)
  PROVE  /\ DOMAIN behind' = Ecus /\ (clearable => \A e \in Ecus : behind'[e] = NoReply)
         /\ \A e \in Ecus : behind'[e] = NoReply \/ behind'[e] = Reply(e, service, Base)
         /\ missed' \in BOOLEAN /\ (missed => missed')
         /\ Known(service, all, newmap, group + 1, behind')
         /\ ~missed' => WholeTo(all, newmap, group + 1)
         /\ \/ group' = group + 1 /\ group' \in 0 .. Groups - 1 /\ stage' = this
            \/ group' = 0 /\ stage' = next /\ (~missed' => Whole(newmap, all))
<1>1. PICK late \in SUBSET Ecus :
        LET heard == {e \in Ecus : Heard(e, service, Base, late) # NoReply}
            got   == [e \in {f \in heard : Masked(Heard(f, service, Base, late), service)} |->
                        Heard(e, service, Base, late)]
        IN
        /\ AskAll(service, Base, late)
        /\ newmap = Collect(map, got)
        /\ IF Further(got) /\ AnotherGroup(group)
           THEN group' = group + 1 /\ stage' = this
           ELSE group' = 0 /\ stage' = next
  BY DEF Walk
<1> DEFINE h   == [e \in Ecus |-> Heard(e, service, Base, late)]
           got == Got(service, h)
<1>2. got = [e \in {f \in {e \in Ecus : Heard(e, service, Base, late) # NoReply} :
                          Masked(Heard(f, service, Base, late), service)} |->
                Heard(e, service, Base, late)]
  <2>1. {f \in Ecus : h[f].service = service}
          = {f \in {e \in Ecus : Heard(e, service, Base, late) # NoReply} :
                   Masked(Heard(f, service, Base, late), service)}
    BY DEF Masked, NoReply
  <2> QED BY <2>1 DEF Got
<1>3. /\ AskAll(service, Base, late) /\ newmap = Collect(map, got)
      /\ IF Further(got) /\ AnotherGroup(group)
         THEN group' = group + 1 /\ stage' = this ELSE group' = 0 /\ stage' = next
  BY <1>1, <1>2
<1>4. /\ Stay(service, Base, late)
      /\ missed' = (missed \/ \E e \in Ecus : Heard(e, service, Base, late) # Reply(e, service, Base))
  BY <1>3 DEF AskAll
<1>5. /\ DOMAIN behind' = Ecus /\ (clearable => \A e \in Ecus : behind'[e] = NoReply)
      /\ \A e \in Ecus : behind'[e] = NoReply \/ (e \in late /\ behind'[e] = Reply(e, service, Base))
  BY <1>4, Stays
<1>6. /\ missed' \in BOOLEAN /\ (missed => missed')
      /\ missed' <=> (missed \/ \E e \in Ecus : h[e] # GroupReply(service, Group * group, all[e]))
  BY <1>4 DEF Base
<1>7. Round(service, all, group, behind, late, h, behind')
  <2>1. \A e \in Ecus : h[e] = IF behind[e] # NoReply THEN behind[e] ELSE IF e \in late THEN NoReply
                             ELSE GroupReply(service, Group * group, all[e])
    BY DEF Heard, Base
  <2>2. \A e \in Ecus : behind'[e] = NoReply
                        \/ (e \in late /\ behind'[e] = GroupReply(service, Group * group, all[e]))
    BY <1>5 DEF Base
  <2> QED BY <2>1, <2>2 DEF Round
<1>8. ~missed' => ~missed /\ AllHeard(service, all, group, h)
  BY <1>6 DEF AllHeard
<1> DEFINE new == Collect(map, got)
<1>9. /\ Known(service, all, new, group + 1, behind')
      /\ (WholeTo(all, map, group) /\ AllHeard(service, all, group, h))
           => /\ WholeTo(all, new, group + 1)
              /\ ~(Further(got) /\ AnotherGroup(group)) => Whole(new, all)
  <2> HIDE DEF h
  <2> QED BY <1>7, GroupWalked
<1> HIDE DEF got
<1>10. AnotherGroup(group) => group + 1 \in 0 .. Groups - 1
  BY WireAssumption DEF AnotherGroup
<1> QED BY <1>3, <1>5, <1>6, <1>8, <1>9, <1>10

\* Types of what the census is made with.
CensusTypes ==
  /\ vehicle \in Vehicles /\ clearable \in BOOLEAN
  /\ DOMAIN behind = Ecus /\ (clearable => \A e \in Ecus : behind[e] = NoReply)
  /\ stage \in Stages /\ group \in 0 .. Groups - 1
  /\ vin \in Ecus \cup {None} /\ mil \in Ecus \cup {None}
  /\ missed \in BOOLEAN

\* What is known of the census at each stage.
CensusInv ==
  /\ CensusTypes
  /\ Part(pid_map, Pids) /\ Part(mid_map, AllMids)
  /\ stage = "vin" => group = 0 /\ pid_map = Nothing
  /\ stage = "mil" => group = 0
  /\ stage \in {"vin", "pids", "mil"} => mid_map = Nothing
  /\ stage = "pids" => /\ Known("01", Pids, pid_map, group, behind)
                       /\ ~missed => WholeTo(Pids, pid_map, group)
  /\ stage = "mids" => /\ Known("06", AllMids, mid_map, group, behind)
                       /\ ~missed => WholeTo(AllMids, mid_map, group)
  /\ (stage \in {"mil", "mids", "tests", "done"} /\ ~missed) => Whole(pid_map, Pids)
  /\ (stage \in {"tests", "done"} /\ ~missed) => Whole(mid_map, AllMids)

\* Before the first group nothing is known.
LEMMA NothingKnown ==
  ASSUME NEW service, NEW all, NEW b, \A e \in Ecus : b[e].service # service
  PROVE  /\ Known(service, all, Nothing, 0, b) /\ WholeTo(all, Nothing, 0)
         /\ Part(Nothing, all)
BY DEF Known, WholeTo, Part, Nothing

\* What is known of some is part of all.
LEMMA KnownIsPart ==
  ASSUME NEW service, NEW all, NEW map, NEW g, NEW b, Known(service, all, map, g, b)
  PROVE  Part(map, all)
BY DEF Known, Part, AllBelow, Below

\* An exchange with one ECU leaves behind what belongs to its service.
LEMMA AskLeaves ==
  ASSUME NEW service \in {"09", "01"}, NEW ident, NEW who, Ask(service, ident, who)
  PROVE  /\ DOMAIN behind' = Ecus /\ (clearable => \A e \in Ecus : behind'[e] = NoReply)
         /\ \A e \in Ecus : behind'[e].service \in {service, "none"}
<1>1. PICK late : Stay(service, ident, late)
  BY DEF Ask
<1>2. \A e \in Ecus : respond(vehicle[e], service, ident).service \in {service, "none"}
  BY DEF respond, GroupReply, Mask, Data, NoReply
<1>3. /\ DOMAIN behind' = Ecus /\ (clearable => \A e \in Ecus : behind'[e] = NoReply)
      /\ \A e \in Ecus : behind'[e] = NoReply \/ behind'[e] = Reply(e, service, ident)
  BY <1>1, Stays
<1> QED BY <1>2, <1>3 DEF Reply, NoReply

\* The probe may have left a mask of the first group in the buffer, but the VIN is
\* asked for before the walk begins.
LEMMA CensusInit == HarvestInit => CensusInv
<1> SUFFICES ASSUME HarvestInit PROVE CensusInv
  OBVIOUS
<1>1. CensusTypes
  <2>1. /\ vehicle \in Vehicles /\ clearable \in BOOLEAN /\ stage = "vin" /\ group = 0
        /\ vin = None /\ mil = None /\ missed = FALSE
    BY DEF HarvestInit
  <2>2. DOMAIN behind = Ecus /\ (clearable => \A e \in Ecus : behind[e] = NoReply)
    BY DEF HarvestInit
  <2>3. 0 \in 0 .. Groups - 1
    BY WireAssumption
  <2> QED BY <2>1, <2>2, <2>3 DEF CensusTypes, Stages
<1>2. Part(Nothing, Pids) /\ Part(Nothing, AllMids)
  BY DEF Part, Nothing
<1> QED BY <1>1, <1>2 DEF HarvestInit, CensusInv

\* Every step of the harvest keeps CensusInv.
LEMMA CensusStep == CensusInv /\ (HarvestNext \/ UNCHANGED hvars) => CensusInv'
<1> SUFFICES ASSUME CensusInv, HarvestNext \/ UNCHANGED hvars PROVE CensusInv'
  OBVIOUS
<1> USE DEF CensusInv
<1>0. vehicle \in Vehicles /\ stage \in Stages /\ group \in 0 .. Groups - 1 /\ missed \in BOOLEAN
  BY DEF CensusTypes
<1>1. CASE UNCHANGED hvars
  <2>1. /\ vehicle' = vehicle /\ clearable' = clearable /\ behind' = behind /\ stage' = stage
        /\ group' = group /\ pid_map' = pid_map /\ mid_map' = mid_map
        /\ vin' = vin /\ mil' = mil /\ missed' = missed
    BY <1>1 DEF hvars
  <2>2. CensusTypes'
    BY <2>1 DEF CensusTypes
  <2>3. Pids' = Pids /\ AllMids' = AllMids
    BY <2>1 DEF Pids, AllMids
  <2> QED BY <2>1, <2>2, <2>3
<1>2. CASE read_vin
  <2>1. PICK who \in Ecus \cup {None} : Ask("09", 2, who) /\ vin' = who
    BY <1>2 DEF read_vin
  <2>2. /\ DOMAIN behind' = Ecus /\ (clearable => \A e \in Ecus : behind'[e] = NoReply)
        /\ \A e \in Ecus : behind'[e].service \in {"09", "none"}
    BY <2>1, AskLeaves
  <2>3. CensusTypes'
    BY <1>2, <2>1, <2>2 DEF read_vin, CensusTypes, Stages
  <2>4. Known("01", Pids, Nothing, 0, behind') /\ WholeTo(Pids, Nothing, 0)
    BY <2>2, NothingKnown
  <2>5. Pids' = Pids /\ AllMids' = AllMids
    BY <1>2 DEF read_vin, Pids, AllMids
  <2>6. /\ stage = "vin" /\ stage' = "pids"
        /\ pid_map' = pid_map /\ mid_map' = mid_map /\ group' = group /\ missed' = missed
    BY <1>2 DEF read_vin
  <2>7. Known("01", Pids', pid_map', group', behind') /\ WholeTo(Pids', pid_map', group')
    BY <2>4, <2>5, <2>6
  <2> QED BY <2>3, <2>5, <2>6, <2>7 DEF Part
<1>3. CASE walk_pids
  <2>1. stage = "pids" /\ Walk("01", pid_map, pid_map', "pids", AfterCensus(pid_map'))
    BY <1>3 DEF walk_pids
  <2>2. Pids \in [Ecus -> SUBSET Ids] /\ \A e \in Ecus : Reply(e, "01", Base) = GroupReply("01", Base, Pids[e])
    <3>1. /\ Pids \in [Ecus -> SUBSET Ids] /\ \A e \in Ecus : IsEcu(vehicle[e])
      BY <1>0, VehicleHasEcus
    <3>2. Base \in Bases
      BY <1>0, IdsAreNumbers DEF Base
    <3> QED BY <3>1, <3>2, Responds DEF Reply, Pids
  <2>3. /\ DOMAIN behind' = Ecus /\ (clearable => \A e \in Ecus : behind'[e] = NoReply)
        /\ missed' \in BOOLEAN /\ (missed => missed')
        /\ Known("01", Pids, pid_map', group + 1, behind')
        /\ ~missed' => WholeTo(Pids, pid_map', group + 1)
        /\ \/ group' = group + 1 /\ group' \in 0 .. Groups - 1 /\ stage' = "pids"
           \/ group' = 0 /\ stage' = AfterCensus(pid_map') /\ (~missed' => Whole(pid_map', Pids))
    BY <1>0, <2>1, <2>2, Walked
  <2>4. vehicle' = vehicle /\ clearable' = clearable /\ mid_map' = mid_map /\ vin' = vin /\ mil' = mil
    BY <1>3 DEF walk_pids
  <2>5. AfterCensus(pid_map') \in {"nobody", "mil"}
    BY DEF AfterCensus
  <2>6. CensusTypes'
    BY <2>3, <2>4, <2>5, WireAssumption DEF CensusTypes, Stages
  <2>7. Pids' = Pids /\ AllMids' = AllMids /\ Part(pid_map', Pids)
    BY <2>3, <2>4, KnownIsPart DEF Pids, AllMids
  <2>8. mid_map = Nothing
    BY <2>1
  <2>9. CASE stage' = "pids" /\ group' = group + 1
    BY <2>3, <2>4, <2>6, <2>7, <2>8, <2>9
  <2>10. CASE stage' \in {"nobody", "mil"} /\ group' = 0 /\ (~missed' => Whole(pid_map', Pids))
    BY <2>4, <2>6, <2>7, <2>8, <2>10
  <2> QED BY <2>3, <2>5, <2>9, <2>10
<1>4. CASE read_mil
  <2>1. PICK who \in Ecus \cup {None} : Ask("01", 1, who) /\ mil' = who
    BY <1>4 DEF read_mil
  <2>2. /\ DOMAIN behind' = Ecus /\ (clearable => \A e \in Ecus : behind'[e] = NoReply)
        /\ \A e \in Ecus : behind'[e].service \in {"01", "none"}
    BY <2>1, AskLeaves
  <2>3. CensusTypes'
    BY <1>4, <2>1, <2>2 DEF read_mil, CensusTypes, Stages
  <2>4. Known("06", AllMids, Nothing, 0, behind') /\ WholeTo(AllMids, Nothing, 0)
    BY <2>2, NothingKnown
  <2>5. Pids' = Pids /\ AllMids' = AllMids
    BY <1>4 DEF read_mil, Pids, AllMids
  <2>6. /\ stage = "mil" /\ stage' = "mids"
        /\ pid_map' = pid_map /\ mid_map' = mid_map /\ group' = group /\ missed' = missed
    BY <1>4 DEF read_mil
  <2>7. Known("06", AllMids', mid_map', group', behind') /\ WholeTo(AllMids', mid_map', group')
    BY <2>4, <2>5, <2>6
  <2> QED BY <2>3, <2>5, <2>6, <2>7
<1>5. CASE walk_mids
  <2>1. stage = "mids" /\ Walk("06", mid_map, mid_map', "mids", "tests")
    BY <1>5 DEF walk_mids
  <2>2. AllMids \in [Ecus -> SUBSET Ids] /\ \A e \in Ecus : Reply(e, "06", Base) = GroupReply("06", Base, AllMids[e])
    <3>1. /\ AllMids \in [Ecus -> SUBSET Ids] /\ \A e \in Ecus : IsEcu(vehicle[e])
      BY <1>0, VehicleHasEcus
    <3>2. Base \in Bases
      BY <1>0, IdsAreNumbers DEF Base
    <3> QED BY <3>1, <3>2, Responds DEF Reply, AllMids
  <2>3. /\ DOMAIN behind' = Ecus /\ (clearable => \A e \in Ecus : behind'[e] = NoReply)
        /\ missed' \in BOOLEAN /\ (missed => missed')
        /\ Known("06", AllMids, mid_map', group + 1, behind')
        /\ ~missed' => WholeTo(AllMids, mid_map', group + 1)
        /\ \/ group' = group + 1 /\ group' \in 0 .. Groups - 1 /\ stage' = "mids"
           \/ group' = 0 /\ stage' = "tests" /\ (~missed' => Whole(mid_map', AllMids))
    BY <1>0, <2>1, <2>2, Walked
  <2>4. vehicle' = vehicle /\ clearable' = clearable /\ pid_map' = pid_map /\ vin' = vin /\ mil' = mil
    BY <1>5 DEF walk_mids
  <2>5. CensusTypes'
    BY <2>3, <2>4, WireAssumption DEF CensusTypes, Stages
  <2>6. Pids' = Pids /\ AllMids' = AllMids /\ Part(mid_map', AllMids)
    BY <2>3, <2>4, KnownIsPart DEF Pids, AllMids
  <2>7. ~missed' => Whole(pid_map, Pids)
    BY <2>1, <2>3
  <2> QED BY <2>3, <2>4, <2>5, <2>6, <2>7
<1>6. CASE harvest_mid
  <2>1. PICK e, mid, late : AskAll("06", mid, late)
    BY <1>6 DEF harvest_mid
  <2>2. missed' \in BOOLEAN /\ (missed => missed')
    BY <1>0, <2>1 DEF AskAll
  <2>3. DOMAIN behind' = Ecus /\ (clearable => \A f \in Ecus : behind'[f] = NoReply)
    BY <2>1, Stays DEF AskAll
  <2>4. /\ stage = "tests" /\ vehicle' = vehicle /\ clearable' = clearable /\ stage' = stage /\ group' = group
        /\ pid_map' = pid_map /\ mid_map' = mid_map /\ vin' = vin /\ mil' = mil
    BY <1>6 DEF harvest_mid
  <2>5. CensusTypes'
    BY <2>2, <2>3, <2>4 DEF CensusTypes
  <2>6. Pids' = Pids /\ AllMids' = AllMids
    BY <2>4 DEF Pids, AllMids
  <2> QED BY <2>2, <2>4, <2>5, <2>6
<1>7. CASE harvest_returns \/ DeviceLost
  <2>1. /\ vehicle' = vehicle /\ clearable' = clearable /\ group' = group /\ behind' = behind
        /\ pid_map' = pid_map /\ mid_map' = mid_map /\ vin' = vin /\ mil' = mil /\ missed' = missed
        /\ \/ stage = "tests" /\ stage' = "done"
           \/ stage' = "lost"
    BY <1>7 DEF harvest_returns, DeviceLost
  <2>2. CensusTypes'
    BY <2>1 DEF CensusTypes, Stages
  <2>3. Pids' = Pids /\ AllMids' = AllMids
    BY <2>1 DEF Pids, AllMids
  <2> QED BY <2>1, <2>2, <2>3
<1> QED BY <1>1, <1>2, <1>3, <1>4, <1>5, <1>6, <1>7 DEF HarvestNext

\* What is known of the census at the end is what is wanted of it.
LEMMA CensusIsRight == CensusInv => CensusRight
<1> SUFFICES ASSUME CensusInv PROVE CensusRight
  OBVIOUS
<1>1. ASSUME NEW map, NEW all, Part(map, all), NEW e \in Ecus PROVE Asked(map, e) \subseteq all[e]
  BY <1>1 DEF Part, Asked, ToSet
<1>2. ASSUME NEW map, NEW all, Part(map, all) PROVE NoneTwice(map)
  BY <1>2 DEF Part, NoneTwice, IsInjective
<1>3. ASSUME NEW map, NEW all, Whole(map, all), NEW e \in Ecus
      PROVE  e \in DOMAIN map /\ Asked(map, e) = all[e]
  BY <1>3 DEF Whole, Asked, ToSet
<1>4. \A e \in Ecus : Pids[e] = vehicle[e].pids /\ AllMids[e] = Mids(vehicle[e])
  BY DEF Pids, AllMids
<1>5. Part(pid_map, Pids) /\ Part(mid_map, AllMids)
  BY DEF CensusInv
<1>6. (stage = "done" /\ ~missed) => Whole(pid_map, Pids) /\ Whole(mid_map, AllMids)
  BY DEF CensusInv
<1>7. \A e \in Ecus : Asked(pid_map, e) \subseteq Pids[e] /\ Asked(mid_map, e) \subseteq AllMids[e]
  BY <1>1, <1>5
<1>8. NoneTwice(pid_map) /\ NoneTwice(mid_map)
  BY <1>2, <1>5
<1>9. ASSUME stage = "done", ~missed, NEW e \in Ecus
      PROVE  /\ e \in DOMAIN pid_map /\ Asked(pid_map, e) = Pids[e]
             /\ Asked(mid_map, e) = AllMids[e]
  BY <1>3, <1>6, <1>9
<1> QED BY <1>4, <1>7, <1>8, <1>9 DEF CensusRight

-----------------------------------------------------------------------------
(* The monitor tests.                                                      *)

Results ==
  [mid : 0 .. Byte - 1, tid : 0 .. Byte - 1, uasid : 0 .. Byte - 1, passed : BOOLEAN]

\* The ECU has this test, with this verdict (if the table has the id).
Told(one, t) ==
  \E i \in DOMAIN one.tests :
    IF one.tests[i].uasid \in Scaled THEN t = Verdict(one.tests[i])
    ELSE [t EXCEPT !.passed = TRUE] = [Verdict(one.tests[i]) EXCEPT !.passed = TRUE]

\* What is decoded is what the ECU has.
LEMMA DecodedIsTold ==
  ASSUME NEW one, IsEcu(one), NEW mid
  PROVE  LET d == decode_mode06(encode_mode06(Of(one, mid)))
         IN  /\ d \in Seq(Results) /\ Len(d) = Cardinality(At(one, mid))
             /\ \A n \in DOMAIN d : Told(one, d[n])
<1> DEFINE of == Of(one, mid)
           d  == decode_mode06(encode_mode06(of))
           found(r) == [mid |-> r.mid, tid |-> r.tid, uasid |-> r.uasid,
                        passed |-> /\ scale(r.uasid, r.min) <= scale(r.uasid, r.value)
                                   /\ scale(r.uasid, r.value) <= scale(r.uasid, r.max)]
<1>1. /\ of \in Seq(Records) /\ Len(of) = Cardinality(At(one, mid))
      /\ \A n \in DOMAIN of : \E i \in At(one, mid) : of[n] = one.tests[i]
  <2>1. one.tests \in Seq(Records)
    BY DEF IsEcu
  <2> QED BY <2>1, OfLists
<1> HIDE DEF of
<1>2. d = [n \in 1 .. Len(of) |-> found(of[n])]
  BY <1>1, TestsRoundTrip
<1>3. ASSUME NEW r \in Records
      PROVE  /\ found(r) \in Results
             /\ IF r.uasid \in Scaled THEN found(r) = Verdict(r)
                ELSE [found(r) EXCEPT !.passed = TRUE] = [Verdict(r) EXCEPT !.passed = TRUE]
  <2>1. r.mid \in 0 .. Byte - 1 /\ r.tid \in 0 .. Byte - 1 /\ r.uasid \in 0 .. Byte - 1
    BY DEF Records
  <2>2. found(r) \in Results
    BY <2>1 DEF Results
  <2>3. CASE r.uasid \in Scaled
    <3>1. /\ scale(r.uasid, r.min) = Signed(r.uasid, r.min)
          /\ scale(r.uasid, r.value) = Signed(r.uasid, r.value)
          /\ scale(r.uasid, r.max) = Signed(r.uasid, r.max)
      BY <2>3 DEF scale, Signed
    <3>2. found(r) = Verdict(r)
      BY <3>1, Zenon DEF Verdict
    <3> QED BY <2>2, <2>3, <3>2
  <2>4. CASE r.uasid \notin Scaled
    <3> DEFINE shown == [mid |-> r.mid, tid |-> r.tid, uasid |-> r.uasid, passed |-> TRUE]
    <3>0. ASSUME NEW v \in Results, v.mid = r.mid, v.tid = r.tid, v.uasid = r.uasid
          PROVE  [v EXCEPT !.passed = TRUE] = shown
      <4> DEFINE x == [v EXCEPT !.passed = TRUE]
      <4>1. x \in Results
        BY DEF Results
      <4>2. x.mid = v.mid /\ x.tid = v.tid /\ x.uasid = v.uasid /\ x.passed = TRUE
        BY DEF Results
      <4> HIDE DEF x
      <4>3. x = [mid |-> x.mid, tid |-> x.tid, uasid |-> x.uasid, passed |-> x.passed]
        BY <4>1 DEF Results
      <4>4. x = shown
        BY <3>0, <4>2, <4>3
      <4> QED BY <4>4 DEF x
    <3>1. [found(r) EXCEPT !.passed = TRUE] = shown
      <4> HIDE DEF shown
      <4> QED BY <2>2, <3>0
    <3>2. [Verdict(r) EXCEPT !.passed = TRUE] = shown
      <4> DEFINE v == Verdict(r)
      <4>1. v \in Results /\ v.mid = r.mid /\ v.tid = r.tid /\ v.uasid = r.uasid
        BY <2>1 DEF Results, Verdict
      <4> HIDE DEF shown, v
      <4>2. [v EXCEPT !.passed = TRUE] = shown
        BY <3>0, <4>1
      <4> QED BY <4>2 DEF v
    <3> QED BY <2>2, <2>4, <3>1, <3>2
  <2> QED BY <2>3, <2>4
<1> HIDE DEF found
<1>4. \A n \in 1 .. Len(of) : of[n] \in Records
  BY <1>1
<1> HIDE DEF d
<1>5. Len(of) \in Nat
  BY <1>1
<1>6. d \in Seq(Results) /\ Len(d) = Len(of) /\ DOMAIN d = 1 .. Len(of)
  <2>1. d \in [1 .. Len(of) -> Results]
    BY <1>2, <1>3, <1>4
  <2> QED BY <1>5, <2>1
<1>7. ASSUME NEW n \in DOMAIN d PROVE Told(one, d[n])
  <2>1. d[n] = found(of[n]) /\ of[n] \in Records /\ n \in DOMAIN of
    BY <1>1, <1>2, <1>4, <1>6
  <2>2. PICK i \in At(one, mid) : of[n] = one.tests[i]
    BY <1>1, <2>1
  <2>3. i \in DOMAIN one.tests
    BY DEF At
  <2> QED BY <1>3, <2>1, <2>2, <2>3 DEF Told
<1> QED BY <1>1, <1>6, <1>7 DEF d, of

\* Which of the tests of an ECU are to be asked for: each MID of each ECU of the
\* census once.
LEMMA AsksEachOnce ==
  ASSUME DOMAIN pid_map \subseteq Ecus, NEW map, NEW all, Part(map, all)
  PROVE  /\ MidsToAsk(map) \in Seq(Ecus \X Ids) /\ IsInjective(MidsToAsk(map))
         /\ \A e \in Ecus : \A mid :
              <<e, mid>> \in ToSet(MidsToAsk(map)) <=>
                e \in DOMAIN pid_map \cap DOMAIN map /\ mid \in ToSet(map[e])
<1> DEFINE D       == DOMAIN pid_map
           n       == Cardinality(D)
           order   == InOrder(D)
           mids(e) == IF e \in DOMAIN map THEN sorted(map[e]) ELSE <<>>
           list(e) == [j \in DOMAIN mids(e) |-> <<e, mids(e)[j]>>]
           seqs    == [i \in 1 .. n |-> list(order[i])]
<1>1. MidsToAsk(map) = FlattenSeq(seqs)
  BY DEF MidsToAsk
<1>2. ASSUME NEW e \in Ecus
      PROVE  /\ mids(e) \in Seq(Ids) /\ IsInjective(mids(e))
             /\ ToSet(mids(e)) = IF e \in DOMAIN map THEN ToSet(map[e]) ELSE {}
  <2>1. CASE e \in DOMAIN map
    <3>1. map[e] \in Seq(Ids) /\ IsInjective(map[e])
      BY <2>1 DEF Part
    <3>2. map[e] \in Seq(Nat)
      BY <3>1, IdsAreNumbers, SeqMonotonic
    <3>3. /\ sorted(map[e]) \in Seq(Nat) /\ ToSet(sorted(map[e])) = ToSet(map[e])
          /\ IsInjective(sorted(map[e]))
      BY <3>1, <3>2, SortedKeeps
    <3>4. \A x \in ToSet(map[e]) : x \in Ids
      BY <3>1 DEF ToSet
    <3>5. \A j \in DOMAIN sorted(map[e]) : sorted(map[e])[j] \in Ids
      BY <3>3, <3>4 DEF ToSet
    <3>6. sorted(map[e]) \in Seq(Ids)
      BY <3>3, <3>5
    <3> QED BY <2>1, <3>3, <3>6
  <2>2. CASE e \notin DOMAIN map
    BY <2>2 DEF IsInjective, ToSet
  <2> QED BY <2>1, <2>2
<1> HIDE DEF mids
<1>3. ASSUME NEW e \in Ecus
      PROVE  /\ list(e) \in Seq(Ecus \X Ids) /\ IsInjective(list(e))
             /\ \A x : x \in ToSet(list(e)) <=> \E mid \in ToSet(mids(e)) : x = <<e, mid>>
  <2>1. mids(e) \in Seq(Ids) /\ IsInjective(mids(e))
    BY <1>2
  <2>2. DOMAIN mids(e) = 1 .. Len(mids(e)) /\ Len(mids(e)) \in Nat
        /\ \A j \in DOMAIN mids(e) : mids(e)[j] \in Ids
    BY <2>1
  <2>3. list(e) \in Seq(Ecus \X Ids)
    BY <2>2
  <2>4. IsInjective(list(e))
    BY <2>1 DEF IsInjective
  <2>5. \A x : x \in ToSet(list(e)) <=> \E mid \in ToSet(mids(e)) : x = <<e, mid>>
    BY DEF ToSet
  <2> QED BY <2>3, <2>4, <2>5
<1>4. /\ n \in Nat /\ order \in Seq(D) /\ DOMAIN order = 1 .. n
      /\ \A i, j \in 1 .. n : order[i] = order[j] => i = j
      /\ {order[i] : i \in 1 .. n} = D
  <2>1. D \in SUBSET Nat /\ IsFiniteSet(D)
    BY FS_Subset, HarvestAssumption
  <2> HIDE DEF D
  <2>2. n \in Nat
    BY <2>1, FS_CardinalityType
  <2> QED BY <2>1, <2>2, InOrderLists
<1>5. \A i \in 1 .. n : order[i] \in D /\ order[i] \in Ecus
  BY <1>4
<1> HIDE DEF list, n, order
<1>6. seqs \in Seq(Seq(Ecus \X Ids)) /\ DOMAIN seqs = 1 .. n
      /\ \A i \in 1 .. n : seqs[i] = list(order[i])
  <2>1. DOMAIN seqs = 1 .. n /\ \A i \in 1 .. n : seqs[i] = list(order[i])
    OBVIOUS
  <2>2. \A i \in 1 .. n : list(order[i]) \in Seq(Ecus \X Ids)
    BY <1>3, <1>5
  <2>3. n \in Nat
    BY <1>4
  <2>4. seqs \in [1 .. n -> Seq(Ecus \X Ids)]
    BY <2>2
  <2> HIDE DEF seqs
  <2>5. seqs \in Seq(Seq(Ecus \X Ids))
    BY <2>3, <2>4
  <2> QED BY <2>1, <2>5
<1>7. \A i \in DOMAIN seqs : IsInjective(seqs[i])
  BY <1>3, <1>5, <1>6
<1>8. ASSUME NEW i \in DOMAIN seqs, NEW j \in DOMAIN seqs, i # j
      PROVE  ToSet(seqs[i]) \cap ToSet(seqs[j]) = {}
  <2>1. order[i] # order[j] /\ order[i] \in Ecus /\ order[j] \in Ecus
    BY <1>4, <1>5, <1>6, <1>8
  <2>2. seqs[i] = list(order[i]) /\ seqs[j] = list(order[j])
    BY <1>6
  <2>3. ASSUME NEW x \in ToSet(seqs[i]), x \in ToSet(seqs[j]) PROVE FALSE
    <3>1. PICK m1 : x = <<order[i], m1>>
      BY <1>3, <2>1, <2>2
    <3>2. PICK m2 : x = <<order[j], m2>>
      BY <1>3, <2>1, <2>2, <2>3
    <3> QED BY <2>1, <3>1, <3>2
  <2> QED BY <2>3
<1>9. \A i \in DOMAIN seqs : seqs[i] = list(order[i])
  <2> HIDE DEF seqs
  <2> QED BY <1>6
<1> HIDE DEF seqs
<1>10. /\ FlattenSeq(seqs) \in Seq(Ecus \X Ids) /\ IsInjective(FlattenSeq(seqs))
       /\ \A x : x \in ToSet(FlattenSeq(seqs)) <=> \E i \in DOMAIN seqs : x \in ToSet(seqs[i])
  BY <1>6, <1>7, <1>8, FlattenKeeps
<1>11. ASSUME NEW e \in Ecus, NEW mid
       PROVE  <<e, mid>> \in ToSet(FlattenSeq(seqs)) <=>
                e \in DOMAIN pid_map \cap DOMAIN map /\ mid \in ToSet(map[e])
  <2>1. ASSUME NEW i \in DOMAIN seqs, <<e, mid>> \in ToSet(seqs[i])
        PROVE  e \in D /\ mid \in ToSet(mids(e))
    <3>1. <<e, mid>> \in ToSet(list(order[i])) /\ order[i] \in Ecus /\ order[i] \in D
      BY <1>5, <1>6, <1>9, <2>1
    <3>2. PICK m \in ToSet(mids(order[i])) : <<e, mid>> = <<order[i], m>>
      BY <1>3, <3>1
    <3> QED BY <3>1, <3>2
  <2>2. ASSUME e \in D, mid \in ToSet(mids(e))
        PROVE  \E i \in DOMAIN seqs : <<e, mid>> \in ToSet(seqs[i])
    <3>1. PICK i \in 1 .. n : order[i] = e
      BY <1>4, <2>2
    <3>2. <<e, mid>> \in ToSet(list(e))
      BY <1>3, <2>2
    <3> QED BY <1>6, <1>9, <3>1, <3>2
  <2>3. mid \in ToSet(mids(e)) <=> e \in DOMAIN map /\ mid \in ToSet(map[e])
    BY <1>2
  <2> QED BY <1>10, <2>1, <2>2, <2>3
<1> QED BY <1>1, <1>10, <1>11

\* What is taken from a reply.
TestsOf(r) == IF HasTests(r) THEN decode_mode06(r.bytes) ELSE <<>>

\* What is taken from such a reply, if anything, are tests of the ECU; from the
\* reply to a MID, all of that MID.
LEMMA TakenIsTold ==
  ASSUME NEW one, IsEcu(one), NEW r, OfService06(one, r)
  PROVE  /\ TestsOf(r) \in Seq(Results)
         /\ \A n \in DOMAIN TestsOf(r) : Told(one, TestsOf(r)[n])
         /\ \A mid \in Ids : r = respond(one, "06", mid) => Len(TestsOf(r)) = Cardinality(At(one, mid))
<1>1. ASSUME ~HasTests(r)
      PROVE  /\ TestsOf(r) \in Seq(Results) /\ Len(TestsOf(r)) = 0
             /\ \A n \in DOMAIN TestsOf(r) : Told(one, TestsOf(r)[n])
  BY <1>1 DEF TestsOf
<1>2. ASSUME NEW mid \in Ids, mid \notin Mids(one) PROVE Cardinality(At(one, mid)) = 0
  <2>1. At(one, mid) = {}
    BY <1>2 DEF At, Mids
  <2> QED BY <2>1, FS_EmptySet
<1>3. ASSUME NEW mid \in Ids, r = respond(one, "06", mid)
      PROVE  /\ TestsOf(r) \in Seq(Results) /\ Len(TestsOf(r)) = Cardinality(At(one, mid))
             /\ \A n \in DOMAIN TestsOf(r) : Told(one, TestsOf(r)[n])
  <2>1. /\ HasTests(r) <=> mid \in Mids(one)
        /\ mid \in Mids(one) => r.bytes = encode_mode06(Of(one, mid))
    BY <1>3, MidAnswered
  <2>2. CASE mid \in Mids(one)
    <3>1. TestsOf(r) = decode_mode06(encode_mode06(Of(one, mid)))
      BY <2>1, <2>2 DEF TestsOf
    <3> QED BY <3>1, DecodedIsTold
  <2>3. CASE mid \notin Mids(one)
    BY <1>1, <1>2, <2>1, <2>3
  <2> QED BY <2>2, <2>3
<1>4. ASSUME NEW ident \in Bases, r = respond(one, "06", ident) PROVE ~HasTests(r)
  <2>1. r = GroupReply("06", ident, Mids(one))
    BY <1>4, Responds
  <2>2. r.bytes = <<>>
    BY <2>1 DEF GroupReply, Mask, NoReply
  <2> QED BY <2>2 DEF HasTests
<1>5. r = NoReply => ~HasTests(r)
  BY DEF HasTests, NoReply
<1>6. \A n \in DOMAIN TestsOf(r) : Told(one, TestsOf(r)[n])
  BY <1>1, <1>3, <1>4, <1>5 DEF OfService06
<1>7. TestsOf(r) \in Seq(Results)
  BY <1>1, <1>3, <1>4, <1>5 DEF OfService06
<1> QED BY <1>3, <1>6, <1>7

\* The head of a list without duplicates is not in the tail.
LEMMA TailOfOnce ==
  ASSUME NEW T, NEW list \in Seq(T), list # <<>>, IsInjective(list)
  PROVE  /\ Head(list) \in T /\ Tail(list) \in Seq(T) /\ IsInjective(Tail(list))
         /\ Head(list) \in ToSet(list) /\ ToSet(Tail(list)) = ToSet(list) \ {Head(list)}
<1>1. /\ Len(list) \in Nat /\ Len(list) > 0 /\ DOMAIN list = 1 .. Len(list)
      /\ Head(list) = list[1] /\ Head(list) \in T /\ Tail(list) \in Seq(T)
      /\ Len(Tail(list)) = Len(list) - 1 /\ DOMAIN Tail(list) = 1 .. Len(list) - 1
      /\ \A i \in 1 .. Len(list) - 1 : Tail(list)[i] = list[i + 1]
  OBVIOUS
<1> DEFINE tail == Tail(list)
<1> HIDE DEF tail
<1>2. /\ tail \in Seq(T) /\ DOMAIN tail = 1 .. Len(list) - 1
      /\ \A i \in 1 .. Len(list) - 1 : tail[i] = list[i + 1] /\ i + 1 \in DOMAIN list
  BY <1>1 DEF tail
<1>3. IsInjective(tail)
  <2> SUFFICES ASSUME NEW i \in DOMAIN tail, NEW j \in DOMAIN tail, tail[i] = tail[j] PROVE i = j
    BY DEF IsInjective
  <2>1. i + 1 = j + 1
    BY <1>2 DEF IsInjective
  <2> QED BY <1>1, <1>2, <2>1
<1>4. Head(list) \in ToSet(list)
  BY <1>1 DEF ToSet
<1>5. ASSUME NEW x \in ToSet(tail) PROVE x \in ToSet(list) /\ x # Head(list)
  <2>1. PICK i \in DOMAIN tail : x = tail[i]
    BY DEF ToSet
  <2>2. x = list[i + 1] /\ i + 1 \in DOMAIN list /\ i + 1 # 1 /\ 1 \in DOMAIN list
    BY <1>1, <1>2, <2>1
  <2> QED BY <1>1, <2>2 DEF IsInjective, ToSet
<1>6. ASSUME NEW x \in ToSet(list), x # Head(list) PROVE x \in ToSet(tail)
  <2>1. PICK i \in DOMAIN list : x = list[i]
    BY DEF ToSet
  <2>2. i - 1 \in DOMAIN tail /\ tail[i - 1] = list[i - 1 + 1] /\ i - 1 + 1 = i
    BY <1>1, <1>2, <1>6, <2>1
  <2> QED BY <2>1, <2>2 DEF ToSet
<1> QED BY <1>1, <1>3, <1>4, <1>5, <1>6 DEF tail

\* The tests of an ECU that are not to be asked for any more.
Over(e, list) == {i \in DOMAIN vehicle[e].tests : <<e, vehicle[e].tests[i].mid>> \notin ToSet(list)}

\* What is known of the tests at each stage.
TestsInv ==
  /\ todo \in Seq(Ecus \X Ids) /\ IsInjective(todo)
  /\ DOMAIN tests = Ecus
  /\ \A e \in Ecus : /\ tests[e] \in Seq(Results)
                     /\ \A i \in DOMAIN tests[e] : Told(vehicle[e], tests[e][i])
  /\ stage \in {"vin", "pids", "mil", "mids"} => todo = <<>> /\ \A e \in Ecus : tests[e] = <<>>
  /\ stage = "tests" => \A e \in Ecus : OfService06(vehicle[e], behind[e])
  /\ (stage = "tests" /\ ~missed) => \A e \in Ecus : Len(tests[e]) = Cardinality(Over(e, todo))
  /\ (stage = "done" /\ ~missed) => \A e \in Ecus : Len(tests[e]) = Len(vehicle[e].tests)

\* There are no tests before the first is asked for.
LEMMA TestsInit == HarvestInit => TestsInv
<1> SUFFICES ASSUME HarvestInit PROVE TestsInv
  OBVIOUS
<1>1. stage = "vin" /\ todo = <<>> /\ tests = [e \in Ecus |-> <<>>]
  BY DEF HarvestInit
<1>2. \A e \in Ecus : tests[e] = <<>>
  BY <1>1
<1>3. <<>> \in Seq(Ecus \X Ids) /\ IsInjective(<<>>) /\ <<>> \in Seq(Results) /\ DOMAIN <<>> = {}
  BY DEF IsInjective
<1> QED BY <1>1, <1>2, <1>3 DEF TestsInv

\* Every step of the harvest keeps TestsInv: the tests of a MID are added when it
\* goes from the list.
LEMMA TestsStep ==
  CensusInv /\ CensusInv' /\ TestsInv /\ (HarvestNext \/ UNCHANGED hvars) => TestsInv'
<1> SUFFICES ASSUME CensusInv, CensusInv', TestsInv, HarvestNext \/ UNCHANGED hvars
             PROVE  TestsInv'
  OBVIOUS
<1>0. /\ vehicle \in Vehicles /\ stage \in Stages /\ group \in 0 .. Groups - 1 /\ missed \in BOOLEAN
      /\ \A e \in Ecus : IsEcu(vehicle[e])
  BY VehicleHasEcus DEF CensusInv, CensusTypes
<1> USE DEF TestsInv
<1>1. CASE UNCHANGED hvars
  <2>1. /\ vehicle' = vehicle /\ behind' = behind /\ stage' = stage /\ todo' = todo
        /\ tests' = tests /\ missed' = missed
    BY <1>1 DEF hvars
  <2>2. \A e \in Ecus : Over(e, todo)' = Over(e, todo)
    BY <2>1 DEF Over
  <2> QED BY <2>1, <2>2
<1>2. CASE read_vin \/ walk_pids \/ read_mil
  <2>1. /\ vehicle' = vehicle /\ todo' = todo /\ tests' = tests
        /\ stage \in {"vin", "pids", "mil"}
        /\ stage' \in {"pids", "nobody", "mil", "mids"}
    BY <1>2 DEF read_vin, walk_pids, read_mil, Walk, AfterCensus
  <2> QED BY <2>1
<1>3. CASE walk_mids
  <2>1. /\ stage = "mids" /\ Walk("06", mid_map, mid_map', "mids", "tests")
        /\ todo' = IF stage' = "tests" THEN MidsToAsk(mid_map') ELSE todo
        /\ vehicle' = vehicle /\ pid_map' = pid_map /\ tests' = tests
    BY <1>3 DEF walk_mids
  <2>2. stage' \in {"mids", "tests"}
    BY <2>1 DEF Walk
  <2>3. CASE stage' = "mids"
    BY <2>1, <2>3
  <2>4. CASE stage' = "tests"
    <3>1. DOMAIN pid_map \subseteq Ecus
      BY DEF CensusInv, Part
    <3>2. Part(mid_map', AllMids')
      BY DEF CensusInv
    <3>3. /\ todo' \in Seq(Ecus \X Ids) /\ IsInjective(todo')
          /\ \A e \in Ecus : \A mid :
               <<e, mid>> \in ToSet(todo') <=>
                 e \in DOMAIN pid_map \cap DOMAIN mid_map' /\ mid \in ToSet(mid_map'[e])
      <4>1. todo' = MidsToAsk(mid_map')
        BY <2>1, <2>4
      <4> QED BY <3>1, <3>2, <4>1, AsksEachOnce
    <3>4. \A e \in Ecus : tests'[e] = <<>>
      BY <2>1
    <3>5. ASSUME NEW e \in Ecus PROVE OfService06(vehicle'[e], behind'[e])
      <4>1. \E late : Stay("06", Base, late)
        BY <2>1 DEF Walk, AskAll
      <4>2. behind'[e] = NoReply \/ behind'[e] = Reply(e, "06", Base)
        BY <4>1, Stays
      <4>3. Base \in Bases
        BY <1>0, IdsAreNumbers DEF Base
      <4> QED BY <2>1, <4>2, <4>3 DEF OfService06, Reply
    <3>6. ASSUME ~missed', NEW e \in Ecus PROVE Len(tests'[e]) = Cardinality(Over(e, todo)')
      <4>1. Whole(pid_map', Pids') /\ Whole(mid_map', AllMids')
        BY <2>4, <3>6 DEF CensusInv
      <4>2. DOMAIN pid_map = Ecus /\ DOMAIN mid_map' = Ecus /\ ToSet(mid_map'[e]) = Mids(vehicle[e])
        BY <2>1, <4>1 DEF Whole, AllMids
      <4>3. \A i \in DOMAIN vehicle[e].tests : <<e, vehicle[e].tests[i].mid>> \in ToSet(todo')
        BY <3>3, <4>2 DEF Mids
      <4>4. Over(e, todo)' = {}
        BY <2>1, <4>3 DEF Over
      <4> QED BY <3>4, <4>4, FS_EmptySet
    <3> QED BY <2>1, <2>4, <3>3, <3>4, <3>5, <3>6
  <2> QED BY <2>2, <2>3, <2>4
<1>4. CASE harvest_mid
  <2>1. /\ Head(todo) \in Ecus \X Ids /\ Tail(todo) \in Seq(Ecus \X Ids) /\ IsInjective(Tail(todo))
        /\ Head(todo) \in ToSet(todo) /\ ToSet(Tail(todo)) = ToSet(todo) \ {Head(todo)}
    BY <1>4, TailOfOnce DEF harvest_mid
  <2>2. PICK e \in Ecus, mid \in Ids : Head(todo) = <<e, mid>>
    BY <2>1
  <2>3. /\ stage = "tests" /\ todo # <<>> /\ todo' = Tail(todo) /\ vehicle' = vehicle /\ stage' = stage
    BY <1>4 DEF harvest_mid
  <2>4. PICK late \in SUBSET Ecus :
             /\ AskAll("06", mid, late)
             /\ tests' = [tests EXCEPT ![e] = @ \o TestsOf(Heard(e, "06", mid, late))]
    <3>1. Head(todo)[1] = e /\ Head(todo)[2] = mid
      BY <2>2
    <3>2. \E late \in SUBSET Ecus :
             /\ AskAll("06", Head(todo)[2], late)
             /\ tests' = [tests EXCEPT ![Head(todo)[1]] =
                            @ \o TestsOf(Heard(Head(todo)[1], "06", Head(todo)[2], late))]
      BY <1>4, Zenon DEF harvest_mid, TestsOf
    <3> QED BY <3>1, <3>2
  <2> DEFINE r == Heard(e, "06", mid, late)
  <2>5. /\ \A f \in Ecus : OfService06(vehicle[f], Reply(f, "06", mid))
        /\ \A f \in Ecus : OfService06(vehicle[f], NoReply)
    BY <2>2 DEF OfService06, Reply
  <2>6. OfService06(vehicle[e], r)
    BY <2>3, <2>2, <2>5 DEF Heard
  <2>7. \A f \in Ecus : OfService06(vehicle[f], behind'[f])
    <3>1. Stay("06", mid, late)
      BY <2>4 DEF AskAll
    <3>2. \A f \in Ecus : behind'[f] = NoReply \/ behind'[f] = Reply(f, "06", mid)
      BY <3>1, Stays
    <3> QED BY <2>5, <3>2
  <2> HIDE DEF r
  <2>8. /\ TestsOf(r) \in Seq(Results)
        /\ \A n \in DOMAIN TestsOf(r) : Told(vehicle[e], TestsOf(r)[n])
        /\ r = respond(vehicle[e], "06", mid) =>
             Len(TestsOf(r)) = Cardinality(At(vehicle[e], mid))
    BY <1>0, <2>2, <2>6, TakenIsTold
  <2> DEFINE new == TestsOf(r)
  <2>9. tests' = [tests EXCEPT ![e] = tests[e] \o new]
    BY <2>4 DEF r
  <2> HIDE DEF new
  <2>10. /\ tests'[e] = tests[e] \o new /\ DOMAIN tests' = Ecus
         /\ \A f \in Ecus \ {e} : tests'[f] = tests[f]
    BY <2>2, <2>9
  <2>11. tests[e] \o new \in Seq(Results) /\ Len(tests[e] \o new) = Len(tests[e]) + Len(new)
         /\ \A i \in DOMAIN (tests[e] \o new) : Told(vehicle[e], (tests[e] \o new)[i])
    <3>1. /\ tests[e] \in Seq(Results) /\ new \in Seq(Results)
          /\ \A i \in DOMAIN tests[e] : Told(vehicle[e], tests[e][i])
          /\ \A i \in DOMAIN new : Told(vehicle[e], new[i])
      BY <2>2, <2>8 DEF new
    <3>2. tests[e] \o new \in Seq(Results) /\ Len(tests[e] \o new) = Len(tests[e]) + Len(new)
          /\ ToSet(tests[e] \o new) = ToSet(tests[e]) \cup ToSet(new)
      BY <3>1, Concatenated
    <3>3. \A t \in ToSet(tests[e]) \cup ToSet(new) : Told(vehicle[e], t)
      BY <3>1 DEF ToSet
    <3>4. \A t \in ToSet(tests[e] \o new) : Told(vehicle[e], t)
      BY <3>2, <3>3
    <3> QED BY <3>2, <3>4 DEF ToSet
  <2>12. ASSUME NEW f \in Ecus
         PROVE  tests'[f] \in Seq(Results) /\ \A i \in DOMAIN tests'[f] : Told(vehicle'[f], tests'[f][i])
    BY <2>3, <2>10, <2>11
  <2>13. ASSUME ~missed', NEW f \in Ecus PROVE Len(tests'[f]) = Cardinality(Over(f, todo)')
    <3>1. ~missed /\ \A g \in Ecus : Heard(g, "06", mid, late) = Reply(g, "06", mid)
      BY <2>4, <2>13 DEF AskAll
    <3>2. Len(tests[f]) = Cardinality(Over(f, todo))
      BY <2>3, <3>1
    <3>3. IsFiniteSet(Over(f, todo)) /\ IsFiniteSet(At(vehicle[f], mid))
      <4>1. vehicle[f].tests \in Seq(Records)
        BY <1>0 DEF IsEcu
      <4>2. IsFiniteSet(DOMAIN vehicle[f].tests)
        <5>1. DOMAIN vehicle[f].tests = 1 .. Len(vehicle[f].tests) /\ Len(vehicle[f].tests) \in Nat
          BY <4>1
        <5> QED BY <5>1, FS_Interval
      <4>3. Over(f, todo) \in SUBSET DOMAIN vehicle[f].tests
            /\ At(vehicle[f], mid) \in SUBSET DOMAIN vehicle[f].tests
        BY DEF Over, At
      <4> QED BY <4>2, <4>3, FS_Subset
    <3>4. CASE f # e
      <4>1. \A m : <<f, m>> \in ToSet(todo') <=> <<f, m>> \in ToSet(todo)
        BY <2>3, <2>1, <2>2, <3>4
      <4>2. Over(f, todo)' = Over(f, todo)
        BY <2>3, <4>1 DEF Over
      <4> QED BY <2>10, <3>2, <3>4, <4>2
    <3>5. CASE f = e
      <4>1. \A m : <<e, m>> \in ToSet(todo') <=> <<e, m>> \in ToSet(todo) /\ m # mid
        <5>1. ToSet(todo') = ToSet(todo) \ {<<e, mid>>}
          BY <2>3, <2>1, <2>2
        <5>2. \A m : <<e, m>> = <<e, mid>> <=> m = mid
          OBVIOUS
        <5> QED BY <5>1, <5>2
      <4>2. /\ Over(e, todo)' = Over(e, todo) \cup At(vehicle[e], mid)
            /\ Over(e, todo) \cap At(vehicle[e], mid) = {}
        <5>1. <<e, mid>> \in ToSet(todo)
          BY <2>1, <2>2
        <5> DEFINE m(i) == vehicle[e].tests[i].mid
        <5>2. /\ Over(e, todo)' = {i \in DOMAIN vehicle[e].tests : <<e, m(i)>> \notin ToSet(todo')}
              /\ Over(e, todo) = {i \in DOMAIN vehicle[e].tests : <<e, m(i)>> \notin ToSet(todo)}
              /\ At(vehicle[e], mid) = {i \in DOMAIN vehicle[e].tests : m(i) = mid}
          BY <2>3 DEF Over, At
        <5> HIDE DEF m
        <5> QED BY <4>1, <5>1, <5>2
      <4>3. Cardinality(Over(e, todo)') = Cardinality(Over(e, todo)) + Cardinality(At(vehicle[e], mid))
        <5>1. Cardinality({}) = 0
          BY FS_EmptySet
        <5>2. Cardinality(Over(e, todo)) \in Nat /\ Cardinality(At(vehicle[e], mid)) \in Nat
          BY <3>3, <3>5, FS_CardinalityType
        <5>3. Cardinality(Over(e, todo) \cup At(vehicle[e], mid))
                = Cardinality(Over(e, todo)) + Cardinality(At(vehicle[e], mid)) - 0
          BY <3>3, <3>5, <4>2, <5>1, FS_Union
        <5> QED BY <4>2, <5>2, <5>3
      <4>4. r = respond(vehicle[e], "06", mid)
        BY <2>2, <3>1 DEF Reply, r
      <4>5. Len(new) = Cardinality(At(vehicle[e], mid))
        BY <2>8, <4>4 DEF new
      <4>6. Len(tests'[e]) = Len(tests[e]) + Len(new)
        BY <2>10, <2>11
      <4> QED BY <3>2, <3>5, <4>3, <4>5, <4>6
    <3> QED BY <3>4, <3>5
  <2> QED BY <2>3, <2>1, <2>7, <2>10, <2>12, <2>13
<1>5. CASE harvest_returns
  <2>1. /\ stage = "tests" /\ stage' = "done" /\ todo = <<>> /\ todo' = todo
        /\ vehicle' = vehicle /\ tests' = tests /\ missed' = missed
    BY <1>5 DEF harvest_returns
  <2>2. ASSUME ~missed, NEW e \in Ecus PROVE Len(tests[e]) = Len(vehicle[e].tests)
    <3>1. vehicle[e].tests \in Seq(Records)
      BY <1>0 DEF IsEcu
    <3>2. DOMAIN vehicle[e].tests = 1 .. Len(vehicle[e].tests) /\ Len(vehicle[e].tests) \in Nat
      BY <3>1
    <3>3. Over(e, todo) = 1 .. Len(vehicle[e].tests)
      BY <2>1, <3>2 DEF Over, ToSet
    <3>4. Cardinality(Over(e, todo)) = Len(vehicle[e].tests)
      BY <3>2, <3>3, FS_Interval
    <3> QED BY <2>1, <2>2, <3>4
  <2> QED BY <2>1, <2>2
<1>6. CASE DeviceLost
  <2>1. /\ stage' = "lost" /\ todo' = todo /\ vehicle' = vehicle /\ tests' = tests
    BY <1>6 DEF DeviceLost
  <2> QED BY <2>1
<1> QED BY <1>1, <1>2, <1>3, <1>4, <1>5, <1>6 DEF HarvestNext

\* What is known of the tests at the end is what is wanted of them.
LEMMA TestsAreRight == TestsInv => TestsRight
BY DEF TestsInv, TestsRight, Told

\* Type correctness of the harvest.
LEMMA HarvestTypes == CensusInv /\ TestsInv => HarvestTypeOK
<1> SUFFICES ASSUME CensusInv, TestsInv PROVE HarvestTypeOK
  OBVIOUS
<1>1. ASSUME NEW map \in {pid_map, mid_map}
      PROVE  DOMAIN map \subseteq Ecus /\ \A e \in DOMAIN map : map[e] \in Seq(Ids)
  BY DEF CensusInv, Part
<1> QED BY <1>1 DEF CensusInv, CensusTypes, TestsInv, HarvestTypeOK

-----------------------------------------------------------------------------
\* Replies have the shape that their service gives them.
LEMMA RepliesAreTold ==
  ASSUME NEW e, IsEcu(e)
  PROVE  /\ \A ident : respond(e, "01", ident).mask \subseteq 1 .. Group
         /\ \A ident : respond(e, "01", ident).service \in {"01", "none"}
         /\ \A ident : respond(e, "06", ident).mask \subseteq 1 .. Group
         /\ \A ident \in Bases \cup Ids :
              LET r == respond(e, "06", ident)
              IN  r = NoReply \/ (r.service = "06" /\ r.echo = ident)
<1>1. \A base, S : support_mask(base, S) \subseteq 1 .. Group
  BY WireAssumption DEF support_mask
<1>2. \A service, base, S : GroupReply(service, base, S).mask \subseteq 1 .. Group
  BY <1>1 DEF GroupReply, Mask, NoReply
<1>3. \A service, ident, bytes : Data(service, ident, bytes).mask \subseteq 1 .. Group
  BY DEF Data
<1>4. NoReply.mask \subseteq 1 .. Group
  BY DEF NoReply
<1>5. ASSUME NEW ident
      PROVE  /\ respond(e, "01", ident).mask \subseteq 1 .. Group
             /\ respond(e, "06", ident).mask \subseteq 1 .. Group
  BY <1>2, <1>3, <1>4 DEF respond
<1>6. ASSUME NEW ident PROVE respond(e, "01", ident).service \in {"01", "none"}
  BY DEF respond, GroupReply, Mask, Data, NoReply
<1>7. ASSUME NEW ident \in Bases
      PROVE  LET r == respond(e, "06", ident)
             IN  r = NoReply \/ (r.service = "06" /\ r.echo = ident)
  <2>1. respond(e, "06", ident) = GroupReply("06", ident, Mids(e))
    BY Responds
  <2> QED BY <2>1 DEF GroupReply, Mask
<1>8. ASSUME NEW ident \in Ids
      PROVE  LET r == respond(e, "06", ident)
             IN  r = NoReply \/ (r.service = "06" /\ r.echo = ident)
  BY Responds DEF Data
<1> QED BY <1>5, <1>6, <1>7, <1>8

-----------------------------------------------------------------------------
(* Monitor tests as the client reads them.                                 *)

\* A record and its verdict in unsigned words.
Shown(r) ==
  [mid |-> r.mid, tid |-> r.tid, uasid |-> r.uasid,
   passed |-> r.min <= r.value /\ r.value <= r.max]

\* What names the tests at these places.
Names(e, at) == {<<e.tests[i].mid, e.tests[i].tid>> : i \in at}

\* What is parsed are the records that were encoded.
LEMMA ParsedAsShown ==
  ASSUME NEW records \in Seq(Records)
  PROVE  parse_mode06(encode_mode06(records)) = {Shown(records[n]) : n \in 1 .. Len(records)}
<1> DEFINE bytes == encode_mode06(records)
           at(n, i)   == bytes[9 * (n - 1) + i]
           word(n, i) == Byte * at(n, i) + at(n, i + 1)
           parsed(n)  == [mid |-> at(n, 1), tid |-> at(n, 2), uasid |-> at(n, 3),
                          passed |-> word(n, 6) <= word(n, 4) /\ word(n, 4) <= word(n, 8)]
<1>1. Len(bytes) \div 9 = Len(records)
  BY RecordsReadBack
<1>2. parse_mode06(bytes) = {parsed(n) : n \in 1 .. Len(records)}
  <2> HIDE DEF bytes
  <2> QED BY <1>1 DEF parse_mode06
<1>3. ASSUME NEW n \in 1 .. Len(records) PROVE parsed(n) = Shown(records[n])
  <2>1. /\ at(n, 1) = records[n].mid /\ at(n, 2) = records[n].tid /\ at(n, 3) = records[n].uasid
        /\ word(n, 4) = records[n].value
        /\ word(n, 6) = records[n].min /\ word(n, 8) = records[n].max
    BY RecordsReadBack
  <2> HIDE DEF bytes, at, word
  <2> QED BY <2>1 DEF Shown
<1> HIDE DEF bytes, parsed
<1>4. {parsed(n) : n \in 1 .. Len(records)} = {Shown(records[n]) : n \in 1 .. Len(records)}
  BY <1>3
<1> QED BY <1>2, <1>4 DEF bytes

\* What the client takes from a reply to service 06,
ParsedOf(r) == IF HasTests(r) THEN parse_mode06(r.bytes) ELSE {}

\* are tests of the ECU; from the reply to a MID that it has, all of that MID.
LEMMA ParsedIsTold ==
  ASSUME NEW e, IsEcu(e), NEW r, OfService06(e, r)
  PROVE  /\ \A t \in ParsedOf(r) : \E i \in DOMAIN e.tests : t = Shown(e.tests[i])
         /\ \A mid \in Mids(e) : r = respond(e, "06", mid) =>
              {<<t.mid, t.tid>> : t \in ParsedOf(r)} = Names(e, At(e, mid))
<1>1. r = NoReply => ~HasTests(r)
  BY DEF HasTests, NoReply
<1>2. ASSUME NEW base \in Bases, r = respond(e, "06", base) PROVE ~HasTests(r)
  <2>1. r = GroupReply("06", base, Mids(e))
    BY <1>2, Responds
  <2>2. r.bytes = <<>>
    BY <2>1 DEF GroupReply, Mask, NoReply
  <2> QED BY <2>2 DEF HasTests
<1>3. ASSUME NEW mid \in Ids, r = respond(e, "06", mid)
      PROVE  /\ \A t \in ParsedOf(r) : \E i \in DOMAIN e.tests : t = Shown(e.tests[i])
             /\ mid \in Mids(e) => {<<t.mid, t.tid>> : t \in ParsedOf(r)} = Names(e, At(e, mid))
  <2>1. /\ HasTests(r) <=> mid \in Mids(e)
        /\ mid \in Mids(e) => r.bytes = encode_mode06(Of(e, mid))
    BY <1>3, MidAnswered
  <2>2. CASE mid \notin Mids(e)
    BY <2>1, <2>2 DEF ParsedOf
  <2>3. CASE mid \in Mids(e)
    <3> DEFINE of == Of(e, mid)
    <3>1. /\ of \in Seq(Records)
          /\ \A n \in DOMAIN of : \E i \in At(e, mid) : of[n] = e.tests[i]
          /\ \A i \in At(e, mid) : \E n \in DOMAIN of : of[n] = e.tests[i]
      <4>1. e.tests \in Seq(Records)
        BY DEF IsEcu
      <4> QED BY <4>1, OfLists
    <3>2. ParsedOf(r) = parse_mode06(encode_mode06(of))
      BY <2>1, <2>3 DEF ParsedOf
    <3> HIDE DEF of
    <3>3. ParsedOf(r) = {Shown(of[n]) : n \in DOMAIN of}
      <4>1. DOMAIN of = 1 .. Len(of)
        BY <3>1
      <4> QED BY <3>1, <3>2, <4>1, ParsedAsShown
    <3>4. At(e, mid) \subseteq DOMAIN e.tests
      BY DEF At
    <3>5. \A t \in ParsedOf(r) : \E i \in DOMAIN e.tests : t = Shown(e.tests[i])
      BY <3>1, <3>3, <3>4
    <3>6. {<<t.mid, t.tid>> : t \in ParsedOf(r)} = {<<of[n].mid, of[n].tid>> : n \in DOMAIN of}
      <4>1. \A x : Shown(x).mid = x.mid /\ Shown(x).tid = x.tid
        BY DEF Shown
      <4> QED BY <3>3, <4>1
    <3>7. {<<of[n].mid, of[n].tid>> : n \in DOMAIN of} = Names(e, At(e, mid))
      BY <3>1 DEF Names
    <3> QED BY <3>5, <3>6, <3>7
  <2> QED BY <2>2, <2>3
<1>4. Mids(e) \subseteq Ids
  BY DEF IsEcu
<1>5. \A t \in ParsedOf(r) : \E i \in DOMAIN e.tests : t = Shown(e.tests[i])
  <2>1. CASE ~HasTests(r)
    BY <2>1 DEF ParsedOf
  <2>2. CASE HasTests(r)
    BY <1>1, <1>2, <1>3, <2>2 DEF OfService06
  <2> QED BY <2>1, <2>2
<1> QED BY <1>3, <1>4, <1>5

-----------------------------------------------------------------------------
(* Answers.                                                                *)

\* Codes are of those there are.
CodesInv == codes \in [Lists -> SUBSET Dtcs] /\ set \in 0 .. MaxCodes

\* What is known of the last answer.
AnswerInv ==
  /\ answer.ok \in BOOLEAN /\ answer.by \in Kinds
  /\ ValueRight /\ ListRight /\ ClearRight

\* SetToSeq lists a finite set.
LEMMA SetListed ==
  ASSUME NEW S \in SUBSET Nat, IsFiniteSet(S)
  PROVE  SetToSeq(S) \in Seq(S) /\ ToSet(SetToSeq(S)) = S
<1> DEFINE n == Cardinality(S)
           f == SetToSeq(S)
<1>1. n \in Nat
  BY FS_CardinalityType
<1>2. \E g \in [1 .. n -> S] : IsInjective(g)
  <2>1. /\ InOrder(S) \in Seq(S) /\ DOMAIN InOrder(S) = 1 .. n
        /\ \A i, j \in DOMAIN InOrder(S) : InOrder(S)[i] = InOrder(S)[j] => i = j
    BY InOrderLists
  <2> DEFINE g == InOrder(S)
  <2> HIDE DEF g, n
  <2>2. g \in Seq(S) /\ DOMAIN g = 1 .. n /\ IsInjective(g)
    BY <2>1 DEF IsInjective, g
  <2>3. g \in [1 .. n -> S]
    <3>1. g \in [1 .. Len(g) -> S] /\ DOMAIN g = 1 .. Len(g)
      BY <2>2, LenProperties
    <3> QED BY <2>2, <3>1
  <2> QED BY <2>2, <2>3
<1>3. f \in [1 .. n -> S] /\ IsInjective(f)
  BY <1>2 DEF SetToSeq
<1> HIDE DEF f
<1>4. f \in Injection(1 .. n, S)
  BY <1>3 DEF Injection
<1>5. f \in Surjection(1 .. n, S)
  <2>1. IsFiniteSet(1 .. n) /\ Cardinality(1 .. n) = n
    BY <1>1, FS_Interval
  <2> QED BY <1>4, <2>1, FS_Injection
<1> HIDE DEF n
<1>6. f \in Seq(S) /\ DOMAIN f = 1 .. n
  BY <1>1, <1>3
<1>7. ToSet(f) = S
  BY <1>3, <1>5, <1>6 DEF Surjection, ToSet
<1> QED BY <1>6, <1>7 DEF f

\* A list of codes is read as it was sent.
THEOREM CodesRoundTrip ==
  ASSUME CodesInv, NEW service \in Lists
  PROVE  parse_dtcs(Listing(service).bytes) = {Dtc(w) : w \in codes[service]}
<1> DEFINE S == codes[service]
<1>1. S \in SUBSET Dtcs /\ S \in SUBSET Nat /\ IsFiniteSet(S) /\ 0 \notin S
  <2>1. S \in SUBSET Dtcs
    BY DEF CodesInv
  <2>2. Dtcs \in SUBSET Nat /\ IsFiniteSet(Dtcs) /\ 0 \notin Dtcs
    BY ClientAssumption, WireAssumption DEF Words
  <2> HIDE DEF S
  <2> QED BY <2>1, <2>2, FS_Subset
<1>2. Listing(service).bytes = Append(SetToSeq(S), 0)
  BY DEF Listing
<1> HIDE DEF S
<1>3. SetToSeq(S) \in Seq(S) /\ ToSet(SetToSeq(S)) = S
  BY <1>1, SetListed
<1>4. ToSet(Append(SetToSeq(S), 0)) = S \cup {0}
  <2> DEFINE q == SetToSeq(S)
  <2>1. q \in Seq(Nat)
    BY <1>1, <1>3, SeqMonotonic
  <2> HIDE DEF q
  <2>2. /\ Append(q, 0) \in Seq(Nat) /\ Len(Append(q, 0)) = Len(q) + 1 /\ Len(q) \in Nat
        /\ DOMAIN q = 1 .. Len(q) /\ DOMAIN Append(q, 0) = 1 .. Len(q) + 1
        /\ \A i \in 1 .. Len(q) : Append(q, 0)[i] = q[i]
        /\ Append(q, 0)[Len(q) + 1] = 0
    BY <2>1
  <2>3. ToSet(Append(q, 0)) \subseteq ToSet(q) \cup {0}
    BY <2>2 DEF ToSet
  <2>4. ToSet(q) \subseteq ToSet(Append(q, 0))
    <3>1. \A i \in DOMAIN q : i \in DOMAIN Append(q, 0) /\ Append(q, 0)[i] = q[i]
      BY <2>2
    <3> QED BY <3>1 DEF ToSet
  <2>5. 0 \in ToSet(Append(q, 0))
    <3>1. Len(q) + 1 \in DOMAIN Append(q, 0)
      BY <2>2
    <3> QED BY <2>2, <3>1 DEF ToSet
  <2> QED BY <1>3, <2>3, <2>4, <2>5 DEF q
<1>5. (S \cup {0}) \ {0} = S
  BY <1>1
<1>6. parse_dtcs(Listing(service).bytes) = {Dtc(w) : w \in S}
  BY <1>2, <1>4, <1>5 DEF parse_dtcs
<1> QED BY <1>6 DEF S

\* Every call keeps the types of the codes.
LEMMA CodesStep == CodesInv /\ (ClientNext \/ UNCHANGED cvars) => CodesInv'
<1> SUFFICES ASSUME CodesInv, ClientNext \/ UNCHANGED cvars PROVE CodesInv'
  OBVIOUS
<1>1. CASE codes' = codes /\ set' = set
  BY <1>1 DEF CodesInv
<1>2. CASE clear_dtcs
  BY <1>2 DEF clear_dtcs, CodesInv
<1>3. CASE \E service \in Lists, dtc \in Dtcs : SetsCode(service, dtc)
  BY <1>3, ClientAssumption DEF SetsCode, CodesInv
<1>4. ASSUME UNCHANGED cvars PROVE codes' = codes /\ set' = set
  BY <1>4 DEF cvars
<1>5. ASSUME \/ \E service \in Echoed, ident \in Ids : query(service, ident)
             \/ \E service \in Lists : read_dtcs(service)
             \/ \E service \in {"01", "06"} : start_walk(service)
             \/ discover_supported_pids \/ discover_monitor_mids \/ read_monitor_tests
      PROVE  codes' = codes /\ set' = set
  BY <1>5 DEF query, read_dtcs, start_walk, discover_supported_pids, discover_monitor_mids,
              read_monitor_tests
<1> QED BY <1>1, <1>2, <1>3, <1>4, <1>5 DEF ClientNext

\* Every call returns what it should: a value of the identifier asked for, the
\* list the ECU had, nothing left when the codes are cleared.
LEMMA AnswerStep == CodesInv /\ AnswerInv /\ (ClientNext \/ UNCHANGED cvars) => AnswerInv'
<1> SUFFICES ASSUME CodesInv, AnswerInv, ClientNext \/ UNCHANGED cvars PROVE AnswerInv'
  OBVIOUS
<1> USE DEF AnswerInv, ValueRight, ListRight, ClearRight
<1>0. Echoed \cap (Lists \cup {"04", "none"}) = {}
  BY ClientAssumption DEF Lists
<1>1. CASE answer' = answer
  BY <1>1
<1>2. CASE \E service \in Echoed, ident \in Ids : query(service, ident)
  <2>1. PICK service \in Echoed, ident \in Ids : query(service, ident)
    BY <1>2
  <2> DEFINE own == IF ident \in ecu.pids THEN Data(service, ident, <<>>) ELSE NoReply
  <2>2. PICK r \in Incoming(own, service), by \in Kinds :
          Answers(service, ident, Repeats(r, service, ident),
                  IF Repeats(r, service, ident) THEN {r.echo} ELSE {}, {}, by)
    BY <2>1, Zenon DEF query
  <2>3. Repeats(r, service, ident) \in BOOLEAN /\ (Repeats(r, service, ident) => r.echo = ident)
    BY DEF Repeats
  <2>4. /\ answer'.service = service /\ answer'.ident = ident /\ answer'.by = by
        /\ answer'.ok \in BOOLEAN /\ answer'.list \subseteq {ident}
    BY <2>2, <2>3 DEF Answers
  <2>5. service \notin Lists /\ service # "04"
    BY <1>0
  <2> QED BY <2>4, <2>5
<1>3. CASE \E service \in Lists : read_dtcs(service)
  <2>1. PICK service \in Lists : read_dtcs(service)
    BY <1>3
  <2> DEFINE list(r) == IF r.service = service THEN parse_dtcs(r.bytes) ELSE {}
  <2>2. PICK r \in Incoming(Listing(service), service), by \in Kinds :
          /\ Exchange(service, 0, Listing(service), r, by)
          /\ Answers(service, 0, TRUE, list(r), codes[service], by)
    BY <2>1, Zenon DEF read_dtcs
  <2>3. by = "own" => list(r) = {Dtc(w) : w \in codes[service]}
    <3>1. Listing(service).service = service
      BY DEF Listing
    <3> QED BY <2>2, <3>1, CodesRoundTrip DEF Exchange
  <2>4. by \in {"negative", "none"} => list(r) = {}
    BY <2>2 DEF Exchange, Negative, Positive, NoReply, Lists
  <2> HIDE DEF list
  <2>5. /\ answer'.service = service /\ answer'.by = by /\ answer'.ok = TRUE
        /\ answer'.list = list(r) /\ answer'.had = codes[service]
    BY <2>2 DEF Answers
  <2>6. service \notin Echoed /\ service # "04"
    BY <1>0 DEF Lists
  <2> QED BY <2>3, <2>4, <2>5, <2>6 DEF Kinds
<1>4. CASE clear_dtcs
  <2> DEFINE own(reached) == IF reached THEN Positive("04") ELSE NoReply
  <2>0. PICK reached \in BOOLEAN :
          /\ codes' = IF reached THEN [s \in Lists |-> {}] ELSE codes
          /\ \E r \in Incoming(own(reached), "04"), by \in Kinds :
               /\ (by = "negative" => ~reached)
               /\ Exchange("04", 0, own(reached), r, by)
               /\ Answers("04", 0, r.service = "04", {}, UNION {codes'[s] : s \in Lists}, by)
    BY <1>4, Zenon DEF clear_dtcs
  <2>1. PICK r \in Incoming(own(reached), "04"), by \in Kinds :
          /\ codes' = IF reached THEN [s \in Lists |-> {}] ELSE codes
          /\ (by = "negative" => ~reached)
          /\ Exchange("04", 0, own(reached), r, by)
          /\ Answers("04", 0, r.service = "04", {}, UNION {codes'[s] : s \in Lists}, by)
    BY <2>0
  <2>2. by = "own" => reached
    BY <2>1 DEF Exchange
  <2>3. by \in {"negative", "none"} => r.service # "04"
    BY <2>1 DEF Exchange, Negative, Positive, NoReply
  <2>4. reached => UNION {codes'[s] : s \in Lists} = {}
    BY <2>1
  <2>5. /\ answer'.service = "04" /\ answer'.by = by /\ answer'.ok \in BOOLEAN
        /\ answer'.ok => r.service = "04"
        /\ answer'.had = UNION {codes'[s] : s \in Lists}
    BY <2>1 DEF Answers
  <2>6. "04" \notin Echoed /\ "04" \notin Lists
    BY <1>0 DEF Lists
  <2> QED BY <2>2, <2>3, <2>4, <2>5, <2>6 DEF Kinds
<1>5. CASE \E service \in {"01", "06"} : start_walk(service)
  <2>1. answer' = NoAnswer
    BY <1>5 DEF start_walk
  <2>2. /\ answer'.service = "none" /\ answer'.ok = FALSE /\ answer'.by = "none"
    BY <2>1 DEF NoAnswer
  <2> QED BY <1>0, <2>2 DEF Kinds, Lists
<1>6. ASSUME \/ UNCHANGED cvars
             \/ \E service \in Lists, dtc \in Dtcs : SetsCode(service, dtc)
             \/ discover_supported_pids \/ discover_monitor_mids \/ read_monitor_tests
      PROVE  answer' = answer
  BY <1>6 DEF cvars, SetsCode, discover_supported_pids, discover_monitor_mids, read_monitor_tests
<1> QED BY <1>1, <1>2, <1>3, <1>4, <1>5, <1>6 DEF ClientNext

-----------------------------------------------------------------------------
(* Walks.                                                                  *)

\* A reply has bits of a mask, and one to service 06 is of the ECU.
Fine(r) == r.mask \subseteq 1 .. Group /\ (r.service = "06" => OfService06(ecu, r))

\* So is the one that is on its way, if any.
AstrayInv == ecu \in Models /\ Fine(astray)

\* What a walk is to find.
Supports == IF walk.service = "01" THEN ecu.pids ELSE Mids(ecu)

\* How much of it there is up to where it stands.
SoFar == IF walk.at = "masks" THEN Below(Supports, walk.group) ELSE Supports

\* What is known of a walk.
WalkTypes ==
  /\ DOMAIN walk = DOMAIN NoWalk
  /\ walk.group \in 0 .. Groups - 1 /\ walk.at \in {"masks", "tests", "over"}
  /\ walk.service \in {"none", "01", "06"}
  /\ walk.found \subseteq Ids /\ walk.todo \subseteq walk.found
  /\ walk.at = "tests" => walk.service = "06"
  /\ walk.at # "over" => walk.service # "none"
  /\ walk.at # "tests" => walk.todo = {}
  /\ (walk.at = "masks" \/ walk.service # "06") => walk.tests = {}

WalkInv ==
  /\ WalkTypes
  /\ (walk.service = "06" \/ ~walk.strayed) => walk.found \subseteq SoFar
  /\ (walk.whole /\ walk.service # "none") => walk.found = SoFar
  /\ \A t \in walk.tests : \E i \in DOMAIN ecu.tests : t = Shown(ecu.tests[i])
  /\ (walk.whole /\ walk.service = "06" /\ walk.at # "masks") =>
       {<<t.mid, t.tid>> : t \in walk.tests}
         = Names(ecu, {i \in DOMAIN ecu.tests : ecu.tests[i].mid \notin walk.todo})

\* An exchange brings nothing but what the ECU has sent.
LEMMA ExchangeBrings ==
  ASSUME AstrayInv, ecu' = ecu, NEW service, NEW ident, NEW own, Fine(own), NEW r, NEW by \in Kinds,
         Exchange(service, ident, own, r, by)
  PROVE  /\ AstrayInv'
         /\ by = "own" => r = own /\ own # NoReply
         /\ by = "late" => Fine(r)
         /\ by \in {"negative", "none"} => r.service \in {"7F", "none"}
<1>1. astray' \in {NoReply, own, astray}
  BY DEF Exchange, Kinds
<1>2. Fine(NoReply)
  BY DEF Fine, NoReply
<1>3. \A x : Fine(x)' <=> Fine(x)
  BY DEF Fine
<1>4. Fine(astray) /\ ecu \in Models
  BY DEF AstrayInv
<1>5. Fine(astray')
  BY <1>1, <1>2, <1>4
<1>6. AstrayInv'
  BY <1>4, <1>5 DEF AstrayInv, Fine
<1>7. by = "own" => r = own /\ own # NoReply
  BY DEF Exchange
<1>8. by = "late" => Fine(r)
  BY <1>4 DEF Exchange
<1>9. by \in {"negative", "none"} => r.service \in {"7F", "none"}
  BY DEF Exchange, Negative, Positive, NoReply
<1> QED BY <1>6, <1>7, <1>8, <1>9

\* A group is entered, with the mask of this walk's group; or, in a walk through
\* PIDs, with any mask that came late.
LEMMA GroupEntered ==
  ASSUME AstrayInv, WalkInv, ecu' = ecu, walk.at = "masks",
         NEW mask, NEW by, Enter(TRUE, mask, by),
         \/ mask = support_mask(WalkBase, Supports)
         \/ walk.service = "01" /\ by = "late" /\ mask \subseteq 1 .. Group
  PROVE  WalkInv'
<1> DEFINE g    == walk.group
           S    == Supports
           more == more_groups(mask) /\ AnotherGroup(g)
           all  == walk.found \cup supported_ids(WalkBase, mask)
<1>0. /\ S \in SUBSET Ids /\ g \in 0 .. Groups - 1 /\ g \in Nat /\ walk.service \in {"01", "06"}
      /\ WalkTypes
  <2>1. IsEcu(ecu)
    BY ClientAssumption DEF AstrayInv
  <2> QED BY <2>1, WireAssumption DEF WalkInv, WalkTypes, Supports, IsEcu
<1>1. /\ DOMAIN walk' = DOMAIN walk /\ walk'.service = walk.service /\ walk'.tests = walk.tests
      /\ walk'.group = IF more THEN g + 1 ELSE g
      /\ walk'.at = IF more THEN "masks" ELSE IF walk.service = "06" THEN "tests" ELSE "over"
      /\ walk'.found = all
      /\ walk'.todo = IF walk.service = "06" /\ ~more THEN all ELSE {}
      /\ walk'.strayed <=> (walk.strayed \/ by = "late")
      /\ walk'.whole <=> (walk.whole /\ by = "own")
  BY <1>0 DEF Enter, WalkTypes, NoWalk
<1>2. Supports' = S
  BY <1>1 DEF Supports
<1>3. supported_ids(WalkBase, mask) \subseteq Ids
  <2>1. CASE mask = support_mask(WalkBase, S)
    <3>1. supported_ids(WalkBase, mask) = InGroup(S, g)
      BY <1>0, <2>1, GroupRead DEF WalkBase
    <3> QED BY <1>0, <3>1 DEF InGroup
  <2>2. CASE mask \subseteq 1 .. Group
    <3>1. WalkBase \in Bases
      BY <1>0, IdsAreNumbers DEF WalkBase
    <3>2. \A k \in mask \ {Group} : k \in 1 .. Group - 1
      BY <2>2, WireAssumption
    <3> QED BY <3>1, <3>2 DEF supported_ids, Ids
  <2> QED BY <2>1, <2>2
<1>4. more => g + 1 \in 0 .. Groups - 1
  BY <1>0, WireAssumption DEF AnotherGroup
<1>5. WalkTypes'
  BY <1>0, <1>1, <1>3, <1>4 DEF WalkTypes, NoWalk
<1>6. walk'.tests = {}
  BY <1>0, <1>1 DEF WalkTypes
<1>7. ASSUME mask = support_mask(WalkBase, S)
      PROVE  /\ (walk'.service = "06" \/ ~walk'.strayed) => walk'.found \subseteq SoFar'
             /\ walk'.whole => walk'.found = SoFar'
  <2>1. supported_ids(WalkBase, mask) = InGroup(S, g)
    BY <1>0, <1>7, GroupRead DEF WalkBase
  <2>2. Below(S, g + 1) = Below(S, g) \cup InGroup(S, g)
    BY <1>0, BelowNext
  <2>3. ~more => Below(S, g + 1) = S
    BY <1>0, <1>7, LastGroup DEF WalkBase
  <2>4. SoFar' = Below(S, g + 1)
    BY <1>1, <1>2, <2>3 DEF SoFar
  <2>5. SoFar = Below(S, g)
    BY DEF SoFar
  <2>6. /\ (walk.service = "06" \/ ~walk.strayed) => walk.found \subseteq Below(S, g)
        /\ walk.whole => walk.found = Below(S, g)
    BY <1>0, <2>5 DEF WalkInv
  <2> QED BY <1>1, <2>1, <2>2, <2>4, <2>6
<1>8. ASSUME walk.service = "01", by = "late"
      PROVE  /\ (walk'.service = "06" \/ ~walk'.strayed) => walk'.found \subseteq SoFar'
             /\ walk'.whole => walk'.found = SoFar'
  BY <1>1, <1>8
<1>9. /\ (walk'.service = "06" \/ ~walk'.strayed) => walk'.found \subseteq SoFar'
      /\ walk'.whole => walk'.found = SoFar'
  BY <1>7, <1>8
<1>10. ASSUME walk'.whole, walk'.service = "06", walk'.at # "masks"
       PROVE  {<<t.mid, t.tid>> : t \in walk'.tests}
                = Names(ecu, {i \in DOMAIN ecu.tests : ecu.tests[i].mid \notin walk'.todo})
  <2>1. walk'.found = Mids(ecu) /\ walk'.todo = walk'.found
    BY <1>1, <1>2, <1>9, <1>10 DEF SoFar, Supports
  <2>2. {i \in DOMAIN ecu.tests : ecu.tests[i].mid \notin walk'.todo} = {}
    BY <2>1 DEF Mids
  <2> QED BY <1>6, <2>2 DEF Names
<1> HIDE DEF more, all, S, g
<1> QED BY <1>5, <1>6, <1>9, <1>10 DEF WalkInv

\* No group is entered: the walk is over, or goes on to the tests.
LEMMA GroupMissed ==
  ASSUME AstrayInv, WalkInv, ecu' = ecu, walk.at = "masks",
         NEW mask, NEW by, Enter(FALSE, mask, by), by # "own"
  PROVE  WalkInv'
<1>0. WalkTypes /\ walk.service \in {"01", "06"}
  BY DEF WalkInv, WalkTypes
<1>1. /\ DOMAIN walk' = DOMAIN walk /\ walk'.service = walk.service /\ walk'.tests = walk.tests
      /\ walk'.group = walk.group
      /\ walk'.at = IF walk.service = "06" THEN "tests" ELSE "over"
      /\ walk'.found = walk.found
      /\ walk'.todo = IF walk.service = "06" THEN walk.found ELSE {}
      /\ walk'.strayed <=> (walk.strayed \/ by = "late")
      /\ ~walk'.whole
  BY <1>0 DEF Enter, WalkTypes, NoWalk
<1>2. WalkTypes'
  BY <1>0, <1>1 DEF WalkTypes, NoWalk
<1>3. walk'.tests = {}
  BY <1>0, <1>1 DEF WalkTypes
<1>4. SoFar \subseteq SoFar'
  BY <1>1 DEF SoFar, Supports, Below
<1>5. (walk'.service = "06" \/ ~walk'.strayed) => walk'.found \subseteq SoFar'
  BY <1>1, <1>4 DEF WalkInv
<1> QED BY <1>1, <1>2, <1>3, <1>5 DEF WalkInv

\* What is taken, or not, is all that matters of the condition.
LEMMA Entering ==
  ASSUME NEW r, NEW service, NEW base, NEW mask, NEW by
  PROVE  /\ Enter(r.service \notin {"none", "7F"}, mask, by) =>
              IF r.service \notin {"none", "7F"} THEN Enter(TRUE, mask, by) ELSE Enter(FALSE, mask, by)
         /\ Enter(Repeats(r, service, base) /\ Len(r.bytes) = 0, mask, by) =>
              IF Repeats(r, service, base) /\ Len(r.bytes) = 0
              THEN Enter(TRUE, mask, by) ELSE Enter(FALSE, mask, by)
  BY DEF Enter

\* The reply of the ECU to a request of a walk is a reply that it gives.
LEMMA OwnIsFine ==
  ASSUME NEW ident \in Bases \cup Ids, ecu \in Models
  PROVE  Fine(respond(ecu, "01", ident)) /\ Fine(respond(ecu, "06", ident))
<1>1. IsEcu(ecu)
  BY ClientAssumption
<1>2. respond(ecu, "01", ident).service # "06"
  BY <1>1, RepliesAreTold
<1> QED BY <1>1, <1>2, RepliesAreTold DEF Fine, OfService06

\* discover_supported_pids: a group that is answered in time is entered with its
\* own mask, and the walk is marked when it is not.
LEMMA PidsStep == AstrayInv /\ WalkInv /\ discover_supported_pids => AstrayInv' /\ WalkInv'
<1> SUFFICES ASSUME AstrayInv, WalkInv, discover_supported_pids PROVE AstrayInv' /\ WalkInv'
  OBVIOUS
<1> DEFINE own == respond(ecu, "01", WalkBase)
<1>1. /\ walk.at = "masks" /\ walk.service = "01" /\ ecu' = ecu /\ WalkBase \in Bases
      /\ ecu \in Models /\ IsEcu(ecu)
  BY IdsAreNumbers, ClientAssumption
  DEF discover_supported_pids, WalkInv, WalkTypes, WalkBase, AstrayInv
<1>2. PICK r \in Incoming(own, "01"), by \in Kinds :
        /\ Exchange("01", WalkBase, own, r, by)
        /\ IF by = "late" /\ ~IsMask(r)
           THEN \/ \E garbage \in SUBSET (1 .. Group) : Enter(TRUE, garbage, by)
                \/ Enter(FALSE, {}, by)
           ELSE Enter(r.service \notin {"none", "7F"}, r.mask, by)
  BY Zenon DEF discover_supported_pids
<1>3. by \in Kinds
  BY <1>2
<1>4. Fine(own)
  BY <1>1, OwnIsFine
<1>5. own = GroupReply("01", WalkBase, Supports)
  BY <1>1, Responds DEF Supports
<1>6. own # NoReply => own.service = "01" /\ own.mask = support_mask(WalkBase, Supports)
  BY <1>5 DEF GroupReply, Mask
<1> HIDE DEF own
<1>7. /\ AstrayInv'
      /\ by = "own" => r = own /\ own # NoReply
      /\ by = "late" => Fine(r)
      /\ by \in {"negative", "none"} => r.service \in {"7F", "none"}
  BY <1>1, <1>2, <1>3, <1>4, ExchangeBrings
<1>8. CASE by = "own"
  <2>1. r.service = "01" /\ r.mask = support_mask(WalkBase, Supports)
    BY <1>6, <1>7, <1>8
  <2>2. Enter(r.service \notin {"none", "7F"}, r.mask, by)
    BY <1>2, <1>8
  <2>3. Enter(TRUE, r.mask, by)
    BY <2>1, <2>2, Entering
  <2> QED BY <1>1, <1>7, <2>1, <2>3, GroupEntered
<1>9. CASE by \in {"negative", "none"}
  <2>1. Enter(r.service \notin {"none", "7F"}, r.mask, by)
    BY <1>2, <1>9
  <2>2. Enter(FALSE, r.mask, by)
    BY <1>7, <1>9, <2>1, Entering
  <2> QED BY <1>1, <1>7, <1>9, <2>2, GroupMissed
<1>10. CASE by = "late" /\ IsMask(r)
  <2>1. Enter(r.service \notin {"none", "7F"}, r.mask, by)
    BY <1>2, <1>10
  <2>2. Enter(TRUE, r.mask, by)
    BY <1>10, <2>1, Entering DEF IsMask
  <2>3. r.mask \subseteq 1 .. Group
    BY <1>7, <1>10 DEF Fine
  <2> QED BY <1>1, <1>7, <1>10, <2>2, <2>3, GroupEntered
<1>11. CASE by = "late" /\ ~IsMask(r)
  <2>1. CASE \E garbage \in SUBSET (1 .. Group) : Enter(TRUE, garbage, by)
    <3>1. PICK garbage \in SUBSET (1 .. Group) : Enter(TRUE, garbage, by)
      BY <2>1
    <3> QED BY <1>1, <1>7, <1>11, <3>1, GroupEntered
  <2>2. CASE Enter(FALSE, {}, by)
    BY <1>1, <1>7, <1>11, <2>2, GroupMissed
  <2> QED BY <1>2, <1>11, <2>1, <2>2
<1> QED BY <1>3, <1>8, <1>9, <1>10, <1>11 DEF Kinds

\* discover_monitor_mids: only the mask of the group is entered, late or not.
LEMMA MidsStep == AstrayInv /\ WalkInv /\ discover_monitor_mids => AstrayInv' /\ WalkInv'
<1> SUFFICES ASSUME AstrayInv, WalkInv, discover_monitor_mids PROVE AstrayInv' /\ WalkInv'
  OBVIOUS
<1> DEFINE own == respond(ecu, "06", WalkBase)
           taken(r) == Repeats(r, "06", WalkBase) /\ Len(r.bytes) = 0
<1>1. /\ walk.at = "masks" /\ walk.service = "06" /\ ecu' = ecu /\ WalkBase \in Bases
      /\ ecu \in Models /\ IsEcu(ecu)
  BY IdsAreNumbers, ClientAssumption
  DEF discover_monitor_mids, WalkInv, WalkTypes, WalkBase, AstrayInv
<1>2. PICK r \in Incoming(own, "06"), by \in Kinds :
        /\ Exchange("06", WalkBase, own, r, by)
        /\ Enter(taken(r), r.mask, by)
  BY Zenon DEF discover_monitor_mids
<1>3. by \in Kinds
  BY <1>2
<1>4. Fine(own)
  BY <1>1, OwnIsFine
<1>5. own = GroupReply("06", WalkBase, Supports)
  BY <1>1, Responds DEF Supports
<1>6. own # NoReply => taken(own) /\ own.mask = support_mask(WalkBase, Supports)
  BY <1>5 DEF GroupReply, Mask, Repeats
<1>7. /\ AstrayInv'
      /\ by = "own" => r = own /\ own # NoReply
      /\ by = "late" => Fine(r)
      /\ by \in {"negative", "none"} => r.service \in {"7F", "none"}
  <2> HIDE DEF own, taken
  <2> QED BY <1>1, <1>2, <1>3, <1>4, ExchangeBrings
<1>8. ASSUME taken(r) PROVE r = own /\ own # NoReply
  <2>1. r.service = "06" /\ r.echo = WalkBase
    BY <1>8 DEF Repeats
  <2>2. Fine(r)
    BY <1>3, <1>4, <1>7, <2>1 DEF Kinds
  <2>3. OfService06(ecu, r)
    BY <2>1, <2>2 DEF Fine
  <2>4. PICK ident \in Bases \cup Ids : r = respond(ecu, "06", ident)
    BY <2>1, <2>3 DEF OfService06, NoReply
  <2>5. r # NoReply
    BY <2>1 DEF NoReply
  <2>6. ident = WalkBase
    BY <1>1, <2>1, <2>4, <2>5, RepliesAreTold
  <2> QED BY <2>4, <2>5, <2>6
<1>9. CASE taken(r)
  <2>1. Enter(TRUE, r.mask, by)
    BY <1>2, <1>9, Entering
  <2>2. r.mask = support_mask(WalkBase, Supports)
    BY <1>6, <1>8, <1>9
  <2> QED BY <1>1, <1>7, <2>1, <2>2, GroupEntered
<1>10. CASE ~taken(r)
  <2>1. Enter(FALSE, r.mask, by)
    BY <1>2, <1>10, Entering
  <2>2. by # "own"
    BY <1>6, <1>7, <1>10
  <2> QED BY <1>1, <1>7, <2>1, <2>2, GroupMissed
<1> QED BY <1>9, <1>10

\* read_monitor_tests: the tests of one MID more, or the end of the walk.
LEMMA MonitorStep == AstrayInv /\ WalkInv /\ read_monitor_tests => AstrayInv' /\ WalkInv'
<1> SUFFICES ASSUME AstrayInv, WalkInv, read_monitor_tests PROVE AstrayInv' /\ WalkInv'
  OBVIOUS
<1> DEFINE mid == CHOOSE m \in walk.todo : \A n \in walk.todo : m <= n
           own == respond(ecu, "06", mid)
<1>1. /\ walk.at = "tests" /\ walk.service = "06" /\ ecu' = ecu /\ ecu \in Models /\ IsEcu(ecu)
      /\ WalkTypes /\ Supports = Mids(ecu) /\ SoFar = Mids(ecu) /\ walk.found \subseteq Mids(ecu)
  <2>1. walk.at = "tests" /\ ecu' = ecu
    BY DEF read_monitor_tests
  <2>2. walk.service = "06" /\ WalkTypes
    BY <2>1 DEF WalkInv, WalkTypes
  <2>3. ecu \in Models /\ IsEcu(ecu)
    BY ClientAssumption DEF AstrayInv
  <2>4. Supports = Mids(ecu) /\ SoFar = Mids(ecu)
    BY <2>1, <2>2 DEF Supports, SoFar
  <2> QED BY <2>1, <2>2, <2>3, <2>4 DEF WalkInv
<1>2. CASE walk.todo = {}
  <2>1. walk' = [walk EXCEPT !.at = "over"] /\ astray' = astray
    BY <1>2 DEF read_monitor_tests
  <2>2. AstrayInv'
    BY <1>1, <2>1 DEF AstrayInv, Fine
  <2>3. /\ DOMAIN walk' = DOMAIN walk /\ walk'.service = walk.service /\ walk'.tests = walk.tests
        /\ walk'.group = walk.group /\ walk'.at = "over" /\ walk'.found = walk.found
        /\ walk'.todo = walk.todo /\ walk'.strayed = walk.strayed /\ walk'.whole = walk.whole
    BY <1>1, <2>1 DEF WalkTypes, NoWalk
  <2>4. WalkTypes'
    BY <1>1, <1>2, <2>3 DEF WalkTypes
  <2>5. SoFar' = Mids(ecu)
    BY <1>1, <2>3 DEF SoFar, Supports
  <2> QED BY <1>1, <2>2, <2>3, <2>4, <2>5 DEF WalkInv
<1>3. CASE walk.todo # {}
  <2>1. PICK r \in Incoming(own, "06"), by \in Kinds :
          /\ Exchange("06", mid, own, r, by)
          /\ walk' = [walk EXCEPT
               !.todo = @ \ {mid},
               !.tests = @ \cup (IF HasTests(r) THEN parse_mode06(r.bytes) ELSE {}),
               !.whole = @ /\ by = "own"]
    BY <1>3, Zenon DEF read_monitor_tests
  <2>2. by \in Kinds
    BY <2>1
  <2>3. walk.todo \subseteq Mids(ecu) /\ walk.todo \subseteq Ids /\ walk.todo \in SUBSET Nat
    BY <1>1, IdsAreNumbers DEF WalkTypes
  <2>4. mid \in walk.todo
    <3>1. \E m \in walk.todo : \A n \in walk.todo : m <= n
      BY <1>3, <2>3, LeastElement
    <3> QED BY <3>1
  <2> HIDE DEF mid
  <2>5. mid \in Ids /\ mid \in Mids(ecu)
    BY <2>3, <2>4
  <2>6. Fine(own)
    BY <1>1, <2>5, OwnIsFine
  <2>7. own.service = "06" /\ OfService06(ecu, own)
    <3>1. own = Data("06", mid, encode_mode06(Of(ecu, mid)))
      BY <1>1, <2>5, Responds
    <3> QED BY <2>6, <3>1 DEF Data, Fine
  <2> DEFINE got == ParsedOf(r)
  <2>8. /\ AstrayInv'
        /\ by = "own" => r = own /\ own # NoReply
        /\ by = "late" => Fine(r)
        /\ by \in {"negative", "none"} => r.service \in {"7F", "none"}
    <3> HIDE DEF own
    <3> QED BY <1>1, <2>1, <2>2, <2>6, ExchangeBrings
  <2>9. /\ DOMAIN walk' = DOMAIN walk /\ walk'.service = walk.service
        /\ walk'.tests = walk.tests \cup got
        /\ walk'.group = walk.group /\ walk'.at = walk.at /\ walk'.found = walk.found
        /\ walk'.todo = walk.todo \ {mid} /\ walk'.strayed = walk.strayed
        /\ walk'.whole <=> (walk.whole /\ by = "own")
    <3>1. DOMAIN walk = DOMAIN NoWalk
      BY <1>1 DEF WalkTypes
    <3>2. walk' = [walk EXCEPT !.todo = @ \ {mid}, !.tests = @ \cup got, !.whole = @ /\ by = "own"]
      BY <2>1, Zenon DEF ParsedOf
    <3> HIDE DEF got
    <3> QED BY <3>1, <3>2 DEF NoWalk
  <2>10. WalkTypes'
    BY <1>1, <2>9 DEF WalkTypes
  <2>11. SoFar' = Mids(ecu)
    BY <1>1, <2>9 DEF SoFar, Supports
  <2>12. \A t \in got : \E i \in DOMAIN ecu.tests : t = Shown(ecu.tests[i])
    <3>1. CASE r.service = "06"
      <4>1. OfService06(ecu, r)
        BY <2>2, <2>7, <2>8, <3>1 DEF Fine, Kinds
      <4> QED BY <1>1, <4>1, ParsedIsTold
    <3>2. CASE r.service # "06"
      BY <3>2 DEF ParsedOf, HasTests
    <3> QED BY <3>1, <3>2
  <2>13. by = "own" => {<<t.mid, t.tid>> : t \in got} = Names(ecu, At(ecu, mid))
    BY <1>1, <2>5, <2>7, <2>8, ParsedIsTold
  <2> HIDE DEF got, own
  <2>14. walk'.whole => {<<t.mid, t.tid>> : t \in walk'.tests}
           = Names(ecu, {i \in DOMAIN ecu.tests : ecu.tests[i].mid \notin walk'.todo})
    <3> SUFFICES ASSUME walk'.whole
                 PROVE  {<<t.mid, t.tid>> : t \in walk'.tests}
                          = Names(ecu, {i \in DOMAIN ecu.tests : ecu.tests[i].mid \notin walk'.todo})
      OBVIOUS
    <3> DEFINE before == {i \in DOMAIN ecu.tests : ecu.tests[i].mid \notin walk.todo}
               after  == {i \in DOMAIN ecu.tests : ecu.tests[i].mid \notin walk.todo \ {mid}}
    <3>1. {<<t.mid, t.tid>> : t \in walk.tests} = Names(ecu, before)
      BY <1>1, <2>9 DEF WalkInv
    <3>2. {<<t.mid, t.tid>> : t \in got} = Names(ecu, At(ecu, mid))
      BY <2>9, <2>13
    <3>3. after = before \cup At(ecu, mid)
      BY <2>4 DEF At
    <3> HIDE DEF before, after
    <3>4. Names(ecu, after) = Names(ecu, before) \cup Names(ecu, At(ecu, mid))
      BY <3>3 DEF Names
    <3>5. {<<t.mid, t.tid>> : t \in walk'.tests}
            = {<<t.mid, t.tid>> : t \in walk.tests} \cup {<<t.mid, t.tid>> : t \in got}
      BY <2>9
    <3> QED BY <2>9, <3>1, <3>2, <3>4, <3>5 DEF after
  <2>15. \A t \in walk'.tests : \E i \in DOMAIN ecu.tests : t = Shown(ecu.tests[i])
    BY <2>9, <2>12 DEF WalkInv
  <2>16. walk'.found \subseteq SoFar' /\ (walk'.whole => walk'.found = SoFar')
    BY <1>1, <2>9, <2>11 DEF WalkInv
  <2> QED BY <1>1, <2>8, <2>9, <2>10, <2>14, <2>15, <2>16 DEF WalkInv
<1> QED BY <1>2, <1>3

\* There is no walk yet.
LEMMA NoWalkIsRight == ASSUME walk = NoWalk PROVE WalkInv
<1>1. 0 \in 0 .. Groups - 1
  BY WireAssumption
<1> QED BY <1>1 DEF WalkInv, WalkTypes, NoWalk

\* A call in between leaves a walk as it is, or forgets one that is over.
LEMMA WalkKept ==
  ASSUME WalkInv, ecu' = ecu, walk' = walk \/ walk' = NoWalk
  PROVE  WalkInv'
<1>1. CASE walk' = walk
  BY <1>1 DEF WalkInv, WalkTypes, SoFar, Supports
<1>2. CASE walk' = NoWalk
  <2>1. 0 \in 0 .. Groups - 1
    BY WireAssumption
  <2> QED BY <1>2, <2>1 DEF WalkInv, WalkTypes, NoWalk
<1> QED BY <1>1, <1>2

\* A walk that starts has nothing to show for the groups before its first.
LEMMA StartStep ==
  ASSUME AstrayInv, WalkInv, NEW service \in {"01", "06"}, start_walk(service)
  PROVE  AstrayInv' /\ WalkInv'
<1>1. ecu' = ecu /\ astray' = astray /\ walk' = [NoWalk EXCEPT !.service = service, !.at = "masks"]
  BY DEF start_walk
<1>2. /\ DOMAIN walk' = DOMAIN NoWalk /\ walk'.service = service /\ walk'.tests = {}
      /\ walk'.group = 0 /\ walk'.at = "masks" /\ walk'.found = {} /\ walk'.todo = {}
      /\ walk'.strayed = FALSE /\ walk'.whole = TRUE
  BY <1>1 DEF NoWalk
<1>3. 0 \in 0 .. Groups - 1
  BY WireAssumption
<1>4. Supports' \subseteq Ids
  <2>1. IsEcu(ecu)
    BY ClientAssumption DEF AstrayInv
  <2> QED BY <1>1, <2>1 DEF Supports, IsEcu
<1>5. SoFar' = {}
  <2>1. SoFar' = Below(Supports', 0)
    BY <1>2 DEF SoFar
  <2>2. 0 \in 0 .. Groups - 1
    BY WireAssumption
  <2> QED BY <1>4, <2>1, <2>2, BelowNext
<1>6. WalkTypes'
  BY <1>2, <1>3 DEF WalkTypes
<1>7. WalkInv'
  BY <1>2, <1>5, <1>6 DEF WalkInv
<1>8. AstrayInv'
  BY <1>1 DEF AstrayInv, Fine
<1> QED BY <1>7, <1>8

\* No call brings anything that the ECU has not sent.
LEMMA CallsBring ==
  ASSUME AstrayInv,
         \/ \E service \in Echoed, ident \in Ids : query(service, ident)
         \/ \E service \in Lists : read_dtcs(service)
         \/ clear_dtcs
  PROVE  AstrayInv' /\ ecu' = ecu /\ (walk' = walk \/ walk' = NoWalk)
<1>1. CASE \E service \in Echoed, ident \in Ids : query(service, ident)
  <2>1. PICK service \in Echoed, ident \in Ids : query(service, ident)
    BY <1>1
  <2> DEFINE own == IF ident \in ecu.pids THEN Data(service, ident, <<>>) ELSE NoReply
             list(r) == IF Repeats(r, service, ident) THEN {r.echo} ELSE {}
  <2>2. PICK r \in Incoming(own, service), by \in Kinds :
          /\ Exchange(service, ident, own, r, by)
          /\ Answers(service, ident, Repeats(r, service, ident), list(r), {}, by)
    BY <2>1, Zenon DEF query
  <2>3. ecu' = ecu /\ by \in Kinds
    BY <2>1, <2>2 DEF query
  <2>4. walk' = walk \/ walk' = NoWalk
    BY <2>2 DEF Answers
  <2>5. Fine(own)
    BY ClientAssumption DEF Fine, Data, NoReply
  <2> HIDE DEF own, list
  <2> QED BY <2>2, <2>3, <2>4, <2>5, ExchangeBrings
<1>2. CASE \E service \in Lists : read_dtcs(service)
  <2>1. PICK service \in Lists : read_dtcs(service)
    BY <1>2
  <2> DEFINE own == Listing(service)
             list(r) == IF r.service = service THEN parse_dtcs(r.bytes) ELSE {}
  <2>2. PICK r \in Incoming(own, service), by \in Kinds :
          /\ Exchange(service, 0, own, r, by)
          /\ Answers(service, 0, TRUE, list(r), codes[service], by)
    BY <2>1, Zenon DEF read_dtcs
  <2>3. ecu' = ecu /\ by \in Kinds
    BY <2>1, <2>2 DEF read_dtcs
  <2>4. walk' = walk \/ walk' = NoWalk
    BY <2>2 DEF Answers
  <2>5. Fine(own)
    BY DEF Fine, Listing, Lists
  <2> HIDE DEF own, list
  <2> QED BY <2>2, <2>3, <2>4, <2>5, ExchangeBrings
<1>3. CASE clear_dtcs
  <2> DEFINE sent(reached) == IF reached THEN Positive("04") ELSE NoReply
  <2>1. PICK reached \in BOOLEAN :
          \E r \in Incoming(sent(reached), "04"), by \in Kinds :
               /\ Exchange("04", 0, sent(reached), r, by)
               /\ Answers("04", 0, r.service = "04", {}, UNION {codes'[s] : s \in Lists}, by)
    BY <1>3, Zenon DEF clear_dtcs
  <2>2. PICK r \in Incoming(sent(reached), "04"), by \in Kinds :
          /\ Exchange("04", 0, sent(reached), r, by)
          /\ Answers("04", 0, r.service = "04", {}, UNION {codes'[s] : s \in Lists}, by)
    BY <2>1
  <2>3. ecu' = ecu /\ by \in Kinds
    BY <1>3, <2>2 DEF clear_dtcs
  <2>4. walk' = walk \/ walk' = NoWalk
    BY <2>2 DEF Answers
  <2>5. Fine(sent(reached))
    BY DEF Fine, Positive, NoReply
  <2> HIDE DEF sent
  <2> QED BY <2>2, <2>3, <2>4, <2>5, ExchangeBrings
<1> QED BY <1>1, <1>2, <1>3

-----------------------------------------------------------------------------
(* The client as a whole.                                                  *)

\* What is known of the client.
ClientInv == CodesInv /\ AnswerInv /\ AstrayInv /\ WalkInv /\ matching \in BOOLEAN

\* So it is before the first call.
LEMMA ClientInitInv == ClientInit => ClientInv
<1> SUFFICES ASSUME ClientInit PROVE ClientInv
  OBVIOUS
<1>1. CodesInv
  BY ClientAssumption DEF ClientInit, CodesInv
<1>2. AnswerInv
  <2>1. /\ answer.service = "none" /\ answer.ok = FALSE /\ answer.by = "none"
    BY DEF ClientInit, NoAnswer
  <2>2. "none" \notin Echoed
    BY ClientAssumption
  <2> QED BY <2>1, <2>2 DEF AnswerInv, ValueRight, ListRight, ClearRight, Kinds, Lists
<1>3. AstrayInv
  BY DEF ClientInit, AstrayInv, Fine, NoReply
<1>4. WalkInv
  BY NoWalkIsRight DEF ClientInit
<1> QED BY <1>1, <1>2, <1>3, <1>4 DEF ClientInv, ClientInit

\* Every call keeps it.
LEMMA ClientStepInv == ClientInv /\ (ClientNext \/ UNCHANGED cvars) => ClientInv'
<1> SUFFICES ASSUME ClientInv, ClientNext \/ UNCHANGED cvars PROVE ClientInv'
  OBVIOUS
<1> USE DEF ClientInv
<1>1. CodesInv'
  BY CodesStep
<1>2. AnswerInv'
  BY AnswerStep
<1>3. matching' = matching
  BY DEF ClientNext, cvars, query, read_dtcs, clear_dtcs, SetsCode, start_walk,
         discover_supported_pids, discover_monitor_mids, read_monitor_tests
<1>4. AstrayInv' /\ WalkInv'
  <2>1. CASE \/ \E service \in Echoed, ident \in Ids : query(service, ident)
             \/ \E service \in Lists : read_dtcs(service)
             \/ clear_dtcs
    BY <2>1, CallsBring, WalkKept
  <2>2. CASE \E service \in Lists, dtc \in Dtcs : SetsCode(service, dtc)
    <3>1. ecu' = ecu /\ astray' = astray /\ walk' = walk
      BY <2>2 DEF SetsCode
    <3> QED BY <3>1, WalkKept DEF AstrayInv, Fine
  <2>3. CASE \E service \in {"01", "06"} : start_walk(service)
    BY <2>3, StartStep
  <2>4. CASE discover_supported_pids
    BY <2>4, PidsStep
  <2>5. CASE discover_monitor_mids
    BY <2>5, MidsStep
  <2>6. CASE read_monitor_tests
    BY <2>6, MonitorStep
  <2>7. CASE UNCHANGED cvars
    <3>1. ecu' = ecu /\ astray' = astray /\ walk' = walk
      BY <2>7 DEF cvars
    <3> QED BY <3>1, WalkKept DEF AstrayInv, Fine
  <2> QED BY <2>1, <2>2, <2>3, <2>4, <2>5, <2>6, <2>7 DEF ClientNext
<1> QED BY <1>1, <1>2, <1>3, <1>4

\* Type correctness of the client.
LEMMA ClientTypes == ClientInv => ClientTypeOK
BY DEF ClientInv, ClientTypeOK, CodesInv, AnswerInv, AstrayInv, WalkInv, WalkTypes

\* What is known of a walk is what is wanted of it.
LEMMA WalkIsRight == ClientInv => WalkRight
<1> SUFFICES ASSUME WalkInv PROVE WalkRight
  BY DEF ClientInv
<1> DEFINE v(i) == [mid |-> ecu.tests[i].mid, tid |-> ecu.tests[i].tid, uasid |-> ecu.tests[i].uasid,
                    passed |-> ecu.tests[i].min <= ecu.tests[i].value /\ ecu.tests[i].value <= ecu.tests[i].max]
<1>1. /\ walk.service \in {"none", "01", "06"}
      /\ walk.at = "over" => walk.todo = {} /\ SoFar = Supports
      /\ SoFar \subseteq Supports
  BY DEF WalkInv, WalkTypes, SoFar, Below
<1>2. Supports = IF walk.service = "01" THEN ecu.pids ELSE Mids(ecu)
  BY DEF Supports
<1>3. (walk.service = "06" \/ ~walk.strayed) => walk.found \subseteq Supports
  BY <1>1 DEF WalkInv
<1>4. (walk.at = "over" /\ walk.whole /\ walk.service # "none") => walk.found = Supports
  BY <1>1 DEF WalkInv
<1>5. \A i : Shown(ecu.tests[i]) = v(i)
  BY DEF Shown
<1>6. \A t \in walk.tests : \E i \in DOMAIN ecu.tests : t = v(i)
  BY <1>5 DEF WalkInv
<1> HIDE DEF v
<1>7. \A t \in walk.tests : \E i \in DOMAIN ecu.tests :
        IF 2 * ecu.tests[i].uasid < Byte THEN t = v(i)
        ELSE [t EXCEPT !.passed = TRUE] = [v(i) EXCEPT !.passed = TRUE]
  BY <1>6
<1>8. (walk.at = "over" /\ walk.whole /\ walk.service = "06") =>
        {<<t.mid, t.tid>> : t \in walk.tests}
          = {<<ecu.tests[i].mid, ecu.tests[i].tid>> : i \in DOMAIN ecu.tests}
  <2> SUFFICES ASSUME walk.at = "over", walk.whole, walk.service = "06"
               PROVE  {<<t.mid, t.tid>> : t \in walk.tests}
                        = {<<ecu.tests[i].mid, ecu.tests[i].tid>> : i \in DOMAIN ecu.tests}
    OBVIOUS
  <2>1. {<<t.mid, t.tid>> : t \in walk.tests}
          = Names(ecu, {i \in DOMAIN ecu.tests : ecu.tests[i].mid \notin walk.todo})
    BY DEF WalkInv
  <2>2. {i \in DOMAIN ecu.tests : ecu.tests[i].mid \notin walk.todo} = DOMAIN ecu.tests
    BY <1>1
  <2> QED BY <2>1, <2>2 DEF Names
<1> QED BY <1>2, <1>3, <1>4, <1>7, <1>8 DEF WalkRight, v

-----------------------------------------------------------------------------
(* The specification.                                                      *)

\* What is known of both programs.
ReadersInv == CensusInv /\ TestsInv /\ ClientInv /\ program \in {"daemon", "tool"}

\* The invariant of both programs, of every reachable state.
THEOREM AlwaysReadersInv == Spec => []ReadersInv
<1>1. Init => ReadersInv
  BY CensusInit, TestsInit, ClientInitInv DEF Init, ReadersInv
<1>2. ReadersInv /\ [Next]_vars => ReadersInv'
  <2> SUFFICES ASSUME ReadersInv, [Next]_vars PROVE ReadersInv'
    OBVIOUS
  <2>1. (HarvestNext \/ UNCHANGED hvars) /\ (ClientNext \/ UNCHANGED cvars) /\ program' = program
    BY DEF Next, vars
  <2>2. CensusInv' /\ TestsInv'
    BY <2>1, CensusStep, TestsStep DEF ReadersInv
  <2>3. ClientInv'
    BY <2>1, ClientStepInv DEF ReadersInv
  <2> QED BY <2>1, <2>2, <2>3 DEF ReadersInv
<1> QED BY <1>1, <1>2, PTL DEF Spec

\* Type correctness of both programs.
THEOREM AlwaysTypeOK == Spec => []TypeOK
<1>1. ReadersInv => TypeOK
  BY HarvestTypes, ClientTypes DEF ReadersInv, TypeOK
<1> QED BY <1>1, AlwaysReadersInv, PTL

\* The census of the daemon: ids that the ECU supports, none twice, and all of
\* them, of all ECUs, if every ECU was heard every time.
THEOREM AlwaysCensusRight == Spec => []CensusRight
<1>1. ReadersInv => CensusRight
  BY CensusIsRight DEF ReadersInv
<1> QED BY <1>1, AlwaysReadersInv, PTL

\* The monitor tests of the daemon: those of the ECU, with its own verdict, and
\* all of them, once, if every ECU was heard every time.
THEOREM AlwaysTestsRight == Spec => []TestsRight
<1>1. ReadersInv => TestsRight
  BY TestsAreRight DEF ReadersInv
<1> QED BY <1>1, AlwaysReadersInv, PTL

\* What the client of the first version shows is what the ECU said, but for what
\* a late reply can do to it.
THEOREM AlwaysReadingsRight == Spec => []ReadingsRight
<1>1. ReadersInv => ReadingsRight
  BY WalkIsRight DEF ReadersInv, ClientInv, AnswerInv, ReadingsRight
<1> QED BY <1>1, AlwaysReadersInv, PTL
=============================================================================
