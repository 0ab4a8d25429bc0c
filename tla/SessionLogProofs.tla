-------------------------- MODULE SessionLogProofs --------------------------
(***************************************************************************)
(* Theorems about SessionLog, for any number of processes, vehicles and    *)
(* starts.                                                                 *)
(*                                                                         *)
(* What a line has in it was decided steps before it is written, from      *)
(* files that others use meanwhile.  Types says what is held at each point *)
(* of _write; Rings, that what a process takes for recorded has been; and  *)
(* OneKey, that every key in memory is the one in the file, or is being    *)
(* written by a process when nobody else has one.                          *)
(***************************************************************************)
EXTENDS SessionLog, TLAPS

\* A line that is about to be written, with the token of its VIN.
Ready == {"append", "in append"}

\* A line with a VIN past the key.
Keyed(p) == pc[p]["main"] \in Ready \cup {"remember"} /\ vin[p] # NoVin

\* Types, and what is held where.
Types ==
  /\ TypeOK
  /\ \A p \in Procs :
       /\ p \in alive => born[p] \in 1 .. MaxStarts
       /\ pc[p]["main"] \in {"key", "remember"} \cup Writing => vin[p] # NoVin
       /\ pc[p]["main"] \in Writing => key[p] \in NewKeys
       /\ Keyed(p) => key[p] # NoKey

USE DEF files, process, history

-----------------------------------------------------------------------------
(* Types.                                                                  *)

\* Keys of different sorts are different.
LEMMA KeySorts ==
  /\ NoKey \notin NewKeys \cup {Truncated, EnvKey}
  /\ Truncated \notin NewKeys \cup {EnvKey}
  /\ \A n \in 1 .. MaxStarts : NewKey(n) \in NewKeys
BY DEF NoKey, Truncated, EnvKey, NewKeys, NewKey

\* At first nothing is held.
LEMMA TypesInit == Init => Types
<1> SUFFICES ASSUME Init PROVE Types
  OBVIOUS
<1>1. TypeOK
  <2>1. pc \in [Procs -> [Threads -> Points]]
    BY DEF Init, Points
  <2>2. starts \in 0 .. MaxStarts /\ born \in [Procs -> 0 .. starts]
    BY SessionLogAssumption DEF Init
  <2>3. /\ key \in [Procs -> Keys] /\ known \in [Procs -> SUBSET Tokens]
        /\ lock \in [Procs -> Threads \cup {Nobody}] /\ stop \in [Procs -> BOOLEAN]
        /\ vin \in [Procs -> Vins \cup {NoVin}]
    BY DEF Init, Keys
  <2>4. /\ env \in BOOLEAN /\ clash \in BOOLEAN /\ file \in NewKeys \cup {NoKey, Truncated}
        /\ ring \subseteq Tokens /\ logged \subseteq Tokens /\ unkept \subseteq Tokens
        /\ alive \subseteq Procs
    BY DEF Init
  <2> QED BY <2>1, <2>2, <2>3, <2>4 DEF TypeOK
<1>2. \A p \in Procs : p \notin alive /\ pc[p]["main"] = "idle"
  BY DEF Init, Threads
<1> QED BY <1>1, <1>2 DEF Types, Keyed, Ready, Writing

\* Threads come from one point to another.
LEMMA GotoTypes ==
  ASSUME TypeOK, NEW p \in Procs, NEW t \in Threads, NEW point \in Points, Goto(p, t, point)
  PROVE  /\ pc' \in [Procs -> [Threads -> Points]]
         /\ t = "main" => pc'[p]["main"] = point
         /\ \A q \in Procs : q # p \/ t # "main" => pc'[q]["main"] = pc[q]["main"]
<1>1. "main" \in Threads /\ pc \in [Procs -> [Threads -> Points]]
  BY DEF TypeOK, Threads
<1>2. pc' = [pc EXCEPT ![p] = [pc[p] EXCEPT ![t] = point]]
  BY DEF Goto
<1>3. [pc[p] EXCEPT ![t] = point] \in [Threads -> Points]
  BY <1>1
<1> QED BY <1>1, <1>2, <1>3

\* Every step keeps them.
LEMMA TypesStep == Types /\ [Next]_vars => Types'
<1> SUFFICES ASSUME Types, [Next]_vars PROVE Types'
  OBVIOUS
<1>a. /\ "main" \in Threads /\ "idle" \in Points /\ "init" \in Points /\ "in init" \in Points
      /\ "key" \in Points /\ "generated" \in Points /\ "truncated" \in Points
      /\ "remember" \in Points /\ "append" \in Points /\ "in append" \in Points
  BY DEF Threads, Points
<1>b. TypeOK
  BY DEF Types
<1>1. ASSUME NEW p \in Procs, Start(p) PROVE Types'
  <2>1. born' \in [Procs -> 0 .. starts'] /\ starts' \in 0 .. MaxStarts /\ born'[p] \in 1 .. MaxStarts
    BY <1>1, <1>b, SessionLogAssumption DEF Start, TypeOK
  <2>2. TypeOK'
    BY <1>1, <1>b, <2>1 DEF Start, TypeOK
  <2>3. \A q \in Procs \ {p} : born'[q] = born[q]
    BY <1>1, <1>b DEF Start, TypeOK
  <2> QED BY <1>1, <2>1, <2>2, <2>3 DEF Start, Keyed, Types
<1>2. ASSUME NEW p \in Procs, Dies(p) PROVE Types'
  <2>1. /\ pc' = [pc EXCEPT ![p] = [t \in Threads |-> "idle"]]
        /\ key' = [key EXCEPT ![p] = NoKey] /\ vin' = [vin EXCEPT ![p] = NoVin]
    BY <1>2 DEF Dies
  <2>2. /\ pc' \in [Procs -> [Threads -> Points]] /\ pc'[p]["main"] = "idle"
        /\ \A q \in Procs \ {p} : pc'[q] = pc[q] /\ key'[q] = key[q] /\ vin'[q] = vin[q]
    BY <1>a, <1>b, <2>1 DEF TypeOK
  <2>3. TypeOK'
    BY <1>2, <1>b, <2>2 DEF Dies, TypeOK, Keys
  <2>4. born' = born /\ alive' \subseteq alive
    BY <1>2 DEF Dies
  <2>5. \A q \in Procs \ {p} : Keyed(q)' = Keyed(q)
    BY <2>2 DEF Keyed
  <2> QED BY <2>2, <2>3, <2>4, <2>5 DEF Keyed, Ready, Writing, Types
<1>3. ASSUME NEW p \in Procs, NEW v \in Vins \cup {NoVin}, Line(p, v) PROVE Types'
  <2>1. Goto(p, "main", "init") /\ vin' = [vin EXCEPT ![p] = v]
    BY <1>3 DEF Line
  <2>2. /\ pc' \in [Procs -> [Threads -> Points]] /\ pc'[p]["main"] = "init"
        /\ \A q \in Procs \ {p} : pc'[q]["main"] = pc[q]["main"]
    BY <1>a, <1>b, <2>1, GotoTypes
  <2>3. vin' \in [Procs -> Vins \cup {NoVin}] /\ \A q \in Procs \ {p} : vin'[q] = vin[q]
    BY <1>b, <2>1 DEF TypeOK
  <2>4. TypeOK'
    BY <1>3, <1>b, <2>2, <2>3 DEF Line, TypeOK
  <2> QED BY <1>3, <2>2, <2>3, <2>4 DEF Line, Keyed, Ready, Writing, Types
<1>4. ASSUME NEW p \in Procs, NEW t \in Threads, request_stop(p, t) PROVE Types'
  <2>1. Goto(p, t, "init") /\ t # "main"
    BY <1>4 DEF request_stop
  <2>2. /\ pc' \in [Procs -> [Threads -> Points]]
        /\ \A q \in Procs : pc'[q]["main"] = pc[q]["main"]
    BY <1>a, <1>b, <2>1, GotoTypes
  <2>3. TypeOK'
    BY <1>4, <1>b, <2>2 DEF request_stop, TypeOK
  <2> QED BY <1>4, <2>2, <2>3 DEF request_stop, Keyed, Types
<1>5. ASSUME NEW p \in Procs, NEW t \in Threads, init(p, t) \/ append(p, t) PROVE Types'
  <2>1. Goto(p, t, "in init") \/ (pc[p][t] = "append" /\ Goto(p, t, "in append"))
    BY <1>5 DEF init, append, At
  <2>2. /\ pc' \in [Procs -> [Threads -> Points]]
        /\ \A q \in Procs : \/ pc'[q]["main"] = pc[q]["main"]
                            \/ pc[q]["main"] = "append" /\ pc'[q]["main"] = "in append"
                            \/ pc'[q]["main"] = "in init"
    BY <1>a, <1>b, <2>1, GotoTypes
  <2>3. TypeOK'
    BY <1>5, <1>b, <2>2 DEF init, append, Acquire, TypeOK
  <2> QED BY <1>5, <2>2, <2>3 DEF init, append, Keyed, Ready, Writing, Types
<1>6. ASSUME NEW p \in Procs, NEW t \in Threads, init_returns(p, t) PROVE Types'
  <2>1. \/ Goto(p, t, "key") /\ vin[p] # NoVin
        \/ Goto(p, t, "append") /\ (t = "main" => vin[p] = NoVin)
    BY <1>6 DEF init_returns
  <2>2. /\ pc' \in [Procs -> [Threads -> Points]]
        /\ \A q \in Procs : \/ pc'[q]["main"] = pc[q]["main"]
                            \/ pc'[q]["main"] = "key" /\ vin[q] # NoVin
                            \/ pc'[q]["main"] = "append" /\ vin[q] = NoVin
    BY <1>a, <1>b, <2>1, GotoTypes
  <2>3. TypeOK'
    BY <1>6, <1>b, <2>2 DEF init_returns, Release, TypeOK
  <2> QED BY <1>6, <2>2, <2>3 DEF init_returns, Keyed, Ready, Writing, Types
<1>7. ASSUME NEW p \in Procs, NEW t \in Threads, Leave(p, t)
      PROVE  /\ pc' \in [Procs -> [Threads -> Points]] /\ vin' \in [Procs -> Vins \cup {NoVin}]
             /\ \A q \in Procs : \/ pc'[q]["main"] = pc[q]["main"] /\ vin'[q] = vin[q]
                                 \/ pc'[q]["main"] = "idle"
  <2>1. Goto(p, t, "idle") /\ vin' = IF t = "main" THEN [vin EXCEPT ![p] = NoVin] ELSE vin
    BY <1>7 DEF Leave
  <2>2. /\ pc' \in [Procs -> [Threads -> Points]] /\ (t = "main" => pc'[p]["main"] = "idle")
        /\ \A q \in Procs : q # p \/ t # "main" => pc'[q]["main"] = pc[q]["main"]
    BY <1>a, <1>b, <2>1, GotoTypes
  <2>3. /\ vin' \in [Procs -> Vins \cup {NoVin}]
        /\ \A q \in Procs : vin'[q] = vin[q] \/ (q = p /\ t = "main")
    BY <1>b, <2>1 DEF TypeOK
  <2> QED BY <1>a, <2>2, <2>3
<1>8. ASSUME NEW p \in Procs, NEW t \in Threads, WriteFails(p, t) PROVE Types'
  <2>1. Leave(p, t)
    BY <1>8 DEF WriteFails
  <2>2. TypeOK'
    BY <1>7, <1>8, <1>b, <2>1 DEF WriteFails, Release, TypeOK
  <2> QED BY <1>7, <1>8, <2>1, <2>2 DEF WriteFails, Keyed, Ready, Writing, Types
<1>9. ASSUME NEW p \in Procs, NEW t \in Threads, append_returns(p, t) PROVE Types'
  <2>1. Leave(p, t)
    BY <1>9 DEF append_returns
  <2>2. logged' \subseteq Tokens
    <3>1. CASE t = "main" /\ vin[p] # NoVin
      <4>1. key[p] # NoKey
        BY <1>9, <3>1 DEF append_returns, At, Types, Keyed, Ready
      <4>2. key[p] \in Keys \ {NoKey} /\ vin[p] \in Vins
        BY <1>b, <3>1, <4>1 DEF TypeOK
      <4>3. Token(p) \in Tokens
        BY <4>2 DEF Token, Tokens
      <4> QED BY <1>9, <1>b, <4>3 DEF append_returns, TypeOK
    <3>2. CASE ~(t = "main" /\ vin[p] # NoVin)
      BY <1>9, <1>b, <3>2 DEF append_returns, TypeOK
    <3> QED BY <3>1, <3>2
  <2>3. TypeOK'
    BY <1>7, <1>9, <1>b, <2>1, <2>2 DEF append_returns, Release, TypeOK
  <2> QED BY <1>7, <1>9, <2>1, <2>3 DEF append_returns, Keyed, Ready, Writing, Types
<1>10. ASSUME NEW p \in Procs, KeyUnreadable(p) \/ KeyFails(p) PROVE Types'
  <2>1. Leave(p, "main")
    BY <1>10 DEF KeyUnreadable, KeyFails
  <2>2. TypeOK'
    BY <1>7, <1>10, <1>a, <1>b, <2>1 DEF KeyUnreadable, KeyFails, TypeOK
  <2> QED BY <1>7, <1>10, <1>a, <2>1, <2>2 DEF KeyUnreadable, KeyFails, Keyed, Ready, Writing, Types
<1>11. ASSUME NEW p \in Procs, vin_key(p) PROVE Types'
  <2>1. p \in alive /\ pc[p]["main"] = "key" /\ NewKey(born[p]) \in NewKeys
    BY <1>11, KeySorts DEF vin_key, At, Runs, Types
  <2>2. \/ Goto(p, "main", "remember") /\ (key[p] # NoKey \/ env \/ file # NoKey)
        \/ Goto(p, "main", "generated") /\ key[p] = NoKey /\ ~env /\ file = NoKey
    BY <1>11 DEF vin_key
  <2>3. /\ pc' \in [Procs -> [Threads -> Points]]
        /\ \A q \in Procs \ {p} : pc'[q]["main"] = pc[q]["main"]
        /\ \/ pc'[p]["main"] = "remember" /\ (key[p] # NoKey \/ env \/ file # NoKey)
           \/ pc'[p]["main"] = "generated" /\ key[p] = NoKey /\ ~env /\ file = NoKey
    BY <1>a, <1>b, <2>2, GotoTypes
  <2>4. /\ key' \in [Procs -> Keys] /\ \A q \in Procs \ {p} : key'[q] = key[q]
        /\ key'[p] = IF key[p] # NoKey THEN key[p] ELSE IF env THEN EnvKey
                     ELSE IF file # NoKey THEN file ELSE NewKey(born[p])
    BY <1>11, <1>b, <2>1 DEF vin_key, TypeOK, Keys
  <2>5. TypeOK'
    BY <1>11, <1>b, <2>3, <2>4 DEF vin_key, TypeOK, BeingWritten
  <2> QED BY <1>11, <2>1, <2>3, <2>4, <2>5, KeySorts DEF vin_key, Keyed, Ready, Writing, Types
<1>12. ASSUME NEW p \in Procs, KeyTruncates(p) \/ KeyStored(p) PROVE Types'
  <2>1. /\ pc[p]["main"] \in Writing
        /\ Goto(p, "main", "truncated") \/ Goto(p, "main", "remember")
    BY <1>12 DEF KeyTruncates, KeyStored, At, Writing
  <2>2. /\ pc' \in [Procs -> [Threads -> Points]]
        /\ \A q \in Procs \ {p} : pc'[q]["main"] = pc[q]["main"]
        /\ pc'[p]["main"] \in {"truncated", "remember"}
    BY <1>a, <1>b, <2>1, GotoTypes
  <2>3. key[p] \in NewKeys /\ vin[p] # NoVin
    BY <2>1 DEF Types
  <2>4. TypeOK'
    BY <1>12, <1>b, <2>2, <2>3 DEF KeyTruncates, KeyStored, TypeOK
  <2> QED BY <1>12, <2>2, <2>3, <2>4, KeySorts
          DEF KeyTruncates, KeyStored, Keyed, Ready, Writing, Types
<1>13. ASSUME NEW p \in Procs, remember(p) \/ RememberFails(p) PROVE Types'
  <2>1. pc[p]["main"] = "remember" /\ Goto(p, "main", "append")
    BY <1>13 DEF remember, RememberFails, At
  <2>2. /\ pc' \in [Procs -> [Threads -> Points]]
        /\ \A q \in Procs \ {p} : pc'[q]["main"] = pc[q]["main"]
        /\ pc'[p]["main"] = "append"
    BY <1>a, <1>b, <2>1, GotoTypes
  <2>3. key[p] # NoKey /\ vin[p] # NoVin
    BY <2>1 DEF Types, Keyed
  <2>4. key[p] \in Keys \ {NoKey} /\ vin[p] \in Vins
    BY <1>b, <2>3 DEF TypeOK
  <2>5. Token(p) \in Tokens
    BY <2>4 DEF Token, Tokens
  <2>6. TypeOK'
    <3>1. CASE remember(p)
      BY <1>b, <2>2, <2>5, <3>1 DEF remember, Loaded, TypeOK
    <3>2. CASE RememberFails(p)
      BY <1>b, <2>2, <2>5, <3>2 DEF RememberFails, TypeOK
    <3> QED BY <1>13, <3>1, <3>2
  <2> QED BY <1>13, <2>2, <2>3, <2>6 DEF remember, RememberFails, Keyed, Ready, Writing, Types
<1>14. CASE UNCHANGED vars
  BY <1>14 DEF vars, TypeOK, Keyed, Types
<1> QED BY <1>1, <1>2, <1>3, <1>4, <1>5, <1>6, <1>8, <1>9, <1>10, <1>11, <1>12, <1>13, <1>14, <1>a
        DEF Next, Step, KeyStep

\* TypeOK: every file, key and token is one that the code can have made.
THEOREM TypeInvariant == Spec => []TypeOK
<1>1. Types => TypeOK
  BY DEF Types
<1> QED BY <1>1, TypesInit, TypesStep, PTL DEF Spec

-----------------------------------------------------------------------------
(* Tokens.                                                                 *)

\* What is known to be in the keyring is, and a token that is in a log, or about
\* to be, is in the keyring or could not be kept.
Rings ==
  /\ \A p \in Procs :
       /\ known[p] \subseteq ring
       /\ pc[p]["main"] \in Ready /\ vin[p] # NoVin => Token(p) \in ring \cup unkept
  /\ logged \subseteq ring \cup unkept

\* A thread that leaves _write.
LEMMA LeaveTypes ==
  ASSUME Types, NEW p \in Procs, NEW t \in Threads, Leave(p, t)
  PROVE  \A q \in Procs : \/ pc'[q]["main"] = pc[q]["main"] /\ vin'[q] = vin[q]
                          \/ q = p /\ t = "main" /\ pc'[q]["main"] = "idle"
<1>1. TypeOK /\ "idle" \in Points
  BY DEF Types, Points
<1>2. Goto(p, t, "idle") /\ vin' = IF t = "main" THEN [vin EXCEPT ![p] = NoVin] ELSE vin
  BY DEF Leave
<1>3. /\ t = "main" => pc'[p]["main"] = "idle"
      /\ \A q \in Procs : q # p \/ t # "main" => pc'[q]["main"] = pc[q]["main"]
  BY <1>1, <1>2, GotoTypes
<1>4. \A q \in Procs : vin'[q] = vin[q] \/ (q = p /\ t = "main")
  BY <1>1, <1>2 DEF TypeOK
<1> QED BY <1>3, <1>4

\* A process's line, in the steps that have no part in what Rings and OneKey say.
Quiet(p) ==
  \/ pc'[p]["main"] = pc[p]["main"] /\ vin'[p] = vin[p]
  \/ pc[p]["main"] = "append" /\ pc'[p]["main"] = "in append" /\ vin'[p] = vin[p]
  \/ /\ pc[p]["main"] \notin Writing /\ pc'[p]["main"] \notin Writing
     /\ pc'[p]["main"] \in Ready => vin'[p] = NoVin

\* These are the steps.
LEMMA QuietStep ==
  ASSUME Types, NEW p \in Procs, NEW t \in Threads, NEW v \in Vins \cup {NoVin},
         \/ Start(p) \/ Line(p, v) \/ request_stop(p, t) \/ init(p, t) \/ init_returns(p, t)
         \/ append(p, t) \/ WriteFails(p, t) \/ KeyUnreadable(p)
  PROVE  \A q \in Procs : Quiet(q)
<1>a. /\ "main" \in Threads /\ "init" \in Points /\ "in init" \in Points
      /\ "key" \in Points /\ "append" \in Points /\ "in append" \in Points
  BY DEF Threads, Points
<1>b. TypeOK
  BY DEF Types
<1>1. CASE Start(p)
  BY <1>1 DEF Start, Quiet
<1>2. CASE Line(p, v)
  <2>1. /\ Goto(p, "main", "init") /\ pc[p]["main"] = "idle"
        /\ \A q \in Procs \ {p} : vin'[q] = vin[q]
    BY <1>2, <1>b DEF Line, At, TypeOK
  <2>2. pc'[p]["main"] = "init" /\ \A q \in Procs \ {p} : pc'[q]["main"] = pc[q]["main"]
    BY <1>a, <1>b, <2>1, GotoTypes
  <2> QED BY <2>1, <2>2 DEF Quiet, Ready, Writing
<1>3. CASE request_stop(p, t)
  <2>1. Goto(p, t, "init") /\ t # "main" /\ vin' = vin
    BY <1>3 DEF request_stop
  <2>2. \A q \in Procs : pc'[q]["main"] = pc[q]["main"]
    BY <1>a, <1>b, <2>1, GotoTypes
  <2> QED BY <2>1, <2>2 DEF Quiet
<1>4. CASE init(p, t)
  <2>1. Goto(p, t, "in init") /\ pc[p][t] = "init" /\ vin' = vin
    BY <1>4 DEF init, At
  <2>2. /\ t = "main" => pc'[p]["main"] = "in init"
        /\ \A q \in Procs : q # p \/ t # "main" => pc'[q]["main"] = pc[q]["main"]
    BY <1>a, <1>b, <2>1, GotoTypes
  <2> QED BY <2>1, <2>2 DEF Quiet, Ready, Writing
<1>5. CASE init_returns(p, t)
  <2>1. pc[p][t] = "in init" /\ vin' = vin
    BY <1>5 DEF init_returns, At
  <2>2. CASE t = "main" /\ vin[p] # NoVin
    <3>1. Goto(p, t, "key")
      BY <1>5, <2>2 DEF init_returns
    <3>2. /\ pc'[p]["main"] = "key"
          /\ \A q \in Procs \ {p} : pc'[q]["main"] = pc[q]["main"]
      BY <1>a, <1>b, <2>2, <3>1, GotoTypes
    <3> QED BY <2>1, <2>2, <3>2 DEF Quiet, Ready, Writing
  <2>3. CASE ~(t = "main" /\ vin[p] # NoVin)
    <3>1. Goto(p, t, "append")
      BY <1>5, <2>3 DEF init_returns
    <3>2. /\ t = "main" => pc'[p]["main"] = "append"
          /\ \A q \in Procs : q # p \/ t # "main" => pc'[q]["main"] = pc[q]["main"]
      BY <1>a, <1>b, <3>1, GotoTypes
    <3> QED BY <2>1, <2>3, <3>2 DEF Quiet, Ready, Writing
  <2> QED BY <2>2, <2>3
<1>6. CASE append(p, t)
  <2>1. Goto(p, t, "in append") /\ pc[p][t] = "append" /\ vin' = vin
    BY <1>6 DEF append, At
  <2>2. /\ t = "main" => pc'[p]["main"] = "in append"
        /\ \A q \in Procs : q # p \/ t # "main" => pc'[q]["main"] = pc[q]["main"]
    BY <1>a, <1>b, <2>1, GotoTypes
  <2> QED BY <2>1, <2>2 DEF Quiet
<1>7. CASE WriteFails(p, t)
  <2>1. Leave(p, t) /\ pc[p][t] \in {"in init", "in append"}
    BY <1>7 DEF WriteFails, At
  <2>2. \A q \in Procs : \/ pc'[q]["main"] = pc[q]["main"] /\ vin'[q] = vin[q]
                         \/ q = p /\ t = "main" /\ pc'[q]["main"] = "idle"
    BY <2>1, LeaveTypes
  <2> QED BY <2>1, <2>2 DEF Quiet, Ready, Writing
<1>8. CASE KeyUnreadable(p)
  <2>1. Leave(p, "main") /\ pc[p]["main"] = "key"
    BY <1>8 DEF KeyUnreadable, At
  <2> QED BY <1>a, <2>1, LeaveTypes DEF Quiet, Ready, Writing
<1> QED BY <1>1, <1>2, <1>3, <1>4, <1>5, <1>6, <1>7, <1>8

\* Every step keeps Rings.
LEMMA RingsStep == Types /\ Rings /\ [Next]_vars => Rings'
<1> SUFFICES ASSUME Types, Rings, [Next]_vars PROVE Rings'
  OBVIOUS
<1>a. "main" \in Threads /\ "remember" \in Points /\ "append" \in Points
      /\ "generated" \in Points /\ "truncated" \in Points
  BY DEF Threads, Points
<1>b. TypeOK
  BY DEF Types
<1>1. ASSUME NEW p \in Procs, NEW t \in Threads, NEW v \in Vins \cup {NoVin},
             \/ Start(p) \/ Line(p, v) \/ request_stop(p, t) \/ init(p, t) \/ init_returns(p, t)
             \/ append(p, t) \/ WriteFails(p, t) \/ KeyUnreadable(p)
      PROVE  Rings'
  <2>1. UNCHANGED <<ring, logged, unkept, key, known>>
    BY <1>1 DEF Start, Line, request_stop, init, init_returns, append, WriteFails, KeyUnreadable
  <2>2. \A q \in Procs : Quiet(q)
    BY <1>1, QuietStep
  <2> QED BY <2>1, <2>2 DEF Rings, Quiet, Ready, Token
<1>2. ASSUME NEW p \in Procs, Dies(p) PROVE Rings'
  <2>1. /\ pc' = [pc EXCEPT ![p] = [t \in Threads |-> "idle"]]
        /\ key' = [key EXCEPT ![p] = NoKey] /\ vin' = [vin EXCEPT ![p] = NoVin]
        /\ known' = [known EXCEPT ![p] = {}]
        /\ UNCHANGED <<ring, logged, unkept>>
    BY <1>2 DEF Dies
  <2>2. /\ pc'[p]["main"] = "idle" /\ known'[p] = {}
        /\ \A q \in Procs \ {p} : /\ pc'[q] = pc[q] /\ key'[q] = key[q] /\ vin'[q] = vin[q]
                                  /\ known'[q] = known[q]
    BY <1>a, <1>b, <2>1 DEF TypeOK
  <2> QED BY <2>1, <2>2 DEF Rings, Ready, Token
<1>3. ASSUME NEW p \in Procs, NEW t \in Threads, append_returns(p, t) PROVE Rings'
  <2>1. /\ Leave(p, t) /\ UNCHANGED <<ring, unkept, key, known>>
        /\ pc[p][t] = "in append"
        /\ logged' = IF t = "main" /\ vin[p] # NoVin THEN logged \cup {Token(p)} ELSE logged
    BY <1>3 DEF append_returns, At
  <2>2. logged' \subseteq ring \cup unkept
    BY <2>1 DEF Rings, Ready
  <2>3. \A q \in Procs : \/ pc'[q]["main"] = pc[q]["main"] /\ vin'[q] = vin[q]
                         \/ pc'[q]["main"] = "idle"
    BY <2>1, LeaveTypes
  <2> QED BY <2>1, <2>2, <2>3 DEF Rings, Ready, Token
<1>4. ASSUME NEW p \in Procs, KeyFails(p) PROVE Rings'
  <2>1. Leave(p, "main") /\ UNCHANGED <<ring, logged, unkept, key, known>>
    BY <1>4 DEF KeyFails
  <2>2. \A q \in Procs : \/ pc'[q]["main"] = pc[q]["main"] /\ vin'[q] = vin[q]
                         \/ pc'[q]["main"] = "idle"
    BY <1>a, <2>1, LeaveTypes
  <2> QED BY <2>1, <2>2 DEF Rings, Ready, Token
<1>5. ASSUME NEW p \in Procs, vin_key(p) \/ KeyTruncates(p) \/ KeyStored(p) PROVE Rings'
  <2>1. /\ UNCHANGED <<ring, logged, unkept, known, vin>>
        /\ \A q \in Procs \ {p} : key'[q] = key[q]
    BY <1>5, <1>b DEF vin_key, KeyTruncates, KeyStored, TypeOK
  <2>2. PICK point \in {"remember", "generated", "truncated"} : Goto(p, "main", point)
    BY <1>5 DEF vin_key, KeyTruncates, KeyStored
  <2>3. /\ pc'[p]["main"] = point
        /\ \A q \in Procs \ {p} : pc'[q]["main"] = pc[q]["main"]
    BY <1>a, <1>b, <2>2, GotoTypes
  <2> QED BY <2>1, <2>3 DEF Rings, Ready, Token
<1>6. ASSUME NEW p \in Procs, remember(p) \/ RememberFails(p) PROVE Rings'
  <2>1. Goto(p, "main", "append") /\ UNCHANGED <<logged, key, vin>>
    BY <1>6 DEF remember, RememberFails
  <2>2. \A q \in Procs \ {p} : pc'[q]["main"] = pc[q]["main"]
    BY <1>a, <1>b, <2>1, GotoTypes
  <2>3. Token(p) \in ring' \cup unkept' /\ ring \subseteq ring' /\ unkept \subseteq unkept'
    BY <1>6 DEF remember, RememberFails, Known, Loaded, Rings
  <2>4. \A q \in Procs : known'[q] \subseteq ring'
    <3>1. CASE remember(p)
      BY <1>b, <3>1 DEF remember, Known, Loaded, Rings, TypeOK
    <3>2. CASE RememberFails(p)
      BY <3>2 DEF RememberFails, Rings
    <3> QED BY <1>6, <3>1, <3>2
  <2> QED BY <2>1, <2>2, <2>3, <2>4 DEF Rings, Token
<1>7. CASE UNCHANGED vars
  BY <1>7 DEF vars, Rings, Token
<1> QED BY <1>1, <1>2, <1>3, <1>4, <1>5, <1>6, <1>7, <1>a DEF Next, Step, KeyStep

\* Decodable: every token in a log is in the keyring, or was in a line that was
\* written while the keyring could not be.
THEOREM RingInvariant == Spec => []Decodable
<1>1. Init => Rings
  BY DEF Init, Rings, Ready, Threads
<1>2. Rings => Decodable
  BY DEF Rings, Decodable, decode_token
<1> QED BY <1>1, <1>2, TypesInit, TypesStep, RingsStep, PTL DEF Spec

-----------------------------------------------------------------------------
(* One key.                                                                *)

\* With a key in the environment there is no other.
Given ==
  env => /\ \A p \in Procs : key[p] \in {NoKey, EnvKey} /\ pc[p]["main"] \notin Writing
         /\ \A t \in logged : t.key = EnvKey

\* Else the key in use is the file's.  While a process writes a new one nobody
\* else has a key, and no line a token.
Shared ==
  ~env /\ ~clash =>
    /\ \A p \in Procs : key[p] # NoKey => key[p] = file \/ pc[p]["main"] \in Writing
    /\ \A t \in logged : t.key = file
    /\ \A p \in Procs : pc[p]["main"] \in Writing =>
         logged = {} /\ \A q \in Procs \ {p} : key[q] = NoKey

OneKey == Given /\ Shared

\* A token is of a key, and of a VIN.
LEMMA TokenShape ==
  /\ \A t \in Tokens : t.key # NoKey /\ t = vin_token(t.key, t.vin)
  /\ \A p \in Procs : Token(p).key = key[p]
BY DEF Tokens, vin_token, Token

\* Every step keeps OneKey.
LEMMA OneKeyStep == Types /\ OneKey /\ [Next]_vars => OneKey'
<1> SUFFICES ASSUME Types, OneKey, [Next]_vars PROVE OneKey'
  OBVIOUS
<1>a. /\ "main" \in Threads /\ "remember" \in Points /\ "append" \in Points
      /\ "generated" \in Points /\ "truncated" \in Points
  BY DEF Threads, Points
<1>b. TypeOK
  BY DEF Types
<1>1. ASSUME NEW p \in Procs, NEW t \in Threads, NEW v \in Vins \cup {NoVin},
             \/ Start(p) \/ Line(p, v) \/ request_stop(p, t) \/ init(p, t) \/ init_returns(p, t)
             \/ append(p, t) \/ WriteFails(p, t) \/ KeyUnreadable(p)
      PROVE  OneKey'
  <2>1. UNCHANGED <<env, file, logged, key, clash>>
    BY <1>1 DEF Start, Line, request_stop, init, init_returns, append, WriteFails, KeyUnreadable
  <2>2. \A q \in Procs : pc'[q]["main"] \in Writing <=> pc[q]["main"] \in Writing
    BY <1>1, QuietStep DEF Quiet, Writing
  <2> QED BY <2>1, <2>2 DEF OneKey, Given, Shared
<1>2. ASSUME NEW p \in Procs, Dies(p) PROVE OneKey'
  <2>1. /\ pc' = [pc EXCEPT ![p] = [t \in Threads |-> "idle"]]
        /\ key' = [key EXCEPT ![p] = NoKey]
        /\ UNCHANGED <<env, file, logged>> /\ clash' = (clash \/ pc[p]["main"] = "truncated")
    BY <1>2 DEF Dies
  <2>2. /\ pc'[p]["main"] \notin Writing /\ key'[p] = NoKey
        /\ \A q \in Procs \ {p} : pc'[q] = pc[q] /\ key'[q] = key[q]
    BY <1>a, <1>b, <2>1 DEF TypeOK, Writing
  <2>3. clash \in BOOLEAN
    BY <1>b DEF TypeOK
  <2> QED BY <2>1, <2>2, <2>3 DEF OneKey, Given, Shared
<1>3. ASSUME NEW p \in Procs, NEW t \in Threads, append_returns(p, t) PROVE OneKey'
  <2>1. /\ Leave(p, t) /\ UNCHANGED <<env, file, key, clash>>
        /\ pc[p][t] = "in append"
        /\ logged' = IF t = "main" /\ vin[p] # NoVin THEN logged \cup {Token(p)} ELSE logged
    BY <1>3 DEF append_returns, At
  <2>2. \A q \in Procs : \/ pc'[q]["main"] = pc[q]["main"]
                         \/ q = p /\ t = "main" /\ pc'[q]["main"] = "idle"
    BY <2>1, LeaveTypes
  <2>3. \A q \in Procs : pc'[q]["main"] \in Writing <=> pc[q]["main"] \in Writing
    BY <2>1, <2>2 DEF Writing
  <2>4. CASE t = "main" /\ vin[p] # NoVin
    <3>1. /\ key[p] # NoKey /\ pc[p]["main"] \notin Writing
          /\ logged' = logged \cup {Token(p)} /\ Token(p).key = key[p]
      BY <2>1, <2>4, TokenShape DEF Types, Keyed, Ready, Writing
    <3>2. Given'
      BY <2>1, <2>3, <3>1 DEF OneKey, Given
    <3>3. Shared'
      BY <2>1, <2>3, <3>1 DEF OneKey, Shared
    <3> QED BY <3>2, <3>3 DEF OneKey
  <2>5. CASE ~(t = "main" /\ vin[p] # NoVin)
    BY <2>1, <2>3, <2>5 DEF OneKey, Given, Shared
  <2> QED BY <2>4, <2>5
<1>4. ASSUME NEW p \in Procs, KeyFails(p) PROVE OneKey'
  <2>1. Leave(p, "main") /\ UNCHANGED <<env, logged, key>> /\ clash'
    BY <1>4 DEF KeyFails
  <2>2. \A q \in Procs : pc'[q]["main"] = pc[q]["main"] \/ pc'[q]["main"] = "idle"
    BY <1>a, <2>1, LeaveTypes
  <2> QED BY <2>1, <2>2 DEF OneKey, Given, Shared, Writing
<1>5. ASSUME NEW p \in Procs, vin_key(p) PROVE OneKey'
  <2>1. /\ UNCHANGED <<env, file, logged>> /\ pc[p]["main"] = "key"
        /\ clash' = (clash \/ (key[p] = NoKey /\ ~env /\ BeingWritten))
        /\ \/ Goto(p, "main", "remember") /\ (key[p] # NoKey \/ env \/ file # NoKey)
           \/ Goto(p, "main", "generated") /\ key[p] = NoKey /\ ~env /\ file = NoKey
    BY <1>5 DEF vin_key, At
  <2>2. /\ \A q \in Procs \ {p} : pc'[q]["main"] = pc[q]["main"]
        /\ \/ pc'[p]["main"] = "remember" /\ (key[p] # NoKey \/ env \/ file # NoKey)
           \/ pc'[p]["main"] = "generated" /\ key[p] = NoKey /\ ~env /\ file = NoKey
    BY <1>a, <1>b, <2>1, GotoTypes
  <2>3. /\ \A q \in Procs \ {p} : key'[q] = key[q]
        /\ key'[p] = IF key[p] # NoKey THEN key[p] ELSE IF env THEN EnvKey
                     ELSE IF file # NoKey THEN file ELSE NewKey(born[p])
    BY <1>5, <1>b DEF vin_key, TypeOK
  <2>4. Given'
    BY <2>1, <2>2, <2>3 DEF OneKey, Given, Writing
  <2>5. Shared'
    <3> SUFFICES ASSUME ~env, ~clash, ~(key[p] = NoKey /\ BeingWritten) PROVE Shared'
      BY <1>b, <2>1 DEF Shared, TypeOK
    <3>1. CASE key[p] # NoKey
      BY <2>1, <2>2, <2>3, <3>1 DEF OneKey, Shared, Writing
    <3>2. CASE key[p] = NoKey /\ file # NoKey
      BY <2>1, <2>2, <2>3, <3>2 DEF OneKey, Shared, Writing, BeingWritten
    <3>3. CASE key[p] = NoKey /\ file = NoKey
      <4>1. \A q \in Procs : pc[q]["main"] \notin Writing
        BY <3>3 DEF BeingWritten
      <4>2. \A q \in Procs : key[q] = NoKey
        BY <3>3, <4>1 DEF OneKey, Shared
      <4>3. logged = {}
        BY <1>b, <3>3, TokenShape DEF OneKey, Shared, TypeOK
      <4>4. pc'[p]["main"] = "generated"
        BY <2>2, <3>3
      <4> QED BY <2>1, <2>2, <2>3, <4>1, <4>2, <4>3, <4>4 DEF Shared, Writing
    <3> QED BY <3>1, <3>2, <3>3
  <2> QED BY <2>4, <2>5 DEF OneKey
<1>6. ASSUME NEW p \in Procs, KeyTruncates(p) \/ KeyStored(p) PROVE OneKey'
  <2>1. /\ UNCHANGED <<env, logged, key, clash>> /\ pc[p]["main"] \in Writing
        /\ Goto(p, "main", "truncated") \/ (Goto(p, "main", "remember") /\ file' = key[p])
    BY <1>6 DEF KeyTruncates, KeyStored, At, Writing
  <2>2. /\ \A q \in Procs \ {p} : pc'[q]["main"] = pc[q]["main"]
        /\ \/ pc'[p]["main"] = "truncated"
           \/ pc'[p]["main"] = "remember" /\ file' = key[p]
    BY <1>a, <1>b, <2>1, GotoTypes
  <2>3. ~env /\ key[p] # NoKey
    BY <2>1, KeySorts DEF OneKey, Given, Types
  <2>4. ~clash => /\ logged = {} /\ \A q \in Procs \ {p} : key[q] = NoKey
                  /\ \A q \in Procs \ {p} : pc[q]["main"] \notin Writing
    BY <2>1, <2>3 DEF OneKey, Shared
  <2> QED BY <2>1, <2>2, <2>3, <2>4 DEF OneKey, Given, Shared, Writing
<1>7. ASSUME NEW p \in Procs, remember(p) \/ RememberFails(p) PROVE OneKey'
  <2>1. /\ Goto(p, "main", "append") /\ pc[p]["main"] = "remember"
        /\ UNCHANGED <<env, file, logged, key, clash>>
    BY <1>7 DEF remember, RememberFails, At
  <2>2. pc'[p]["main"] = "append" /\ \A q \in Procs \ {p} : pc'[q]["main"] = pc[q]["main"]
    BY <1>a, <1>b, <2>1, GotoTypes
  <2>3. \A q \in Procs : pc'[q]["main"] \in Writing <=> pc[q]["main"] \in Writing
    BY <2>1, <2>2 DEF Writing
  <2> QED BY <2>1, <2>3 DEF OneKey, Given, Shared
<1>8. CASE UNCHANGED vars
  BY <1>8 DEF vars, OneKey, Given, Shared
<1> QED BY <1>1, <1>2, <1>3, <1>4, <1>5, <1>6, <1>7, <1>8, <1>a DEF Next, Step, KeyStep

\* SameToken: a vehicle has one token in all logs, if its key is given or no
\* process met the key file half written.
THEOREM KeyInvariant == Spec => []SameToken
<1>1. Init => OneKey
  BY DEF Init, OneKey, Given, Shared, Threads, Writing
<1>2. Types /\ OneKey => SameToken
  <2> SUFFICES ASSUME Types, OneKey, env \/ ~clash, NEW t \in logged, NEW u \in logged,
                      t.vin = u.vin
               PROVE  t = u
    BY DEF SameToken
  <2>1. t.key = u.key
    BY DEF OneKey, Given, Shared
  <2>2. t \in Tokens /\ u \in Tokens
    BY DEF Types, TypeOK
  <2> QED BY <2>1, <2>2, TokenShape
<1> QED BY <1>1, <1>2, TypesInit, TypesStep, OneKeyStep, PTL DEF Spec
=============================================================================
