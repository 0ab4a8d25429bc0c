---------------------------- MODULE SortingProofs ----------------------------
(***************************************************************************)
(* What Sorting defines by CHOOSE is there, for every finite set and every *)
(* list of numbers; and what FlattenSeq of the community modules returns,  *)
(* which is a recursive function.  Each is an induction over the numbers.  *)
(* It is carried out on the least number for which there is a              *)
(* counterexample.                                                         *)
(***************************************************************************)
EXTENDS Sorting, SequencesExt, FiniteSetTheorems, SequenceTheorems, WellFoundedInduction, TLAPS

\* Every set of natural numbers that is not empty has a least one.
LEMMA LeastElement ==
  ASSUME NEW T \in SUBSET Nat, T # {}
  PROVE  \E n \in T : \A m \in T : n <= m
<1> DEFINE Less == {ss \in Nat \X Nat : ss[1] < ss[2]}
<1>1. IsWellFoundedOn(Less, Nat)
  BY NatLessThanWellFounded DEF OpToRel
<1>2. \E n \in T : \A m \in T : <<m, n>> \notin Less
  <2> HIDE DEF Less
  <2> QED BY <1>1, WFMin
<1>3. PICK n \in T : \A m \in T : <<m, n>> \notin Less
  BY <1>2
<1>4. ASSUME NEW m \in T PROVE n <= m
  <2> SUFFICES ASSUME m < n PROVE <<m, n>> \in Less
    BY <1>3
  <2> QED OBVIOUS
<1> QED BY <1>4

-----------------------------------------------------------------------------
(* Sets.                                                                   *)

Enumerable(S) == \E s \in [1 .. Cardinality(S) -> S] : Increasing(s)

\* A set with a least element m is put in order when the others are.
LEMMA EnumerateOneMore ==
  ASSUME NEW S \in SUBSET Nat, IsFiniteSet(S), S # {},
         NEW m \in S, \A k \in S : m <= k,
         Enumerable(S \ {m})
  PROVE  Enumerable(S)
<1> DEFINE n == Cardinality(S)
<1>1. Cardinality(S \ {m}) = n - 1 /\ n \in Nat /\ n # 0
  BY FS_RemoveElement, FS_CardinalityType, FS_EmptySet
<1> HIDE DEF n
<1>2. PICK s \in [1 .. n - 1 -> S \ {m}] : Increasing(s)
  BY <1>1 DEF Enumerable
<1> DEFINE t == [i \in 1 .. n |-> IF i = 1 THEN m ELSE s[i - 1]]
<1>3. t \in [1 .. n -> S]
  BY <1>1, <1>2
<1>4. ASSUME NEW i \in 1 .. n, NEW j \in 1 .. n, i < j PROVE t[i] < t[j]
  <2>1. j - 1 \in 1 .. n - 1 /\ t[j] = s[j - 1] /\ s[j - 1] \in S \ {m}
    BY <1>1, <1>2, <1>4
  <2>2. CASE i = 1
    <3>1. t[i] = m
      BY <2>2
    <3>2. m \in Nat /\ s[j - 1] \in Nat /\ m <= s[j - 1] /\ m # s[j - 1]
      BY <2>1
    <3> QED BY <2>1, <3>1, <3>2
  <2>3. CASE i # 1
    <3>1. i - 1 \in 1 .. n - 1 /\ t[i] = s[i - 1] /\ i - 1 < j - 1
      BY <1>1, <1>4, <2>3
    <3> HIDE DEF t
    <3> QED BY <1>2, <2>1, <3>1 DEF Increasing
  <2> QED BY <2>2, <2>3
<1>5. Increasing(t)
  BY <1>4 DEF Increasing
<1> HIDE DEF t
<1> QED BY <1>3, <1>5 DEF Enumerable, n

\* Every finite set of numbers can be put in order.
LEMMA FiniteEnumerable ==
  ASSUME NEW S \in SUBSET Nat, IsFiniteSet(S)
  PROVE  Enumerable(S)
<1> DEFINE Bad == {n \in Nat : \E U \in SUBSET Nat :
                     IsFiniteSet(U) /\ Cardinality(U) = n /\ ~Enumerable(U)}
<1> SUFFICES ASSUME Bad # {} PROVE FALSE
  BY FS_CardinalityType
<1>1. PICK n \in Bad : \A k \in Bad : n <= k
  BY LeastElement
<1>2. PICK U \in SUBSET Nat : IsFiniteSet(U) /\ Cardinality(U) = n /\ ~Enumerable(U)
  OBVIOUS
<1>3. CASE U = {}
  <2>1. Cardinality(U) = 0
    BY <1>3, FS_EmptySet
  <2>2. [i \in 1 .. 0 |-> i] \in [1 .. Cardinality(U) -> U]
    BY <2>1
  <2>3. Increasing([i \in 1 .. 0 |-> i])
    BY DEF Increasing
  <2> QED BY <1>2, <2>2, <2>3 DEF Enumerable
<1>4. CASE U # {}
  <2>1. PICK m \in U : \A k \in U : m <= k
    BY <1>4, LeastElement
  <2>2. IsFiniteSet(U \ {m}) /\ Cardinality(U \ {m}) = n - 1
    BY <1>2, FS_RemoveElement
  <2>3. n - 1 \in Nat
    BY <1>2, <2>2, FS_CardinalityType
  <2>4. Enumerable(U \ {m})
    <3> SUFFICES ASSUME ~Enumerable(U \ {m}) PROVE FALSE
      OBVIOUS
    <3>1. n - 1 \in Bad /\ n \in Nat
      BY <2>2, <2>3
    <3> HIDE DEF Bad
    <3> QED BY <1>1, <2>3, <3>1
  <2> HIDE DEF Bad
  <2> QED BY <1>2, <1>4, <2>1, <2>4, EnumerateOneMore
<1> QED BY <1>3, <1>4

\* InOrder lists all elements of a set, each once and in order.
LEMMA InOrderLists ==
  ASSUME NEW S \in SUBSET Nat, IsFiniteSet(S)
  PROVE  /\ InOrder(S) \in Seq(S) /\ Len(InOrder(S)) = Cardinality(S)
         /\ DOMAIN InOrder(S) = 1 .. Cardinality(S)
         /\ Increasing(InOrder(S))
         /\ \A i, j \in DOMAIN InOrder(S) : InOrder(S)[i] = InOrder(S)[j] => i = j
         /\ {InOrder(S)[i] : i \in DOMAIN InOrder(S)} = S
<1> DEFINE n == Cardinality(S)
           s == InOrder(S)
<1>1. n \in Nat
  BY FS_CardinalityType
<1>2. s \in [1 .. n -> S] /\ Increasing(s)
  BY FiniteEnumerable DEF Enumerable, InOrder
<1> HIDE DEF n, s
<1>3. s \in Seq(S) /\ Len(s) = n /\ DOMAIN s = 1 .. n
  BY <1>1, <1>2
<1>4. \A i, j \in DOMAIN s : s[i] = s[j] => i = j
  <2>1. \A i \in 1 .. n : s[i] \in Nat
    BY <1>2
  <2> QED BY <1>1, <1>2, <1>3, <2>1 DEF Increasing
<1>5. s \in Injection(1 .. n, S)
  BY <1>2, <1>4 DEF Injection, IsInjective
<1>6. s \in Surjection(1 .. n, S)
  <2>1. Cardinality(1 .. n) = n
    BY <1>1, FS_Interval
  <2> QED BY <1>5, <2>1, FS_Injection DEF n
<1>7. {s[i] : i \in DOMAIN s} = S
  BY <1>2, <1>3, <1>6 DEF Surjection
<1> QED BY <1>2, <1>3, <1>4, <1>7 DEF s, n

-----------------------------------------------------------------------------
(* Lists.                                                                  *)

\* Multiplication keeps the order.
LEMMA TimesMonotone ==
  ASSUME NEW a \in Nat, NEW b \in Nat, NEW m \in Nat, b <= a
  PROVE  b * m <= a * m
<1>1. (a - b) * m >= 0
  OBVIOUS
<1>2. a * m = b * m + (a - b) * m /\ a * m \in Int /\ b * m \in Int /\ (a - b) * m \in Int
  OBVIOUS
<1> QED BY <1>1, <1>2

\* sorted() returns what it was given, in another order: p says which.  (The
\* numbers s[i] * (n + 1) + i are all different and in the order of the elements.)
THEOREM SortedPermutes ==
  ASSUME NEW s \in Seq(Nat)
  PROVE  \E p \in Bijection(DOMAIN s, DOMAIN s) :
           Sorts(p, s) /\ sorted(s) = [i \in DOMAIN s |-> s[p[i]]]
<1> DEFINE n      == Len(s)
           D      == 1 .. n
           key(i) == s[i] * (n + 1) + i
           Keys   == {key(i) : i \in D}
           f      == [i \in D |-> key(i)]
<1>1. n \in Nat /\ DOMAIN s = D /\ IsFiniteSet(D) /\ Cardinality(D) = n
  <2>1. n \in Nat /\ DOMAIN s = D
    OBVIOUS
  <2> HIDE DEF n
  <2> QED BY <2>1, FS_Interval
<1>2. \A i \in D : s[i] \in Nat
  OBVIOUS
<1> HIDE DEF n
<1>3. \A i \in D : key(i) \in Nat
  BY <1>1, <1>2
<1>4. ASSUME NEW i \in D, NEW j \in D, key(i) <= key(j) PROVE s[i] <= s[j]
  <2> SUFFICES ASSUME s[i] >= s[j] + 1 PROVE FALSE
    BY <1>1, <1>2
  <2>1. s[i] * (n + 1) >= (s[j] + 1) * (n + 1)
    <3>1. s[i] \in Nat /\ s[j] + 1 \in Nat /\ n + 1 \in Nat /\ s[j] + 1 <= s[i]
      BY <1>1, <1>2
    <3> QED BY <3>1, TimesMonotone
  <2>2. (s[j] + 1) * (n + 1) = s[j] * (n + 1) + n + 1
    BY <1>1, <1>2
  <2>3. s[i] * (n + 1) \in Int /\ s[j] * (n + 1) \in Int /\ i \in 1 .. n /\ j \in 1 .. n
    BY <1>1, <1>2
  <2> QED BY <1>1, <1>4, <2>1, <2>2, <2>3
<1>5. ASSUME NEW i \in D, NEW j \in D, key(i) = key(j) PROVE i = j
  <2>1. key(i) <= key(j) /\ key(j) <= key(i)
    BY <1>3, <1>5
  <2>2. s[i] <= s[j] /\ s[j] <= s[i]
    <3> HIDE DEF key
    <3> QED BY <1>4, <2>1
  <2>3. s[i] = s[j]
    BY <1>2, <2>2
  <2>4. s[i] * (n + 1) \in Int /\ i \in Int /\ j \in Int
    BY <1>1, <1>2
  <2> QED BY <1>5, <2>3, <2>4
<1> HIDE DEF key
<1>6. f \in Surjection(D, Keys) /\ f \in Injection(D, Keys)
  BY <1>5 DEF Surjection, Injection, IsInjective
<1>7. IsFiniteSet(Keys) /\ Cardinality(Keys) = n
  <2> HIDE DEF f, Keys, D
  <2> QED BY <1>1, <1>6, FS_Surjection
<1>8. Keys \in SUBSET Nat
  BY <1>3
<1> DEFINE q == InOrder(Keys)
           p == [i \in D |-> CHOOSE j \in D : key(j) = q[i]]
<1>9. /\ DOMAIN q = D /\ Increasing(q)
      /\ \A i, j \in D : q[i] = q[j] => i = j
      /\ {q[i] : i \in D} = Keys
  <2> HIDE DEF Keys
  <2> QED BY <1>7, <1>8, InOrderLists
<1> HIDE DEF q
<1>10. \A i \in D : p[i] \in D /\ key(p[i]) = q[i]
  <2>1. \A i \in D : \E j \in D : key(j) = q[i]
    BY <1>9
  <2> QED BY <2>1
<1> HIDE DEF p
<1>11. p \in [D -> D]
  BY <1>10 DEF p
<1>12. p \in Injection(D, D)
  <2>1. \A i, j \in D : p[i] = p[j] => i = j
    BY <1>9, <1>10
  <2> QED BY <1>11, <2>1 DEF Injection, IsInjective
<1>13. p \in Bijection(D, D)
  <2> HIDE DEF D
  <2> QED BY <1>1, <1>12, FS_Injection DEF Bijection
<1>14. Sorts(p, s)
  <2> SUFFICES ASSUME NEW i \in D, NEW j \in D, i < j PROVE s[p[i]] <= s[p[j]]
    BY <1>1 DEF Sorts
  <2>1. q[i] < q[j]
    BY <1>9 DEF Increasing
  <2>2. p[i] \in D /\ p[j] \in D /\ key(p[i]) < key(p[j])
    BY <1>10, <2>1
  <2>3. key(p[i]) <= key(p[j])
    BY <1>3, <2>2
  <2> HIDE DEF D
  <2> QED BY <1>4, <2>2, <2>3
<1>15. \E r \in Bijection(DOMAIN s, DOMAIN s) : Sorts(r, s)
  BY <1>1, <1>13, <1>14
<1> HIDE DEF D
<1> QED BY <1>15 DEF sorted

\* So it has the same elements, and none twice if the list had none twice.
LEMMA SortedKeeps ==
  ASSUME NEW s \in Seq(Nat)
  PROVE  /\ DOMAIN sorted(s) = DOMAIN s /\ Len(sorted(s)) = Len(s) /\ sorted(s) \in Seq(Nat)
         /\ ToSet(sorted(s)) = ToSet(s)
         /\ IsInjective(s) => IsInjective(sorted(s))
<1>1. PICK p \in Bijection(DOMAIN s, DOMAIN s) : sorted(s) = [i \in DOMAIN s |-> s[p[i]]]
  BY SortedPermutes
<1>2. /\ p \in [DOMAIN s -> DOMAIN s]
      /\ \A i, j \in DOMAIN s : p[i] = p[j] => i = j
      /\ \A j \in DOMAIN s : \E i \in DOMAIN s : p[i] = j
  BY DEF Bijection, Injection, Surjection, IsInjective
<1>3. DOMAIN s = 1 .. Len(s) /\ Len(s) \in Nat /\ \A i \in DOMAIN s : s[i] \in Nat
  OBVIOUS
<1>4. sorted(s) \in Seq(Nat) /\ Len(sorted(s)) = Len(s)
  <2>1. \A i \in 1 .. Len(s) : sorted(s)[i] \in Nat
    BY <1>1, <1>2, <1>3
  <2>2. sorted(s) \in [1 .. Len(s) -> Nat]
    BY <1>1, <1>3, <2>1
  <2> HIDE DEF sorted
  <2> QED BY <1>3, <2>2
<1>5. ToSet(sorted(s)) = ToSet(s)
  BY <1>1, <1>2 DEF ToSet
<1>6. IsInjective(s) => IsInjective(sorted(s))
  BY <1>1, <1>2 DEF IsInjective
<1> QED BY <1>1, <1>4, <1>5, <1>6

-----------------------------------------------------------------------------
(* Concatenation.                                                          *)

\* Two lists one after the other.
LEMMA Concatenated ==
  ASSUME NEW T, NEW a \in Seq(T), NEW b \in Seq(T)
  PROVE  /\ a \o b \in Seq(T) /\ Len(a \o b) = Len(a) + Len(b)
         /\ ToSet(a \o b) = ToSet(a) \cup ToSet(b)
         /\ (IsInjective(a) /\ IsInjective(b) /\ ToSet(a) \cap ToSet(b) = {}) => IsInjective(a \o b)
<1> DEFINE c == a \o b
<1>1. /\ c \in Seq(T) /\ Len(c) = Len(a) + Len(b) /\ Len(a) \in Nat /\ Len(b) \in Nat
      /\ DOMAIN a = 1 .. Len(a) /\ DOMAIN b = 1 .. Len(b) /\ DOMAIN c = 1 .. Len(c)
      /\ \A i \in DOMAIN c : c[i] = IF i <= Len(a) THEN a[i] ELSE b[i - Len(a)]
  OBVIOUS
<1> HIDE DEF c
<1>2. ToSet(c) \subseteq ToSet(a) \cup ToSet(b)
  <2> SUFFICES ASSUME NEW i \in DOMAIN c PROVE c[i] \in ToSet(a) \cup ToSet(b)
    BY DEF ToSet
  <2> QED BY <1>1 DEF ToSet
<1>3. ToSet(a) \subseteq ToSet(c)
  <2> SUFFICES ASSUME NEW i \in DOMAIN a PROVE a[i] \in ToSet(c)
    BY DEF ToSet
  <2>1. i \in DOMAIN c /\ c[i] = a[i]
    BY <1>1
  <2> QED BY <2>1 DEF ToSet
<1>4. ToSet(b) \subseteq ToSet(c)
  <2> SUFFICES ASSUME NEW i \in DOMAIN b PROVE b[i] \in ToSet(c)
    BY DEF ToSet
  <2>1. Len(a) + i \in DOMAIN c /\ c[Len(a) + i] = b[i]
    BY <1>1
  <2> QED BY <2>1 DEF ToSet
<1>5. ASSUME IsInjective(a), IsInjective(b), ToSet(a) \cap ToSet(b) = {},
             NEW i \in DOMAIN c, NEW j \in DOMAIN c, c[i] = c[j]
      PROVE  i = j
  <2>1. \A k \in DOMAIN a, l \in DOMAIN b : a[k] # b[l]
    BY <1>5 DEF ToSet
  <2>2. CASE i <= Len(a) /\ j <= Len(a)
    BY <1>1, <1>5, <2>2 DEF IsInjective
  <2>3. CASE ~(i <= Len(a)) /\ ~(j <= Len(a))
    <3>1. i - Len(a) \in DOMAIN b /\ j - Len(a) \in DOMAIN b /\ b[i - Len(a)] = b[j - Len(a)]
      BY <1>1, <1>5, <2>3
    <3>2. i - Len(a) = j - Len(a)
      BY <1>5, <3>1 DEF IsInjective
    <3> QED BY <1>1, <3>2
  <2>4. CASE i <= Len(a) /\ ~(j <= Len(a))
    <3>1. i \in DOMAIN a /\ j - Len(a) \in DOMAIN b /\ a[i] = b[j - Len(a)]
      BY <1>1, <1>5, <2>4
    <3> QED BY <2>1, <3>1
  <2>5. CASE ~(i <= Len(a)) /\ j <= Len(a)
    <3>1. j \in DOMAIN a /\ i - Len(a) \in DOMAIN b /\ a[j] = b[i - Len(a)]
      BY <1>1, <1>5, <2>5
    <3> QED BY <2>1, <3>1
  <2> QED BY <2>2, <2>3, <2>4, <2>5
<1>6. (IsInjective(a) /\ IsInjective(b) /\ ToSet(a) \cap ToSet(b) = {}) => IsInjective(c)
  BY <1>5 DEF IsInjective
<1> QED BY <1>1, <1>2, <1>3, <1>4, <1>6 DEF c

\* The function that FlattenSeq is defined by.
Flattens(f, seqs, n) ==
  f = [i \in 1 .. n |-> IF i = 1 THEN seqs[i] ELSE f[i - 1] \o seqs[i]]

\* It exists.
LEMMA FlattenExists ==
  ASSUME NEW seqs, NEW n \in Nat
  PROVE  \E f : Flattens(f, seqs, n)
<1> DEFINE Bad == {k \in Nat : ~ \E f : Flattens(f, seqs, k)}
<1> SUFFICES ASSUME Bad # {} PROVE FALSE
  OBVIOUS
<1>1. PICK k \in Bad : \A l \in Bad : k <= l
  BY LeastElement
<1>2. k \in Nat /\ ~ \E f : Flattens(f, seqs, k)
  OBVIOUS
<1>3. CASE k = 0
  <2> DEFINE g == [i \in 1 .. 0 |-> seqs[i]]
  <2>1. g = [i \in 1 .. 0 |-> IF i = 1 THEN seqs[i] ELSE g[i - 1] \o seqs[i]]
    OBVIOUS
  <2> HIDE DEF g
  <2> QED BY <1>2, <1>3, <2>1 DEF Flattens
<1>4. CASE k # 0
  <2>1. k - 1 \in Nat /\ k - 1 \notin Bad
    <3> HIDE DEF Bad
    <3> QED BY <1>1, <1>2, <1>4
  <2>2. PICK f : Flattens(f, seqs, k - 1)
    BY <2>1
  <2> DEFINE next(i) == IF i = 1 THEN seqs[i] ELSE f[i - 1] \o seqs[i]
             g == [i \in 1 .. k |-> next(i)]
  <2>3. \A i \in 1 .. k - 1 : f[i] = next(i)
    BY <2>2 DEF Flattens
  <2>4. \A i \in 1 .. k : g[i] = next(i)
    OBVIOUS
  <2>5. \A i \in 1 .. k : next(i) = IF i = 1 THEN seqs[i] ELSE g[i - 1] \o seqs[i]
    <3> SUFFICES ASSUME NEW i \in 1 .. k, i # 1 PROVE f[i - 1] = g[i - 1]
      OBVIOUS
    <3>1. i - 1 \in 1 .. k - 1 /\ i - 1 \in 1 .. k
      BY <1>2
    <3> HIDE DEF g, next
    <3> QED BY <2>3, <2>4, <3>1
  <2>6. g = [i \in 1 .. k |-> IF i = 1 THEN seqs[i] ELSE g[i - 1] \o seqs[i]]
    <3>1. g = [i \in 1 .. k |-> next(i)]
      OBVIOUS
    <3> HIDE DEF g, next
    <3> QED BY <2>5, <3>1
  <2> HIDE DEF g
  <2> QED BY <1>2, <2>6 DEF Flattens
<1> QED BY <1>3, <1>4

\* Lists one after the other: it has the elements that any of them has; and none
\* twice, if no list has one twice nor two lists the same.
LEMMA FlattenKeeps ==
  ASSUME NEW T, NEW seqs \in Seq(Seq(T))
  PROVE  /\ FlattenSeq(seqs) \in Seq(T)
         /\ \A x : x \in ToSet(FlattenSeq(seqs)) <=> \E i \in DOMAIN seqs : x \in ToSet(seqs[i])
         /\ (/\ \A i \in DOMAIN seqs : IsInjective(seqs[i])
             /\ \A i, j \in DOMAIN seqs : i # j => ToSet(seqs[i]) \cap ToSet(seqs[j]) = {})
              => IsInjective(FlattenSeq(seqs))
<1> DEFINE n == Len(seqs)
           f == CHOOSE g : Flattens(g, seqs, n)
           Separate == /\ \A i \in DOMAIN seqs : IsInjective(seqs[i])
                       /\ \A i, j \in DOMAIN seqs : i # j => ToSet(seqs[i]) \cap ToSet(seqs[j]) = {}
           Right(k) == /\ f[k] \in Seq(T)
                       /\ \A x : x \in ToSet(f[k]) <=> \E i \in 1 .. k : x \in ToSet(seqs[i])
                       /\ Separate => IsInjective(f[k])
           Bad == {k \in 1 .. n : ~Right(k)}
<1>1. n \in Nat /\ DOMAIN seqs = 1 .. n /\ \A i \in 1 .. n : seqs[i] \in Seq(T)
  OBVIOUS
<1>2. Flattens(f, seqs, n)
  <2> HIDE DEF n
  <2> QED BY <1>1, FlattenExists
<1> HIDE DEF f, n
<1>3. \A k \in 1 .. n : f[k] = IF k = 1 THEN seqs[k] ELSE f[k - 1] \o seqs[k]
  BY <1>2 DEF Flattens
<1>4. \A k \in 1 .. n : Right(k)
  <2> SUFFICES ASSUME Bad # {} PROVE FALSE
    OBVIOUS
  <2>1. Bad \in SUBSET Nat
    BY <1>1
  <2>2. PICK k \in Bad : \A l \in Bad : k <= l
    <3> HIDE DEF Bad
    <3> QED BY <2>1, LeastElement
  <2>3. k \in 1 .. n /\ ~Right(k)
    OBVIOUS
  <2>4. CASE k = 1
    <3>1. f[k] = seqs[k] /\ k \in DOMAIN seqs
      BY <1>1, <1>3, <2>3, <2>4
    <3>2. 1 .. k = {k}
      BY <2>4
    <3> QED BY <1>1, <2>3, <3>1, <3>2
  <2>5. CASE k # 1
    <3>1. k - 1 \in 1 .. n /\ k \in 1 .. n /\ 1 .. k = (1 .. k - 1) \cup {k} /\ k \notin 1 .. k - 1
      BY <1>1, <2>3, <2>5
    <3>2. k - 1 \notin Bad
      <4>1. k \in Nat
        BY <1>1, <2>3
      <4> HIDE DEF Bad
      <4> QED BY <2>2, <4>1
    <3>3. Right(k - 1)
      BY <3>1, <3>2
    <3>4. f[k] = f[k - 1] \o seqs[k]
      BY <1>3, <2>3, <2>5
    <3>5. seqs[k] \in Seq(T) /\ f[k - 1] \in Seq(T)
      BY <1>1, <3>1, <3>3
    <3>6. /\ f[k] \in Seq(T) /\ ToSet(f[k]) = ToSet(f[k - 1]) \cup ToSet(seqs[k])
          /\ (/\ IsInjective(f[k - 1]) /\ IsInjective(seqs[k])
              /\ ToSet(f[k - 1]) \cap ToSet(seqs[k]) = {}) => IsInjective(f[k])
      BY <3>4, <3>5, Concatenated
    <3>7. \A x : x \in ToSet(f[k]) <=> \E i \in 1 .. k : x \in ToSet(seqs[i])
      BY <3>1, <3>3, <3>6
    <3>8. Separate => IsInjective(f[k])
      <4> SUFFICES ASSUME Separate PROVE IsInjective(f[k])
        OBVIOUS
      <4>1. IsInjective(f[k - 1]) /\ IsInjective(seqs[k])
        BY <1>1, <3>1, <3>3
      <4>2. \A i \in 1 .. k - 1 : ToSet(seqs[i]) \cap ToSet(seqs[k]) = {}
        <5> SUFFICES ASSUME NEW i \in 1 .. k - 1
                     PROVE  ToSet(seqs[i]) \cap ToSet(seqs[k]) = {}
          OBVIOUS
        <5>1. i \in DOMAIN seqs /\ k \in DOMAIN seqs /\ i # k
          BY <1>1, <3>1
        <5> QED BY <5>1
      <4>3. ToSet(f[k - 1]) \cap ToSet(seqs[k]) = {}
        BY <3>3, <4>2
      <4> QED BY <3>6, <4>1, <4>3
    <3> QED BY <2>3, <3>6, <3>7, <3>8
  <2> QED BY <2>4, <2>5
<1>5. CASE n = 0
  <2>1. seqs = <<>> /\ FlattenSeq(seqs) = seqs
    BY <1>5 DEF n, FlattenSeq
  <2>2. ToSet(seqs) = {} /\ DOMAIN seqs = {} /\ seqs \in Seq(T) /\ IsInjective(seqs)
    BY <2>1 DEF ToSet, IsInjective
  <2>3. ToSet(FlattenSeq(seqs)) = {} /\ FlattenSeq(seqs) \in Seq(T) /\ IsInjective(FlattenSeq(seqs))
    BY <2>1, <2>2
  <2> QED BY <2>2, <2>3
<1>6. CASE n # 0
  <2>1. FlattenSeq(seqs) = f[n]
    BY <1>6 DEF FlattenSeq, Flattens, f, n
  <2>2. Right(n)
    <3>1. n \in 1 .. n
      BY <1>1, <1>6
    <3> HIDE DEF Right
    <3> QED BY <1>4, <3>1
  <2> QED BY <1>1, <2>1, <2>2
<1> QED BY <1>5, <1>6
=============================================================================
