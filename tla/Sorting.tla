------------------------------ MODULE Sorting ------------------------------
(***************************************************************************)
(* Python's sorted(), of a set and of a list of numbers.                   *)
(***************************************************************************)
EXTENDS Naturals, Sequences, FiniteSets, Functions

Increasing(s) == \A i, j \in DOMAIN s : i < j => s[i] < s[j]

\* The elements of a finite set, in order.
InOrder(S) == CHOOSE s \in [1 .. Cardinality(S) -> S] : Increasing(s)

\* p says where each element of the list s comes to stand.
Sorts(p, s) == \A i, j \in DOMAIN s : i < j => s[p[i]] <= s[p[j]]

\* A list in order, with everything in it as often as it was.
sorted(s) ==
  LET p == CHOOSE q \in Bijection(DOMAIN s, DOMAIN s) : Sorts(q, s)
  IN [i \in DOMAIN s |-> s[p[i]]]
=============================================================================
