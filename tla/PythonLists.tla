----------------------------- MODULE PythonLists -----------------------------
(***************************************************************************)
(* What Python and torch do to lists in the modelled code: the indices of  *)
(* a mask in order, the elements at them, and the stable sort by a key.    *)
(***************************************************************************)
EXTENDS Naturals, Sequences, FiniteSets

\* nonzero, enumerate: the elements of S, which are numbers, in ascending order.
Ascending(S) ==
  [r \in 1..Cardinality(S) |-> CHOOSE i \in S : Cardinality({j \in S : j <= i}) = r]

\* A comprehension with a condition: the elements of s at the indices in keep.
Selected(s, keep) == [k \in 1..Cardinality(keep) |-> s[Ascending(keep)[k]]]

\* list.sort with key[i] for the key of s[i]; it leaves equal ones in their order.
SortedBy(s, key) ==
  LET upTo(i) == {j \in DOMAIN s : key[j] < key[i] \/ (key[j] = key[i] /\ j <= i)}
  IN  [r \in DOMAIN s |-> s[CHOOSE i \in DOMAIN s : Cardinality(upTo(i)) = r]]
=============================================================================
