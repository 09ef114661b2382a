-------------------------------- MODULE Orders --------------------------------
(* Sequences made of sets by a key, and what is picked out of a sequence. *)
EXTENDS Naturals, SequencesExt

\* The elements of a set, the one with the smallest key first.
Ascends(s, S, key) ==
  S = {s[i] : i \in DOMAIN s} /\ \A i, j \in DOMAIN s : i < j => key[s[i]] < key[s[j]]
Sorted(S, key) == CHOOSE s \in [1..Cardinality(S) -> S] : Ascends(s, S, key)

\* By a first key and, where that is the same, by a second one.
SortedByTwo(S, first, second) ==
  LET width == 1 + Max({second[x] : x \in S})
  IN  Sorted(S, [x \in S |-> first[x] * width + second[x]])

Rising(S) == Sorted(S, [i \in S |-> i])

\* What a sequence holds at the indexes of I, in its order.
Following(s, order) == [n \in DOMAIN order |-> s[order[n]]]
Picked(s, I) == Following(s, Rising(I))
=============================================================================
