--------------------------- MODULE Requests_proofs ---------------------------
(***************************************************************************)
(* What operations answer, for requests of any size.                       *)
(***************************************************************************)
EXTENDS Searches, Scans, Connections, FiniteSetTheorems, WellFoundedInduction, TLAPS

-----------------------------------------------------------------------------
(* Recursive functions.                                                    *)

\* A set of numbers has a least one: induction is by least counterexample.
LEMMA LeastOf ==
    ASSUME NEW T \in SUBSET Nat, T # {}
    PROVE  \E m \in T : \A n \in T : m <= n
<1>1. PICK m \in T : \A n \in T : <<n, m>> \notin OpToRel(<, Nat)
  BY NatLessThanWellFounded, WFMin
<1>2. \A n \in T : ~(n < m)
  BY <1>1 DEF OpToRel
<1> QED
  BY <1>2

\* A function given by its first value and a step from each to the next.
Iterates(g, N, S, a, step) ==
    /\ g \in [0 .. N -> S] /\ g[0] = a
    /\ \A n \in 1 .. N : g[n] = step[<<g[n - 1], n>>]

\* There is such a function.
LEMMA Iteration ==
    ASSUME NEW N \in Nat, NEW S, NEW a \in S, NEW step \in [S \X (1 .. N) -> S]
    PROVE  \E g : Iterates(g, N, S, a, step)
<1> DEFINE Reached(m) == \E g : Iterates(g, m, S, a, step)
           missing == {m \in 0 .. N : ~Reached(m)}
<1>1. Reached(0)
  <2>1. Iterates([n \in 0 .. 0 |-> a], 0, S, a, step)
    BY DEF Iterates
  <2> QED
    BY <2>1
<1>2. ASSUME NEW m \in 1 .. N, Reached(m - 1)
      PROVE  Reached(m)
  <2>1. PICK g : Iterates(g, m - 1, S, a, step)
    BY <1>2
  <2> DEFINE h == [n \in 0 .. m |-> IF n = m THEN step[<<g[m - 1], m>>] ELSE g[n]]
  <2>2. g[m - 1] \in S /\ step[<<g[m - 1], m>>] \in S
    BY <2>1 DEF Iterates
  <2>3. h \in [0 .. m -> S] /\ h[0] = a
    BY <2>1, <2>2 DEF Iterates
  <2>4. \A n \in 1 .. m : h[n] = step[<<h[n - 1], n>>]
    <3> TAKE n \in 1 .. m
    <3>1. h[n - 1] = g[n - 1]
      OBVIOUS
    <3>2. CASE n = m
      <4>1. h[m] = step[<<g[m - 1], m>>] /\ h[m - 1] = g[m - 1]
        OBVIOUS
      <4> QED
        BY <3>2, <4>1
    <3>3. CASE n # m
      <4>1. h[n] = g[n] /\ n \in 1 .. m - 1
        BY <3>3
      <4> QED
        BY <2>1, <3>1, <4>1 DEF Iterates
    <3> QED
      BY <3>2, <3>3
  <2>5. Iterates(h, m, S, a, step)
    BY <2>3, <2>4 DEF Iterates
  <2> QED
    BY <2>5
<1> HIDE DEF Reached
<1>3. missing = {}
  <2> SUFFICES ASSUME missing # {}
               PROVE  FALSE
    OBVIOUS
  <2>1. missing \in SUBSET Nat
    OBVIOUS
  <2>2. PICK m \in missing : \A n \in missing : m <= n
    <3> HIDE DEF missing
    <3> QED
      BY <2>1, LeastOf
  <2>3. m \in 1 .. N /\ m - 1 \in 0 .. N /\ m - 1 \notin missing
    BY <1>1, <2>2
  <2> QED
    BY <1>2, <2>2, <2>3
<1>4. Reached(N)
  BY <1>3
<1> QED
  BY <1>4 DEF Reached

-----------------------------------------------------------------------------
(* Sorting.                                                                *)

Sorts(s, S, key) == s \in [1 .. Cardinality(S) -> S] /\ Ascends(s, S, key)

\* If the smaller sets can be sorted, so can this one, behind its least key.
LEMMA SortsLonger ==
    ASSUME NEW K, NEW key \in [K -> Nat], \A x, y \in K : key[x] = key[y] => x = y,
           NEW S \in SUBSET K, IsFiniteSet(S), S # {},
           \A T \in SUBSET K : IsFiniteSet(T) /\ Cardinality(T) = Cardinality(S) - 1
              => \E s : Sorts(s, T, key)
    PROVE  \E s : Sorts(s, S, key)
<1>1. PICK m \in S : \A x \in S : key[m] <= key[x]
  <2> DEFINE keys == {key[x] : x \in S}
  <2>1. keys \in SUBSET Nat /\ keys # {}
    OBVIOUS
  <2>2. PICK k \in keys : \A n \in keys : k <= n
    <3> HIDE DEF keys
    <3> QED
      BY <2>1, LeastOf
  <2> QED
    BY <2>2
<1> DEFINE T == S \ {m}
           n == Cardinality(S)
<1>2. IsFiniteSet(T) /\ Cardinality(T) = n - 1 /\ n \in Nat /\ n # 0
  BY FS_RemoveElement, FS_CardinalityType, FS_EmptySet
<1>3. PICK s : Sorts(s, T, key)
  BY <1>2
<1>4. /\ s \in [1 .. n - 1 -> T] /\ T = {s[i] : i \in 1 .. n - 1}
      /\ \A i, j \in 1 .. n - 1 : i < j => key[s[i]] < key[s[j]]
  BY <1>2, <1>3 DEF Sorts, Ascends
<1> DEFINE t == [i \in 1 .. n |-> IF i = 1 THEN m ELSE s[i - 1]]
<1> HIDE DEF n
<1>5. \A i \in 1 .. n : i # 1 => i - 1 \in 1 .. n - 1 /\ t[i] = s[i - 1] /\ s[i - 1] \in T
  BY <1>2, <1>4
<1>6. t[1] = m /\ 1 \in 1 .. n
  BY <1>2
<1>7. t \in [1 .. n -> S]
  BY <1>4, <1>5
<1>8. S = {t[i] : i \in 1 .. n}
  <2>1. ASSUME NEW x \in S PROVE \E i \in 1 .. n : t[i] = x
    <3>1. CASE x = m
      BY <1>6, <3>1
    <3>2. CASE x # m
      <4>1. PICK i \in 1 .. n - 1 : s[i] = x
        BY <1>4, <3>2
      <4>2. i + 1 \in 1 .. n /\ i + 1 # 1 /\ (i + 1) - 1 = i
        BY <1>2
      <4> QED
        BY <1>5, <4>1, <4>2
    <3> QED
      BY <3>1, <3>2
  <2> QED
    BY <1>7, <2>1
<1>9. ASSUME NEW i \in 1 .. n, NEW j \in 1 .. n, i < j
      PROVE  key[t[i]] < key[t[j]]
  <2>1. j # 1 /\ j - 1 \in 1 .. n - 1 /\ t[j] = s[j - 1] /\ s[j - 1] \in T
    BY <1>5, <1>9
  <2>2. CASE i = 1
    <3>1. t[i] = m /\ key[m] \in Nat /\ key[s[j - 1]] \in Nat /\ key[m] # key[s[j - 1]]
      BY <1>6, <2>1, <2>2
    <3> QED
      BY <1>1, <2>1, <3>1
  <2>3. CASE i # 1
    BY <1>4, <1>5, <1>9, <2>1, <2>3
  <2> QED
    BY <2>2, <2>3
<1> QED
  BY <1>7, <1>8, <1>9 DEF Sorts, Ascends, n

\* Any finite set is sorted by any key that tells its elements apart.
LEMMA SortedIs ==
    ASSUME NEW S, IsFiniteSet(S), NEW key \in [S -> Nat],
           \A x, y \in S : key[x] = key[y] => x = y
    PROVE  Sorts(Sorted(S, key), S, key)
<1> DEFINE Sortable(n) == \A T \in SUBSET S : IsFiniteSet(T) /\ Cardinality(T) = n
                                               => \E s : Sorts(s, T, key)
           bad == {n \in Nat : ~Sortable(n)}
<1>1. Sortable(0)
  <2> SUFFICES ASSUME NEW T \in SUBSET S, IsFiniteSet(T), Cardinality(T) = 0
               PROVE  \E s : Sorts(s, T, key)
    OBVIOUS
  <2>1. T = {}
    BY FS_EmptySet
  <2>2. Sorts(<<>>, T, key)
    BY <2>1, FS_EmptySet DEF Sorts, Ascends
  <2> QED
    BY <2>2
<1>2. ASSUME NEW n \in Nat, n # 0, Sortable(n - 1)
      PROVE  Sortable(n)
  <2> SUFFICES ASSUME NEW T \in SUBSET S, IsFiniteSet(T), Cardinality(T) = n
               PROVE  \E s : Sorts(s, T, key)
    OBVIOUS
  <2>1. T # {}
    BY <1>2, FS_EmptySet
  <2> QED
    BY <1>2, <2>1, SortsLonger
<1>3. bad = {}
  <2> SUFFICES ASSUME bad # {} PROVE FALSE
    OBVIOUS
  <2>1. PICK m \in bad : \A n \in bad : m <= n
    <3>1. bad \in SUBSET Nat
      OBVIOUS
    <3> HIDE DEF bad
    <3> QED
      BY <3>1, LeastOf
  <2> HIDE DEF Sortable
  <2>2. m # 0 /\ m \in Nat /\ m - 1 \in Nat /\ m - 1 \notin bad
    BY <1>1, <2>1
  <2> QED
    BY <1>2, <2>1, <2>2
<1>4. PICK s : Sorts(s, S, key)
  BY <1>3, FS_CardinalityType
<1> QED
  BY <1>4 DEF Sorts, Sorted

-----------------------------------------------------------------------------
(* Wildcards.                                                              *)

\* A part occurs where the text has its letters, one after the other.
LEMMA OccursIs ==
    ASSUME NEW C, NEW part \in Seq(C), NEW text \in Seq(C), NEW at \in Nat
    PROVE  Occurs(part, text, at) <=>
             /\ at + Len(part) <= Len(text)
             /\ \A k \in 1 .. Len(part) : text[at + k] = part[k]
<1> DEFINE there == SubSeq(text, at + 1, at + Len(part))
<1> SUFFICES ASSUME at + Len(part) <= Len(text)
             PROVE  there = part <=> \A k \in 1 .. Len(part) : text[at + k] = part[k]
  BY DEF Occurs
<1>1. Len(part) \in Nat /\ Len(text) \in Nat
  OBVIOUS
<1>2. /\ there \in Seq(C) /\ Len(there) = Len(part)
      /\ \A k \in 1 .. Len(part) : there[k] = text[at + k]
  BY <1>1
<1>3. there = part <=> \A k \in 1 .. Len(part) : there[k] = part[k]
  <2> HIDE DEF there
  <2>1. there \in [1 .. Len(part) -> C] /\ part \in [1 .. Len(part) -> C]
    BY <1>2
  <2> QED
    BY <2>1
<1> QED
  BY <1>2, <1>3

\* The search for a part finds its first occurrence.
LEMMA FindIs ==
    ASSUME NEW C, NEW part \in Seq(C), NEW text \in Seq(C), NEW from \in Nat
    PROVE  LET c == Consumed(part, text, from)
               ends(j) == \E at \in from .. Len(text) : Occurs(part, text, at) /\ j = at + Len(part)
           IN  /\ c \in Nat
               /\ c <= Len(text) => ends(c)
               /\ \A j \in 0 .. Len(text) : ends(j) => c <= j
               /\ Find(part, text, from) <= Len(text) <=> c <= Len(text)
<1> DEFINE hits == {at \in from .. Len(text) : Occurs(part, text, at)}
<1>1. Len(part) \in Nat /\ Len(text) \in Nat
  OBVIOUS
<1>2. CASE hits = {}
  <2>1. Find(part, text, from) = Len(text) + 1
    BY <1>2 DEF Find
  <2>2. Consumed(part, text, from) = Len(text) + 1
    BY <1>1, <2>1 DEF Consumed
  <2> QED
    BY <1>1, <1>2, <2>1, <2>2
<1>3. CASE hits # {}
  <2>1. hits \in SUBSET Nat
    BY <1>1
  <2>2. PICK m \in hits : \A n \in hits : m <= n
    <3> HIDE DEF hits
    <3> QED
      BY <1>3, <2>1, LeastOf
  <2>3. Min(hits) = m
    <3> HIDE DEF hits
    <3>1. \A x \in hits : (\A y \in hits : x <= y) => x = m
      BY <2>1, <2>2
    <3> QED
      BY <2>2, <3>1 DEF Min
  <2>4. Find(part, text, from) = m
    BY <1>3, <2>3 DEF Find
  <2>5. m + Len(part) <= Len(text) /\ m \in Nat
    BY <1>1, <2>2 DEF Occurs
  <2>6. Consumed(part, text, from) = m + Len(part)
    BY <1>1, <2>4, <2>5 DEF Consumed
  <2> QED
    BY <1>1, <2>2, <2>4, <2>5, <2>6
<1> QED
  BY <1>2, <1>3

\* Where the stars of a pattern cut it.
LEMMA CutsAre ==
    ASSUME NEW C, NEW p \in Seq(C)
    PROVE  LET cuts == Cuts(p)
               k == Cardinality(Stars(p)) + 1
           IN  /\ k \in Nat /\ k >= 1 /\ (k = 1 <=> Stars(p) = {}) /\ k - 1 = Cardinality(Stars(p))
               /\ cuts \in Seq(Nat) /\ Len(cuts) = k + 1
               /\ cuts[1] = 0 /\ cuts[k + 1] = Len(p) + 1
               /\ \A i \in 2 .. k : cuts[i] \in Stars(p)
               /\ \A i \in 1 .. k : /\ cuts[i] < cuts[i + 1]
                                    /\ \A j \in cuts[i] + 1 .. cuts[i + 1] - 1 : j \in DOMAIN p /\ p[j] # Star
<1> DEFINE S == Stars(p)
           key == [i \in S |-> i]
           s == Sorted(S, key)
           n == Cardinality(S)
           cuts == Cuts(p)
<1>1. IsFiniteSet(S) /\ S \subseteq 1 .. Len(p) /\ Len(p) \in Nat
  <2>1. S \subseteq 1 .. Len(p) /\ IsFiniteSet(1 .. Len(p))
    BY FS_Interval DEF Stars
  <2> QED
    BY <2>1, FS_Subset
<1>2. n \in Nat /\ (n = 0 <=> S = {})
  BY <1>1, FS_CardinalityType, FS_EmptySet
<1>3. /\ s \in [1 .. n -> S] /\ S = {s[i] : i \in 1 .. n}
      /\ \A i, j \in 1 .. n : i < j => s[i] < s[j]
  <2>1. key \in [S -> Nat] /\ \A x, y \in S : key[x] = key[y] => x = y
    BY <1>1
  <2>2. Sorts(s, S, key)
    <3> HIDE DEF S, key
    <3> QED
      BY <1>1, <2>1, SortedIs
  <2>3. s \in [1 .. n -> S] /\ DOMAIN s = 1 .. n /\ Ascends(s, S, key)
    BY <2>2 DEF Sorts
  <2>4. S = {s[i] : i \in 1 .. n} /\ \A i, j \in 1 .. n : i < j => key[s[i]] < key[s[j]]
    BY <2>3 DEF Ascends
  <2>5. \A i \in 1 .. n : key[s[i]] = s[i]
    BY <2>3
  <2> QED
    BY <2>3, <2>4, <2>5
<1>4. cuts = <<0>> \o s \o <<Len(p) + 1>>
  BY DEF Cuts, Rising
<1> HIDE DEF n, S, s, cuts
<1>5. s \in Seq(Nat) /\ Len(s) = n
  <2>1. s \in [1 .. n -> Nat]
    BY <1>1, <1>3
  <2> QED
    BY <1>2, <2>1
<1>6. /\ cuts \in Seq(Nat) /\ Len(cuts) = n + 2
      /\ \A i \in 1 .. n + 2 : cuts[i] = IF i = 1 THEN 0 ELSE IF i = n + 2 THEN Len(p) + 1 ELSE s[i - 1]
  BY <1>1, <1>2, <1>4, <1>5
<1>7. \A i \in 2 .. n + 1 : i - 1 \in 1 .. n /\ cuts[i] = s[i - 1] /\ cuts[i] \in S
  <2> TAKE i \in 2 .. n + 1
  <2>1. i - 1 \in 1 .. n /\ i \in 1 .. n + 2 /\ i # 1 /\ i # n + 2
    BY <1>2
  <2>2. cuts[i] = s[i - 1]
    BY <1>6, <2>1
  <2>3. s[i - 1] \in S
    BY <1>3, <2>1
  <2> QED
    BY <2>1, <2>2, <2>3
<1>8. \A i, j \in 1 .. n + 2 : i < j => cuts[i] < cuts[j]
  <2> TAKE i, j \in 1 .. n + 2
  <2> HAVE i < j
  <2>1. \A h \in 2 .. n + 1 : cuts[h] \in 1 .. Len(p)
    BY <1>1, <1>7
  <2>2. CASE i = 1
    <3>1. j = n + 2 \/ j \in 2 .. n + 1
      BY <1>2
    <3> QED
      BY <1>1, <1>2, <1>6, <2>1, <2>2, <3>1
  <2>3. CASE j = n + 2 /\ i # 1
    <3>1. i \in 2 .. n + 1
      BY <1>2, <2>3
    <3> QED
      BY <1>1, <1>2, <1>6, <2>1, <2>3, <3>1
  <2>4. CASE i # 1 /\ j # n + 2
    <3>1. i \in 2 .. n + 1 /\ j \in 2 .. n + 1 /\ i - 1 < j - 1
      BY <1>2, <2>4
    <3> QED
      BY <1>3, <1>7, <3>1
  <2> QED
    BY <2>2, <2>3, <2>4
<1>9. ASSUME NEW i \in 1 .. n + 1, NEW j \in cuts[i] + 1 .. cuts[i + 1] - 1
      PROVE  j \in DOMAIN p /\ p[j] # Star
  <2>1. /\ cuts[i] \in Nat /\ cuts[i + 1] \in Nat /\ i \in 1 .. n + 2 /\ i + 1 \in 1 .. n + 2
        /\ cuts[1] = 0 /\ cuts[n + 2] = Len(p) + 1 /\ 1 \in 1 .. n + 2 /\ n + 2 \in 1 .. n + 2
    <3>1. i \in 1 .. n + 2 /\ i + 1 \in 1 .. n + 2 /\ 1 \in 1 .. n + 2 /\ n + 2 \in 1 .. n + 2
      BY <1>2
    <3>2. cuts[i] \in Nat /\ cuts[i + 1] \in Nat
      BY <1>6, <3>1
    <3>3. cuts[1] = 0 /\ cuts[n + 2] = Len(p) + 1
      BY <1>2, <1>6, <3>1
    <3> QED
      BY <3>1, <3>2, <3>3
  <2>2. cuts[i + 1] <= Len(p) + 1
    <3>1. CASE i + 1 = n + 2
      BY <2>1, <3>1, <1>1
    <3>2. CASE i + 1 # n + 2
      <4>1. i + 1 < n + 2
        BY <1>2, <3>2
      <4> QED
        BY <1>1, <1>8, <2>1, <4>1
    <3> QED
      BY <3>1, <3>2
  <2>3. j \in 1 .. Len(p)
    BY <1>1, <2>1, <2>2
  <2>4. ASSUME p[j] = Star PROVE FALSE
    <3>1. j \in S
      BY <2>3, <2>4 DEF S, Stars
    <3>2. PICK h \in 1 .. n : s[h] = j
      BY <1>3, <3>1
    <3>3. h + 1 \in 1 .. n + 2 /\ cuts[h + 1] = j
      BY <1>2, <1>6, <3>2
    <3>4. h + 1 <= i \/ i + 1 <= h + 1
      BY <1>2
    <3>5. cuts[i] < j /\ j < cuts[i + 1]
      BY <2>1
    <3>6. CASE h + 1 <= i
      <4>1. h + 1 = i \/ h + 1 < i
        BY <3>6
      <4> QED
        BY <1>8, <2>1, <2>3, <3>3, <3>5, <4>1
    <3>7. CASE i + 1 <= h + 1
      <4>1. i + 1 = h + 1 \/ i + 1 < h + 1
        BY <3>7
      <4> QED
        BY <1>8, <2>1, <2>3, <3>3, <3>5, <4>1
    <3> QED
      BY <3>4, <3>6, <3>7
  <2> QED
    BY <2>3, <2>4
<1>10. cuts[1] = 0 /\ cuts[(n + 1) + 1] = Len(p) + 1 /\ Len(cuts) = (n + 1) + 1
  BY <1>2, <1>6
<1>11. \A i \in 1 .. n + 1 : cuts[i] < cuts[i + 1]
  <2> TAKE i \in 1 .. n + 1
  <2>1. i \in 1 .. n + 2 /\ i + 1 \in 1 .. n + 2 /\ i < i + 1
    BY <1>2
  <2> QED
    BY <1>8, <2>1
<1>12. n + 1 \in Nat /\ n + 1 >= 1 /\ (n + 1 = 1 <=> S = {}) /\ (n + 1) - 1 = n
  BY <1>2
<1> QED
  BY <1>6, <1>7, <1>9, <1>10, <1>11, <1>12 DEF n, S, cuts

\* Where a pattern may end, letter by letter.
After(text, ends, c) ==
    IF c = Star THEN {j \in 0 .. Len(text) : \E i \in ends : i <= j}
    ELSE {j \in 1 .. Len(text) : j - 1 \in ends /\ text[j] = c}

\* Each letter of a pattern moves its ends as After says.
LEMMA EndsIs ==
    ASSUME NEW C, NEW p \in Seq(C), NEW text \in Seq(C)
    PROVE  /\ Ends(p, text, 0) = {0}
           /\ \A n \in 0 .. Len(p) : Ends(p, text, n) \subseteq 0 .. Len(text)
           /\ \A n \in 1 .. Len(p) : Ends(p, text, n) = After(text, Ends(p, text, n - 1), p[n])
<1> DEFINE N == Len(p)
           S == SUBSET (0 .. Len(text))
           Is(g) == g = [i \in 0 .. N |-> IF i = 0 THEN {0} ELSE After(text, g[i - 1], p[i])]
           u == CHOOSE g : Is(g)
           step == [x \in S \X (1 .. N) |-> After(text, x[1], p[x[2]])]
<1>1. /\ N \in Nat /\ Len(text) \in Nat /\ {0} \in S
      /\ \A ends \in S, n \in 1 .. N : After(text, ends, p[n]) \in S
  BY DEF After
<1>2. \A n \in 0 .. N : Ends(p, text, n) = u[n]
  BY DEF Ends, After
<1> HIDE DEF N, S
<1>3. step \in [S \X (1 .. N) -> S]
  BY <1>1
<1>4. \A ends \in S, n \in 1 .. N : step[<<ends, n>>] = After(text, ends, p[n])
  OBVIOUS
<1> HIDE DEF step
<1>5. PICK g : Iterates(g, N, S, {0}, step)
  BY <1>1, <1>3, Iteration
<1>6. /\ g \in [0 .. N -> S] /\ g[0] = {0}
      /\ \A n \in 1 .. N : g[n] = After(text, g[n - 1], p[n])
  <2>1. g \in [0 .. N -> S] /\ g[0] = {0}
    BY <1>5 DEF Iterates
  <2>2. \A n \in 1 .. N : g[n] = After(text, g[n - 1], p[n])
    <3> TAKE n \in 1 .. N
    <3>1. g[n - 1] \in S
      BY <1>1, <2>1
    <3> QED
      BY <1>4, <1>5, <3>1 DEF Iterates
  <2> QED
    BY <2>1, <2>2
<1>7. Is(g)
  <2>1. g = [n \in 0 .. N |-> g[n]]
    BY <1>6
  <2>2. \A n \in 0 .. N : g[n] = IF n = 0 THEN {0} ELSE After(text, g[n - 1], p[n])
    <3> TAKE n \in 0 .. N
    <3>1. n = 0 \/ n \in 1 .. N
      BY <1>1
    <3> QED
      BY <1>6, <3>1
  <2> QED
    BY <2>1, <2>2
<1>8. Is(u)
  BY <1>7
<1> HIDE DEF u
<1>9. /\ u[0] = {0}
      /\ \A n \in 1 .. N : u[n] = After(text, u[n - 1], p[n])
  <2>1. u[0] = {0}
    BY <1>1, <1>8
  <2>2. \A n \in 1 .. N : u[n] = After(text, u[n - 1], p[n])
    <3> TAKE n \in 1 .. N
    <3>1. n \in 0 .. N /\ n # 0
      BY <1>1
    <3> QED
      BY <1>8, <3>1
  <2> QED
    BY <2>1, <2>2
<1>10. \A n \in 0 .. N : u[n] \in S
  <2> DEFINE bad == {n \in 0 .. N : u[n] \notin S}
  <2> SUFFICES ASSUME bad # {} PROVE FALSE
    OBVIOUS
  <2>1. PICK m \in bad : \A n \in bad : m <= n
    <3>1. bad \in SUBSET Nat
      OBVIOUS
    <3> HIDE DEF bad
    <3> QED
      BY <3>1, LeastOf
  <2>2. m \in 0 .. N /\ u[m] \notin S /\ m # 0
    BY <1>1, <1>9, <2>1
  <2>3. m - 1 \in 0 .. N /\ m \in 1 .. N /\ ~(m <= m - 1)
    BY <1>1, <2>2
  <2>4. u[m - 1] \in S
    BY <2>1, <2>3
  <2> QED
    BY <1>1, <1>9, <2>2, <2>3, <2>4
<1>11. Ends(p, text, 0) = {0} /\ \A n \in 0 .. N : Ends(p, text, n) \in S
  BY <1>1, <1>2, <1>9, <1>10
<1>12. \A n \in 1 .. N : Ends(p, text, n) = After(text, Ends(p, text, n - 1), p[n])
  <2> TAKE n \in 1 .. N
  <2>1. n \in 0 .. N /\ n - 1 \in 0 .. N
    BY <1>1
  <2> QED
    BY <1>2, <1>9, <2>1
<1> QED
  BY <1>11, <1>12 DEF N, S

\* Between two stars a pattern goes along the text.
Along(p, text, m, n, j) ==
    j - (n - m) \in Ends(p, text, m) /\ \A k \in m + 1 .. n : text[j - n + k] = p[k]

\* Without a star between m and n, the ends at n are those at m along the text.
LEMMA RunIs ==
    ASSUME NEW C, NEW p \in Seq(C), NEW text \in Seq(C),
           NEW m \in 0 .. Len(p), NEW n \in m .. Len(p), \A k \in m + 1 .. n : p[k] # Star
    PROVE  \A j \in 0 .. Len(text) : j \in Ends(p, text, n) <=> Along(p, text, m, n, j)
<1> DEFINE Fits(h) == \A j \in 0 .. Len(text) : j \in Ends(p, text, h) <=> Along(p, text, m, h, j)
           bad == {h \in m .. n : ~Fits(h)}
<1>1. m \in Nat /\ n \in Nat /\ Len(p) \in Nat /\ Len(text) \in Nat
  OBVIOUS
<1>2. Fits(m)
  BY <1>1 DEF Along
<1>3. ASSUME NEW h \in m + 1 .. n, Fits(h - 1)
      PROVE  Fits(h)
  <2> SUFFICES ASSUME NEW j \in 0 .. Len(text)
               PROVE  j \in Ends(p, text, h) <=> Along(p, text, m, h, j)
    OBVIOUS
  <2>1. h \in 1 .. Len(p) /\ h - 1 \in 0 .. Len(p) /\ p[h] # Star
    BY <1>1
  <2>2. j \in Ends(p, text, h) <=> j # 0 /\ j - 1 \in Ends(p, text, h - 1) /\ text[j] = p[h]
    <3>1. Ends(p, text, h) = After(text, Ends(p, text, h - 1), p[h])
      BY <2>1, EndsIs
    <3> QED
      BY <1>1, <2>1, <3>1 DEF After
  <2>3. CASE j = 0
    <3>1. ASSUME Along(p, text, m, h, j) PROVE FALSE
      <4>1. m \in 0 .. Len(p) /\ Ends(p, text, m) \subseteq 0 .. Len(text)
        BY EndsIs
      <4>2. 0 - (h - m) \in 0 .. Len(text)
        BY <2>3, <3>1, <4>1 DEF Along
      <4> QED
        BY <1>1, <4>2
    <3> QED
      BY <2>2, <2>3, <3>1
  <2>4. CASE j # 0
    <3>1. j - 1 \in 0 .. Len(text) /\ (j - 1) - ((h - 1) - m) = j - (h - m)
      BY <1>1, <2>4
    <3>2. j - 1 \in Ends(p, text, h - 1) <=> Along(p, text, m, h - 1, j - 1)
      BY <1>3, <3>1
    <3>3. /\ \A k \in m + 1 .. h - 1 : k \in m + 1 .. h /\ (j - 1) - (h - 1) + k = j - h + k
          /\ \A k \in m + 1 .. h : k \in m + 1 .. h - 1 \/ k = h
          /\ h \in m + 1 .. h /\ j - h + h = j
      BY <1>1
    <3>4. Along(p, text, m, h, j) <=> Along(p, text, m, h - 1, j - 1) /\ text[j] = p[h]
      BY <3>1, <3>3 DEF Along
    <3> QED
      BY <2>2, <2>4, <3>2, <3>4
  <2> QED
    BY <2>3, <2>4
<1>4. bad = {}
  <2> SUFFICES ASSUME bad # {} PROVE FALSE
    OBVIOUS
  <2> HIDE DEF Fits
  <2>1. PICK h \in bad : \A i \in bad : h <= i
    <3>1. bad \in SUBSET Nat
      BY <1>1
    <3> HIDE DEF bad
    <3> QED
      BY <3>1, LeastOf
  <2>2. h \in m + 1 .. n /\ h - 1 \in m .. n /\ h - 1 \notin bad
    BY <1>1, <1>2, <2>1
  <2> QED
    BY <1>3, <2>1, <2>2
<1>5. Fits(n)
  BY <1>1, <1>4
<1> QED
  BY <1>5

\* The parts of a pattern are its runs of letters between the stars.
LEMMA SegmentsAre ==
    ASSUME NEW C, NEW p \in Seq(C)
    PROVE  LET cuts == Cuts(p)
               parts == Segments(p)
               k == Cardinality(Stars(p)) + 1
           IN  /\ parts \in Seq(Seq(C)) /\ Len(parts) = k
               /\ \A i \in 1 .. k :
                    /\ cuts[i] \in 0 .. Len(p) /\ cuts[i + 1] - 1 \in cuts[i] .. Len(p)
                    /\ Len(parts[i]) = cuts[i + 1] - 1 - cuts[i]
                    /\ \A x \in 1 .. Len(parts[i]) : parts[i][x] = p[cuts[i] + x]
<1> DEFINE cuts == Cuts(p)
           parts == Segments(p)
           k == Cardinality(Stars(p)) + 1
<1>1. /\ k \in Nat /\ k >= 1 /\ Len(p) \in Nat
      /\ cuts \in Seq(Nat) /\ Len(cuts) = k + 1
      /\ cuts[1] = 0 /\ cuts[k + 1] = Len(p) + 1
      /\ \A i \in 2 .. k : cuts[i] \in Stars(p)
      /\ \A i \in 1 .. k : cuts[i] < cuts[i + 1]
  <2>1. /\ k \in Nat /\ k >= 1
        /\ cuts \in Seq(Nat) /\ Len(cuts) = k + 1
        /\ cuts[1] = 0 /\ cuts[k + 1] = Len(p) + 1
        /\ \A i \in 2 .. k : cuts[i] \in Stars(p)
    BY CutsAre
  <2>2. \A i \in 1 .. k : cuts[i] < cuts[i + 1]
    BY CutsAre
  <2> QED
    BY <2>1, <2>2
<1>2. parts = [i \in 1 .. k |-> SubSeq(p, cuts[i] + 1, cuts[i + 1] - 1)]
  BY <1>1 DEF Segments
<1> HIDE DEF cuts, parts, k
<1>3. \A i \in 1 .. k : /\ cuts[i] \in 0 .. Len(p)
                        /\ cuts[i + 1] - 1 \in cuts[i] .. Len(p)
  <2> TAKE i \in 1 .. k
  <2>1. Stars(p) \subseteq 1 .. Len(p)
    BY DEF Stars
  <2>2. i = 1 \/ i \in 2 .. k
    BY <1>1
  <2>3. i + 1 = k + 1 \/ i + 1 \in 2 .. k
    BY <1>1
  <2>4. cuts[i] \in 0 .. Len(p) /\ cuts[i + 1] \in 0 .. Len(p) + 1 /\ cuts[i] < cuts[i + 1]
    <3>1. \A h \in 2 .. k : cuts[h] \in 1 .. Len(p)
      BY <1>1, <2>1
    <3>2. cuts[i] \in 0 .. Len(p)
      BY <1>1, <2>2, <3>1
    <3>3. cuts[i + 1] \in 0 .. Len(p) + 1
      BY <1>1, <2>3, <3>1
    <3>4. cuts[i] < cuts[i + 1]
      BY <1>1
    <3> QED
      BY <3>2, <3>3, <3>4
  <2> QED
    BY <1>1, <2>4
<1>4. \A i \in 1 .. k :
        /\ parts[i] \in Seq(C) /\ Len(parts[i]) = cuts[i + 1] - 1 - cuts[i]
        /\ \A x \in 1 .. Len(parts[i]) : parts[i][x] = p[cuts[i] + x]
  <2> TAKE i \in 1 .. k
  <2> DEFINE a == cuts[i]
             b == cuts[i + 1] - 1
  <2>1. parts[i] = SubSeq(p, a + 1, b) /\ a \in 0 .. Len(p) /\ b \in a .. Len(p)
    BY <1>2, <1>3
  <2> HIDE DEF a, b
  <2>2. parts[i] \in Seq(C) /\ Len(parts[i]) = b - a
    BY <2>1
  <2>3. \A x \in 1 .. b - a : parts[i][x] = p[a + x]
    BY <2>1
  <2> QED
    BY <2>2, <2>3 DEF a, b
<1>5. parts \in Seq(Seq(C)) /\ Len(parts) = k
  <2>1. parts \in [1 .. k -> Seq(C)]
    BY <1>2, <1>4
  <2> QED
    BY <1>1, <2>1
<1> QED
  BY <1>3, <1>4, <1>5 DEF cuts, parts, k

EndsBehind(p, text, i) ==
    LET part == Segments(p)[i]
    IN  \A j \in 0 .. Len(text) : j \in Ends(p, text, Cuts(p)[i + 1] - 1) <=>
          \E at \in Ends(p, text, Cuts(p)[i]) : Occurs(part, text, at) /\ j = at + Len(part)

\* A pattern may end behind a part of it where the part occurs.
LEMMA PartIs ==
    ASSUME NEW C, NEW p \in Seq(C), NEW text \in Seq(C),
           NEW i \in 1 .. Cardinality(Stars(p)) + 1
    PROVE  EndsBehind(p, text, i)
<1> DEFINE m == Cuts(p)[i]
           n == Cuts(p)[i + 1] - 1
           part == Segments(p)[i]
<1>1. /\ m \in 0 .. Len(p) /\ n \in m .. Len(p) /\ Len(p) \in Nat /\ Len(text) \in Nat
      /\ Len(part) = n - m /\ part \in Seq(C)
      /\ \A x \in 1 .. Len(part) : part[x] = p[m + x]
  <2>1. Segments(p) \in Seq(Seq(C)) /\ i \in 1 .. Len(Segments(p))
    BY SegmentsAre
  <2>2. part \in Seq(C)
    BY <2>1
  <2>3. m \in 0 .. Len(p) /\ n \in m .. Len(p) /\ Len(part) = n - m
    BY SegmentsAre
  <2>4. \A x \in 1 .. Len(part) : part[x] = p[m + x]
    BY SegmentsAre
  <2> QED
    BY <2>2, <2>3, <2>4
<1>2. \A x \in m + 1 .. n : p[x] # Star
  BY CutsAre
<1> HIDE DEF m, n, part
<1> SUFFICES ASSUME NEW j \in 0 .. Len(text)
             PROVE  j \in Ends(p, text, n) <=>
                      \E at \in Ends(p, text, m) : Occurs(part, text, at) /\ j = at + Len(part)
  BY DEF m, n, part, EndsBehind
<1>3. j \in Ends(p, text, n) <=> Along(p, text, m, n, j)
  BY <1>1, <1>2, RunIs
<1>4. Ends(p, text, m) \subseteq 0 .. Len(text)
  BY <1>1, EndsIs
<1>5. ASSUME NEW at \in Ends(p, text, m), j = at + Len(part)
      PROVE  Occurs(part, text, at) <=> \A k \in m + 1 .. n : text[j - n + k] = p[k]
  <2>1. at \in Nat /\ at + Len(part) <= Len(text) /\ at = j - (n - m)
    BY <1>1, <1>4, <1>5
  <2>2. Occurs(part, text, at) <=> \A x \in 1 .. Len(part) : text[at + x] = part[x]
    <3>1. part \in Seq(C)
      BY <1>1
    <3>2. Occurs(part, text, at) <=> at + Len(part) <= Len(text) /\ \A x \in 1 .. Len(part) : text[at + x] = part[x]
      BY <2>1, <3>1, OccursIs
    <3> QED
      BY <2>1, <3>2
  <2>3. /\ \A x \in 1 .. Len(part) : m + x \in m + 1 .. n /\ j - n + (m + x) = at + x
        /\ \A k \in m + 1 .. n : k - m \in 1 .. Len(part) /\ m + (k - m) = k /\ j - n + k = at + (k - m)
    BY <1>1, <2>1
  <2>4. ASSUME \A x \in 1 .. Len(part) : text[at + x] = part[x], NEW k \in m + 1 .. n
        PROVE  text[j - n + k] = p[k]
    <3>1. /\ k - m \in 1 .. Len(part) /\ text[at + (k - m)] = part[k - m]
          /\ part[k - m] = p[m + (k - m)]
      BY <1>1, <2>3, <2>4
    <3> QED
      BY <2>3, <3>1
  <2>5. ASSUME \A k \in m + 1 .. n : text[j - n + k] = p[k], NEW x \in 1 .. Len(part)
        PROVE  text[at + x] = part[x]
    <3>1. m + x \in m + 1 .. n /\ text[j - n + (m + x)] = p[m + x] /\ part[x] = p[m + x]
      BY <1>1, <2>3, <2>5
    <3> QED
      BY <2>3, <3>1
  <2> QED
    BY <2>2, <2>4, <2>5
<1>6. ASSUME j \in Ends(p, text, n)
      PROVE  \E at \in Ends(p, text, m) : Occurs(part, text, at) /\ j = at + Len(part)
  <2>1. j - (n - m) \in Ends(p, text, m) /\ j = (j - (n - m)) + Len(part)
    BY <1>1, <1>3, <1>6 DEF Along
  <2> QED
    BY <1>3, <1>5, <1>6, <2>1 DEF Along
<1>7. ASSUME NEW at \in Ends(p, text, m), Occurs(part, text, at), j = at + Len(part)
      PROVE  j \in Ends(p, text, n)
  <2>1. j - (n - m) = at
    BY <1>1, <1>4, <1>7
  <2> QED
    BY <1>3, <1>5, <1>7, <2>1 DEF Along
<1> QED
  BY <1>6, <1>7

\* Where the cursor is behind each part.
LEMMA CursorIs ==
    ASSUME NEW C, NEW parts \in Seq(Seq(C)), Len(parts) # 0, NEW text \in Seq(C)
    PROVE  /\ CursorAfter(parts, text, 0) = Len(parts[1])
           /\ \A n \in 0 .. Len(parts) - 1 : CursorAfter(parts, text, n) \in Nat
           /\ \A n \in 1 .. Len(parts) - 1 :
                CursorAfter(parts, text, n) = Consumed(parts[n + 1], text, CursorAfter(parts, text, n - 1))
<1> DEFINE N == Len(parts) - 1
           first == Len(parts[1])
           Is(g) == g = [i \in 0 .. N |-> IF i = 0 THEN first ELSE Consumed(parts[i + 1], text, g[i - 1])]
           u == CHOOSE g : Is(g)
           step == [x \in Nat \X (1 .. N) |-> Consumed(parts[x[2] + 1], text, x[1])]
<1>1. N \in Nat /\ first \in Nat
  OBVIOUS
<1>2. \A c \in Nat, n \in 1 .. N : Consumed(parts[n + 1], text, c) \in Nat
  <2> TAKE c \in Nat, n \in 1 .. N
  <2>1. parts[n + 1] \in Seq(C)
    OBVIOUS
  <2> QED
    BY <2>1, FindIs
<1>3. \A n \in 0 .. N : CursorAfter(parts, text, n) = u[n]
  BY DEF CursorAfter
<1> HIDE DEF N, first
<1>4. step \in [Nat \X (1 .. N) -> Nat]
  BY <1>2
<1>5. \A c \in Nat, n \in 1 .. N : step[<<c, n>>] = Consumed(parts[n + 1], text, c)
  OBVIOUS
<1> HIDE DEF step
<1>6. PICK g : Iterates(g, N, Nat, first, step)
  BY <1>1, <1>4, Iteration
<1>7. /\ g \in [0 .. N -> Nat] /\ g[0] = first
      /\ \A n \in 1 .. N : g[n] = Consumed(parts[n + 1], text, g[n - 1])
  <2>1. g \in [0 .. N -> Nat] /\ g[0] = first
    BY <1>6 DEF Iterates
  <2>2. \A n \in 1 .. N : g[n] = Consumed(parts[n + 1], text, g[n - 1])
    <3> TAKE n \in 1 .. N
    <3>1. g[n - 1] \in Nat
      BY <1>1, <2>1
    <3> QED
      BY <1>5, <1>6, <3>1 DEF Iterates
  <2> QED
    BY <2>1, <2>2
<1>8. Is(g)
  <2>1. g = [n \in 0 .. N |-> g[n]]
    BY <1>7
  <2>2. \A n \in 0 .. N : g[n] = IF n = 0 THEN first ELSE Consumed(parts[n + 1], text, g[n - 1])
    <3> TAKE n \in 0 .. N
    <3>1. n = 0 \/ n \in 1 .. N
      BY <1>1
    <3> QED
      BY <1>7, <3>1
  <2> QED
    BY <2>1, <2>2
<1>9. Is(u)
  BY <1>8
<1> HIDE DEF u
<1>10. /\ u[0] = first
       /\ \A n \in 1 .. N : u[n] = Consumed(parts[n + 1], text, u[n - 1])
  <2>1. u[0] = first
    BY <1>1, <1>9
  <2>2. \A n \in 1 .. N : u[n] = Consumed(parts[n + 1], text, u[n - 1])
    <3> TAKE n \in 1 .. N
    <3>1. n \in 0 .. N /\ n # 0
      BY <1>1
    <3> QED
      BY <1>9, <3>1
  <2> QED
    BY <2>1, <2>2
<1>11. \A n \in 0 .. N : u[n] \in Nat
  <2> DEFINE bad == {n \in 0 .. N : u[n] \notin Nat}
  <2> SUFFICES ASSUME bad # {} PROVE FALSE
    OBVIOUS
  <2>1. PICK m \in bad : \A n \in bad : m <= n
    <3>1. bad \in SUBSET Nat
      OBVIOUS
    <3> HIDE DEF bad
    <3> QED
      BY <3>1, LeastOf
  <2>2. m \in 0 .. N /\ u[m] \notin Nat /\ m # 0
    BY <1>1, <1>10, <2>1
  <2>3. m - 1 \in 0 .. N /\ m \in 1 .. N /\ ~(m <= m - 1)
    BY <1>1, <2>2
  <2>4. u[m - 1] \in Nat
    BY <2>1, <2>3
  <2> QED
    BY <1>2, <1>10, <2>2, <2>3, <2>4
<1>12. CursorAfter(parts, text, 0) = first /\ \A n \in 0 .. N : CursorAfter(parts, text, n) \in Nat
  <2>1. 0 \in 0 .. N
    BY <1>1
  <2>2. CursorAfter(parts, text, 0) = first
    BY <1>3, <1>10, <2>1
  <2>3. \A n \in 0 .. N : CursorAfter(parts, text, n) \in Nat
    BY <1>3, <1>11
  <2> QED
    BY <2>2, <2>3
<1>13. \A n \in 1 .. N : CursorAfter(parts, text, n) = Consumed(parts[n + 1], text, CursorAfter(parts, text, n - 1))
  <2> TAKE n \in 1 .. N
  <2>1. n \in 0 .. N /\ n - 1 \in 0 .. N
    BY <1>1
  <2> QED
    BY <1>3, <1>10, <2>1
<1> QED
  BY <1>12, <1>13 DEF N, first

\* Taking each part where it first occurs leaves every end there is: the text
\* before the star behind a part may end from the cursor on, and nowhere else.
Greedy(p, text, i) ==
    Ends(p, text, Cuts(p)[i + 2]) =
      {j \in 0 .. Len(text) : Occurs(Segments(p)[1], text, 0) /\ CursorAfter(Segments(p), text, i) <= j}

\* Every star of a pattern leaves the ends from its cursor on.
LEMMA GreedyIs ==
    ASSUME NEW C, NEW p \in Seq(C), NEW text \in Seq(C), Stars(p) # {}
    PROVE  \A i \in 0 .. Cardinality(Stars(p)) - 1 : Greedy(p, text, i)
<1> DEFINE k == Cardinality(Stars(p)) + 1
           parts == Segments(p)
           cuts == Cuts(p)
           L == Len(text)
           cursor(i) == CursorAfter(parts, text, i)
           bad == {i \in 0 .. k - 2 : ~Greedy(p, text, i)}
<1>1. k \in Nat /\ k >= 2 /\ L \in Nat
  <2>1. k \in Nat /\ k >= 1 /\ k # 1
    BY CutsAre
  <2> QED
    BY <2>1
<1>2. /\ parts \in Seq(Seq(C)) /\ Len(parts) = k
      /\ \A i \in 1 .. k : parts[i] \in Seq(C)
  <2>1. parts \in Seq(Seq(C)) /\ Len(parts) = k
    BY SegmentsAre
  <2> QED
    BY <2>1
<1>3. \A i \in 1 .. k - 1 :
        Ends(p, text, cuts[i + 1]) = {j \in 0 .. L : \E h \in Ends(p, text, cuts[i + 1] - 1) : h <= j}
  <2> TAKE i \in 1 .. k - 1
  <2>1. cuts[i + 1] \in Stars(p)
    <3>1. \A h \in 2 .. k : cuts[h] \in Stars(p)
      BY CutsAre
    <3> QED
      BY <1>1, <3>1
  <2>2. cuts[i + 1] \in 1 .. Len(p) /\ p[cuts[i + 1]] = Star
    BY <2>1 DEF Stars
  <2> QED
    BY <2>2, EndsIs DEF After
<1>4. \A i \in 1 .. k : \A j \in 0 .. L : j \in Ends(p, text, cuts[i + 1] - 1) <=>
        \E at \in Ends(p, text, cuts[i]) : Occurs(parts[i], text, at) /\ j = at + Len(parts[i])
  <2>1. \A i \in 1 .. k : EndsBehind(p, text, i)
    BY PartIs
  <2> QED
    BY <2>1 DEF EndsBehind
<1>5. \A i \in 1 .. k : Ends(p, text, cuts[i + 1] - 1) \subseteq 0 .. L
  <2> TAKE i \in 1 .. k
  <2>1. cuts[i + 1] - 1 \in cuts[i] .. Len(p) /\ cuts[i] \in 0 .. Len(p)
    BY SegmentsAre
  <2>2. cuts[i + 1] - 1 \in 0 .. Len(p)
    BY <2>1
  <2> QED
    BY <2>2, EndsIs
<1>6. cuts[1] = 0 /\ Ends(p, text, 0) = {0}
  BY CutsAre, EndsIs
<1>7. /\ cursor(0) = Len(parts[1])
      /\ \A i \in 1 .. k - 1 : cursor(i) = Consumed(parts[i + 1], text, cursor(i - 1)) /\ cursor(i - 1) \in Nat
  <2>1. Len(parts) # 0
    BY <1>1, <1>2
  <2>2. cursor(0) = Len(parts[1])
    BY <1>2, <2>1, CursorIs
  <2>3. \A i \in 0 .. k - 1 : cursor(i) \in Nat
    BY <1>2, <2>1, CursorIs
  <2>4. \A i \in 1 .. k - 1 : cursor(i) = Consumed(parts[i + 1], text, cursor(i - 1))
    BY <1>2, <2>1, CursorIs
  <2> HIDE DEF k, parts, cursor
  <2> QED
    BY <1>1, <2>2, <2>3, <2>4
<1> HIDE DEF k, parts, cuts, L, cursor
<1>8. Greedy(p, text, 0)
  <2>1. 1 \in 1 .. k /\ 1 \in 1 .. k - 1 /\ 1 + 1 = 2 /\ parts[1] \in Seq(C)
    BY <1>1, <1>2
  <2>2. \A j \in 0 .. L : j \in Ends(p, text, cuts[2] - 1) <=> Occurs(parts[1], text, 0) /\ j = Len(parts[1])
    <3>1. \A j \in 0 .. L : j \in Ends(p, text, cuts[2] - 1) <=>
            \E at \in {0} : Occurs(parts[1], text, at) /\ j = at + Len(parts[1])
      <4>1. \A j \in 0 .. L : j \in Ends(p, text, cuts[1 + 1] - 1) <=>
              \E at \in Ends(p, text, cuts[1]) : Occurs(parts[1], text, at) /\ j = at + Len(parts[1])
        BY <1>4, <2>1
      <4> QED
        BY <1>6, <2>1, <4>1
    <3>2. 0 + Len(parts[1]) = Len(parts[1])
      BY <2>1
    <3> QED
      BY <3>1, <3>2
  <2>3. Ends(p, text, cuts[2]) = {j \in 0 .. L : \E h \in Ends(p, text, cuts[2] - 1) : h <= j}
    BY <1>3, <2>1
  <2>4. Ends(p, text, cuts[2] - 1) \subseteq 0 .. L
    BY <1>5, <2>1
  <2>5. Occurs(parts[1], text, 0) => Len(parts[1]) \in 0 .. L
    BY <1>1, <1>2, <2>1 DEF Occurs, L
  <2>6. Ends(p, text, cuts[2]) = {j \in 0 .. L : Occurs(parts[1], text, 0) /\ cursor(0) <= j}
    BY <1>7, <2>2, <2>3, <2>4, <2>5
  <2> QED
    BY <2>6 DEF Greedy, parts, cuts, L, cursor
<1>9. ASSUME NEW i \in 1 .. k - 2, Greedy(p, text, i - 1)
      PROVE  Greedy(p, text, i)
  <2> DEFINE part == parts[i + 1]
             before == Ends(p, text, cuts[i + 1])
             ends == Ends(p, text, cuts[i + 2] - 1)
             fits == Occurs(parts[1], text, 0)
             Behind(j) == \E at \in cursor(i - 1) .. L : Occurs(part, text, at) /\ j = at + Len(part)
  <2>1. i \in 1 .. k - 1 /\ i + 1 \in 1 .. k /\ i + 1 \in 1 .. k - 1 /\ (i - 1) + 2 = i + 1 /\ (i + 1) + 1 = i + 2
    BY <1>1
  <2>2. before = {j \in 0 .. L : fits /\ cursor(i - 1) <= j}
    BY <1>9, <2>1 DEF Greedy, parts, cuts, L, cursor
  <2>3. part \in Seq(C) /\ cursor(i - 1) \in Nat /\ cursor(i) = Consumed(part, text, cursor(i - 1))
    BY <1>2, <1>7, <2>1
  <2>4. /\ cursor(i) \in Nat /\ (cursor(i) <= L => Behind(cursor(i)))
        /\ \A j \in 0 .. L : Behind(j) => cursor(i) <= j
    <3> HIDE DEF part
    <3>1. /\ Consumed(part, text, cursor(i - 1)) \in Nat
          /\ Consumed(part, text, cursor(i - 1)) <= L => Behind(Consumed(part, text, cursor(i - 1)))
      <4> DEFINE from == cursor(i - 1)
      <4>1. from \in Nat
        BY <2>3
      <4> HIDE DEF from
      <4>2. Consumed(part, text, from) \in Nat
        BY <2>3, <4>1, FindIs
      <4>3. Consumed(part, text, from) <= Len(text) =>
              \E at \in from .. Len(text) : Occurs(part, text, at) /\ Consumed(part, text, from) = at + Len(part)
        BY <2>3, <4>1, FindIs
      <4> QED
        BY <4>2, <4>3 DEF from, L
    <3>2. \A j \in 0 .. L : Behind(j) => Consumed(part, text, cursor(i - 1)) <= j
      BY <2>3, FindIs DEF L
    <3> QED
      BY <2>3, <3>1, <3>2
  <2>5. \A j \in 0 .. L : j \in ends <=> \E at \in before : Occurs(part, text, at) /\ j = at + Len(part)
    BY <1>4, <2>1
  <2>6. ends \subseteq 0 .. L /\ Ends(p, text, cuts[i + 2]) = {j \in 0 .. L : \E h \in ends : h <= j}
    BY <1>3, <1>5, <2>1
  <2> HIDE DEF part, before, ends, fits
  <2>7. \A j \in 0 .. L : j \in ends <=> fits /\ Behind(j)
    BY <1>1, <2>2, <2>3, <2>5
  <2> HIDE DEF Behind
  <2>8. \A j \in 0 .. L : (\E h \in ends : h <= j) <=> fits /\ cursor(i) <= j
    <3> TAKE j \in 0 .. L
    <3>1. ASSUME NEW h \in ends, h <= j PROVE fits /\ cursor(i) <= j
      BY <1>1, <2>4, <2>6, <2>7, <3>1
    <3>2. ASSUME fits, cursor(i) <= j PROVE \E h \in ends : h <= j
      <4>1. cursor(i) \in 0 .. L /\ cursor(i) <= L
        BY <1>1, <2>4, <3>2
      <4> QED
        BY <2>4, <2>7, <3>2, <4>1
    <3> QED
      BY <3>1, <3>2
  <2>9. Ends(p, text, cuts[i + 2]) = {j \in 0 .. L : fits /\ cursor(i) <= j}
    BY <2>6, <2>8
  <2> QED
    BY <2>9 DEF Greedy, parts, cuts, L, cursor, fits
<1>10. bad = {}
  <2> SUFFICES ASSUME bad # {} PROVE FALSE
    OBVIOUS
  <2>1. PICK m \in bad : \A n \in bad : m <= n
    <3>1. bad \in SUBSET Nat
      BY <1>1
    <3> HIDE DEF bad
    <3> QED
      BY <3>1, LeastOf
  <2>2. m \in 1 .. k - 2 /\ m - 1 \in 0 .. k - 2 /\ m - 1 \notin bad
    BY <1>1, <1>8, <2>1
  <2> QED
    BY <1>9, <2>1, <2>2
<1>11. \A i \in 0 .. k - 2 : Greedy(p, text, i)
  BY <1>10
<1>12. Cardinality(Stars(p)) - 1 = k - 2
  <2>1. k - 1 = Cardinality(Stars(p))
    BY CutsAre DEF k
  <2> QED
    BY <1>1, <2>1
<1> QED
  BY <1>11, <1>12

\* The matcher finds a text exactly when the pattern stands for it.
LEMMA MatchIsMeaning ==
    ASSUME NEW C, NEW p \in Seq(C), NEW text \in Seq(C), Stars(p) # {}
    PROVE  WildcardMatch(p, text) <=> StandsFor(p, text)
<1> DEFINE k == Cardinality(Stars(p)) + 1
           parts == Segments(p)
           cuts == Cuts(p)
           L == Len(text)
           suffix == parts[k]
           cursor == CursorAfter(parts, text, k - 2)
           fits == Occurs(parts[1], text, 0)
<1>1. k \in Nat /\ k >= 2 /\ L \in Nat /\ k - 1 = Cardinality(Stars(p))
  <2>1. k \in Nat /\ k >= 1 /\ k # 1 /\ k - 1 = Cardinality(Stars(p))
    BY CutsAre
  <2> QED
    BY <2>1
<1>2. /\ parts \in Seq(Seq(C)) /\ Len(parts) = k /\ suffix \in Seq(C) /\ Len(suffix) \in Nat
      /\ Last(parts) = suffix
  <2>1. parts \in Seq(Seq(C)) /\ Len(parts) = k
    BY SegmentsAre
  <2>2. suffix \in Seq(C)
    BY <1>1, <2>1
  <2> QED
    BY <2>1, <2>2 DEF Last
<1>3. cursor \in Nat
  <2>1. Len(parts) # 0 /\ k - 2 \in 0 .. Len(parts) - 1
    BY <1>1, <1>2
  <2> QED
    BY <1>2, <2>1, CursorIs
<1>4. Ends(p, text, cuts[k]) = {j \in 0 .. L : fits /\ cursor <= j}
  <2>1. k - 2 \in 0 .. Cardinality(Stars(p)) - 1 /\ (k - 2) + 2 = k
    BY <1>1
  <2>2. Greedy(p, text, k - 2)
    BY <2>1, GreedyIs
  <2> HIDE DEF k
  <2> QED
    BY <2>1, <2>2 DEF Greedy
<1>5. \A j \in 0 .. L : j \in Ends(p, text, Len(p)) <=>
        \E at \in Ends(p, text, cuts[k]) : Occurs(suffix, text, at) /\ j = at + Len(suffix)
  <2>1. k \in 1 .. Cardinality(Stars(p)) + 1 /\ cuts[k + 1] - 1 = Len(p)
    <3>1. cuts[k + 1] = Len(p) + 1 /\ Len(p) \in Nat
      BY CutsAre
    <3> QED
      BY <1>1, <3>1
  <2>2. \A j \in 0 .. L : j \in Ends(p, text, cuts[k + 1] - 1) <=>
          \E at \in Ends(p, text, cuts[k]) : Occurs(suffix, text, at) /\ j = at + Len(suffix)
    <3>1. \A i \in 1 .. k : \A j \in 0 .. L : j \in Ends(p, text, cuts[i + 1] - 1) <=>
            \E at \in Ends(p, text, cuts[i]) : Occurs(parts[i], text, at) /\ j = at + Len(parts[i])
      <4>1. \A i \in 1 .. k : EndsBehind(p, text, i)
        BY PartIs
      <4> QED
        BY <4>1 DEF EndsBehind
    <3>2. k \in 1 .. k
      BY <1>1
    <3> HIDE DEF k, parts, cuts, L
    <3> QED
      BY <3>1, <3>2 DEF suffix
  <2> HIDE DEF k, cuts, suffix, L
  <2> QED
    BY <2>1, <2>2
<1>6. WildcardMatch(p, text) <=> fits /\ cursor + Len(suffix) <= L /\ Occurs(suffix, text, L - Len(suffix))
  <2>1. Len(parts) # 1 /\ Len(parts) - 2 = k - 2
    BY <1>1, <1>2
  <2> QED
    BY <1>2, <2>1 DEF WildcardMatch
<1> HIDE DEF k, parts, cuts, L, suffix, cursor, fits
<1>7. StandsFor(p, text) <=> \E at \in 0 .. L : fits /\ cursor <= at /\ Occurs(suffix, text, at) /\ L = at + Len(suffix)
  BY <1>1, <1>4, <1>5 DEF StandsFor, L
<1>8. \A at \in 0 .. L : L = at + Len(suffix) <=> at = L - Len(suffix)
  BY <1>1, <1>2
<1>9. cursor + Len(suffix) <= L => L - Len(suffix) \in 0 .. L /\ cursor <= L - Len(suffix)
  BY <1>1, <1>2, <1>3
<1>10. \A at \in 0 .. L : cursor <= at /\ L = at + Len(suffix) => cursor + Len(suffix) <= L
  BY <1>1, <1>2, <1>3
<1> QED
  BY <1>6, <1>7, <1>8, <1>9, <1>10

\* Without a star the pattern is searched for anywhere.
LEMMA SubstringIsMeaning ==
    ASSUME NEW C, NEW p \in Seq(C), NEW text \in Seq(C), Stars(p) = {}
    PROVE  WildcardMatch(p, text) <=> StandsFor(<<Star>> \o p \o <<Star>>, text)
<1> DEFINE D == C \cup {Star}
           q == <<Star>> \o p \o <<Star>>
           n == Len(p)
           L == Len(text)
<1>1. n \in Nat /\ L \in Nat /\ p \in Seq(D) /\ text \in Seq(D)
  <2>1. p \in [1 .. Len(p) -> D] /\ text \in [1 .. Len(text) -> D]
    OBVIOUS
  <2>2. \A s : s \in [1 .. Len(s) -> D] /\ Len(s) \in Nat => s \in Seq(D)
    OBVIOUS
  <2> QED
    BY <2>1, <2>2
<1>2. q \in Seq(D) /\ Len(q) = n + 2 /\ q[1] = Star /\ q[n + 2] = Star
      /\ \A i \in 1 .. n : q[i + 1] = p[i]
  BY <1>1
<1> HIDE DEF q, D
<1>3. Ends(q, text, 1) = 0 .. L
  <2>1. Ends(q, text, 0) = {0} /\ Ends(q, text, 1) = After(text, Ends(q, text, 0), q[1])
    <3>1. 1 \in 1 .. Len(q) /\ 1 - 1 = 0
      BY <1>1, <1>2
    <3> QED
      BY <1>1, <1>2, <3>1, EndsIs
  <2>2. Ends(q, text, 1) = {j \in 0 .. L : \E i \in {0} : i <= j}
    BY <1>2, <2>1 DEF After
  <2>3. \A j \in 0 .. L : 0 <= j
    BY <1>1
  <2> QED
    BY <2>2, <2>3
<1>4. \A j \in 0 .. L : j \in Ends(q, text, n + 1) <=>
        \E at \in 0 .. L : Occurs(p, text, at) /\ j = at + n
  <2> TAKE j \in 0 .. L
  <2>1. j \in Ends(q, text, n + 1) <=> Along(q, text, 1, n + 1, j)
    <3>1. 1 \in 0 .. Len(q) /\ n + 1 \in 1 .. Len(q)
      BY <1>1, <1>2
    <3>2. \A x \in 1 + 1 .. n + 1 : q[x] # Star
      <4> TAKE x \in 1 + 1 .. n + 1
      <4>1. x - 1 \in 1 .. n /\ (x - 1) + 1 = x
        BY <1>1
      <4>2. q[x] = p[x - 1]
        BY <1>2, <4>1
      <4> QED
        BY <4>1, <4>2 DEF Stars
    <3> QED
      BY <1>1, <1>2, <3>1, <3>2, RunIs
  <2>2. j - ((n + 1) - 1) = j - n
    BY <1>1
  <2>3. /\ \A x \in 1 .. n : x + 1 \in 1 + 1 .. n + 1 /\ j - (n + 1) + (x + 1) = (j - n) + x
        /\ \A i \in 1 + 1 .. n + 1 : i - 1 \in 1 .. n /\ (i - 1) + 1 = i
    BY <1>1
  <2>4. Along(q, text, 1, n + 1, j) <=>
          j - n \in 0 .. L /\ \A x \in 1 .. n : text[(j - n) + x] = p[x]
    <3>1. ASSUME NEW x \in 1 .. n
          PROVE  text[j - (n + 1) + (x + 1)] = q[x + 1] <=> text[(j - n) + x] = p[x]
      BY <1>2, <2>3
    <3>2. (\A i \in 1 + 1 .. n + 1 : text[j - (n + 1) + i] = q[i]) <=>
            \A x \in 1 .. n : text[j - (n + 1) + (x + 1)] = q[x + 1]
      BY <2>3
    <3> QED
      BY <1>3, <2>2, <3>1, <3>2 DEF Along
  <2>5. ASSUME j - n \in 0 .. L
        PROVE  Occurs(p, text, j - n) <=> \A x \in 1 .. n : text[(j - n) + x] = p[x]
    <3>1. j - n \in Nat /\ (j - n) + n <= L
      BY <1>1, <2>5
    <3> QED
      BY <3>1, OccursIs
  <2>6. \A at \in 0 .. L : j = at + n <=> at = j - n
    BY <1>1
  <2> QED
    BY <2>1, <2>4, <2>5, <2>6
<1>5. Ends(q, text, n + 1) \subseteq 0 .. L
  <2>1. n + 1 \in 0 .. Len(q)
    BY <1>1, <1>2
  <2> QED
    BY <1>1, <1>2, <2>1, EndsIs
<1>6. StandsFor(q, text) <=> \E h \in Ends(q, text, n + 1) : h <= L
  <2>1. n + 2 \in 1 .. Len(q) /\ (n + 2) - 1 = n + 1 /\ L \in 0 .. L
    BY <1>1, <1>2
  <2>2. Ends(q, text, n + 2) = After(text, Ends(q, text, n + 1), Star)
    BY <1>1, <1>2, <2>1, EndsIs
  <2> QED
    BY <1>2, <2>1, <2>2 DEF StandsFor, After
<1>7. \A at \in 0 .. L : Occurs(p, text, at) => at + n \in 0 .. L
  BY <1>1 DEF Occurs
<1>8. StandsFor(q, text) <=> \E at \in 0 .. L : Occurs(p, text, at)
  BY <1>1, <1>4, <1>5, <1>6, <1>7
<1>9. WildcardMatch(p, text) <=> Find(p, text, 0) <= L
  <2>1. Len(Segments(p)) = Cardinality(Stars(p)) + 1 /\ Cardinality(Stars(p)) + 1 = 1
    BY SegmentsAre, CutsAre
  <2> QED
    BY <2>1 DEF WildcardMatch
<1>10. Find(p, text, 0) <= L <=> \E at \in 0 .. L : Occurs(p, text, at)
  <2>1. Find(p, text, 0) <= L <=> Consumed(p, text, 0) <= L
    BY FindIs
  <2>2. /\ Consumed(p, text, 0) \in Nat
        /\ Consumed(p, text, 0) <= L => \E at \in 0 .. L : Occurs(p, text, at) /\ Consumed(p, text, 0) = at + n
    BY FindIs
  <2>3. \A j \in 0 .. L : (\E at \in 0 .. L : Occurs(p, text, at) /\ j = at + n) => Consumed(p, text, 0) <= j
    BY FindIs
  <2>4. ASSUME NEW at \in 0 .. L, Occurs(p, text, at) PROVE Consumed(p, text, 0) <= L
    <3>1. at + n \in 0 .. L
      BY <1>7, <2>4
    <3> QED
      BY <1>1, <2>2, <2>3, <2>4, <3>1
  <2> QED
    BY <2>1, <2>2, <2>4
<1> QED
  BY <1>8, <1>9, <1>10 DEF q

\* With or without a star, what the matcher finds is what the pattern means.
LEMMA HitIsMeaning ==
    ASSUME NEW C, NEW p \in Seq(C), NEW text \in Seq(C) \cup {NoText}
    PROVE  (text # NoText /\ WildcardMatch(p, text)) <=> Means(p, text)
<1>1. CASE text = NoText
  BY <1>1 DEF Means
<1>2. CASE text # NoText /\ Stars(p) # {}
  <2>1. WildcardMatch(p, text) <=> StandsFor(p, text)
    BY <1>2, MatchIsMeaning
  <2> QED
    BY <1>2, <2>1 DEF Means
<1>3. CASE text # NoText /\ Stars(p) = {}
  <2>1. WildcardMatch(p, text) <=> StandsFor(<<Star>> \o p \o <<Star>>, text)
    BY <1>3, SubstringIsMeaning
  <2> QED
    BY <1>3, <2>1 DEF Means
<1> QED
  BY <1>1, <1>2, <1>3

-----------------------------------------------------------------------------
(* The page a search answers with.                                         *)

\* The first rows by FormID: as many as the limit allows, each once, and none
\* before one of them left out.
FirstBy(out, wanted, limit) ==
    LET cut == limit > 0 /\ limit < Cardinality(wanted)
    IN  /\ ToSet(out) \subseteq wanted
        /\ Len(out) = (IF cut THEN limit ELSE Cardinality(wanted))
        /\ \A i, j \in DOMAIN out : i < j => out[i].id < out[j].id
        /\ \A row \in wanted \ ToSet(out) : \A found \in ToSet(out) : found.id < row.id

\* The first rows by FormID are what the limit leaves of the sorted rows.
LEMMA PageIs ==
    ASSUME NEW wanted, IsFiniteSet(wanted), \A row \in wanted : row.id \in Nat,
           \A r, s \in wanted : r.id = s.id => r = s,
           NEW limit \in Nat
    PROVE  FirstBy(EffectiveTake(ById(wanted), limit), wanted, limit)
<1> DEFINE n == Cardinality(wanted)
           key == [row \in wanted |-> row.id]
           all == ById(wanted)
           out == EffectiveTake(all, limit)
           m == IF limit > 0 /\ limit < n THEN limit ELSE n
<1>1. n \in Nat /\ m \in 0 .. n
  <2>1. n \in Nat
    BY FS_CardinalityType
  <2> QED
    BY <2>1
<1>2. all \in [1 .. n -> wanted] /\ Ascends(all, wanted, key)
  <2>1. Sorts(Sorted(wanted, key), wanted, key)
    <3>1. key \in [wanted -> Nat] /\ \A x, y \in wanted : key[x] = key[y] => x = y
      OBVIOUS
    <3> HIDE DEF key
    <3> QED
      BY <3>1, SortedIs
  <2> QED
    BY <2>1 DEF Sorts, ById
<1> HIDE DEF n, all
<1>3. all \in Seq(wanted) /\ Len(all) = n
  BY <1>1, <1>2
<1>4. wanted = {all[i] : i \in 1 .. n} /\ \A i, j \in 1 .. n : i < j => all[i].id < all[j].id
  <2>1. DOMAIN all = 1 .. n /\ \A i \in 1 .. n : all[i] \in wanted
    BY <1>2
  <2>2. \A i \in 1 .. n : key[all[i]] = all[i].id
    BY <2>1
  <2> HIDE DEF key
  <2>3. wanted = {all[i] : i \in 1 .. n}
    BY <1>2, <2>1 DEF Ascends
  <2>4. \A i, j \in 1 .. n : i < j => key[all[i]] < key[all[j]]
    BY <1>2, <2>1 DEF Ascends
  <2> QED
    BY <2>2, <2>3, <2>4
<1>5. out \in Seq(wanted) /\ Len(out) = m /\ \A i \in 1 .. m : out[i] = all[i]
  <2>1. CASE limit = 0 \/ limit > n
    BY <1>1, <1>3, <2>1 DEF EffectiveTake
  <2>2. CASE limit # 0 /\ ~(limit > n)
    <3>1. out = SubSeq(all, 1, limit) /\ m = limit /\ limit \in 1 .. n
      BY <1>1, <1>3, <2>2 DEF EffectiveTake
    <3> HIDE DEF out, m
    <3> QED
      BY <1>1, <1>3, <3>1
  <2> QED
    BY <2>1, <2>2
<1> HIDE DEF out, m
<1>6. DOMAIN out = 1 .. m /\ ToSet(out) = {all[i] : i \in 1 .. m}
  BY <1>1, <1>5 DEF ToSet
<1>7. ToSet(out) \subseteq wanted
  BY <1>1, <1>4, <1>6
<1>8. \A i, j \in DOMAIN out : i < j => out[i].id < out[j].id
  BY <1>1, <1>4, <1>5, <1>6
<1>9. ASSUME NEW row \in wanted \ ToSet(out), NEW found \in ToSet(out)
      PROVE  found.id < row.id
  <2>1. PICK i \in 1 .. n : row = all[i]
    BY <1>4
  <2>2. PICK j \in 1 .. m : found = all[j]
    BY <1>6
  <2>3. i \notin 1 .. m
    BY <1>6, <1>9, <2>1
  <2>4. j \in 1 .. n /\ j < i
    BY <1>1, <2>3
  <2> QED
    BY <1>4, <2>1, <2>2, <2>4
<1>10. Len(out) = (IF limit > 0 /\ limit < n THEN limit ELSE n)
  BY <1>5 DEF m
<1> QED
  BY <1>7, <1>8, <1>9, <1>10 DEF FirstBy, n, out, all

-----------------------------------------------------------------------------
(* The operation.                                                          *)

\* A search that can be asked over the characters C: a database has finitely
\* many records, and each has a FormID of its own.
SearchRequests(C) ==
    {q \in [op : {"search"}, pattern : Seq(C), types : SUBSET STRING, field : STRING, limit : Nat,
            rows : SUBSET [id : Nat, sig : STRING, edid : Seq(C) \cup {NoText},
                           name : Seq(C) \cup {NoText}, desc : Seq(C) \cup {NoText}]] :
       IsFiniteSet(q.rows) /\ \A r, s \in q.rows : r.id = s.id => r = s}

\* Any other operation answers its own requests, whatever its output.
Elsewhere(op) == \E other, out : other # op /\ (Run(other, out) \/ Refuse(other))

\* The records a request wants, as SearchFindsAll names them.
WantedBy(q) ==
    {row \in q.rows :
       /\ q.types = {} \/ row.sig \in q.types
       /\ \/ q.field # "name" /\ Means(q.pattern, row.edid)
          \/ q.field # "edid" /\ (Means(q.pattern, row.name) \/ Means(q.pattern, row.desc))}

\* A search finds the records wanted, cut at the limit.
LEMMA SearchIs ==
    ASSUME NEW C, NEW q \in SearchRequests(C)
    PROVE  FirstBy(Search(q.rows, q.pattern, q.types, q.field, q.limit), WantedBy(q), q.limit)
<1>1. /\ q.pattern \in Seq(C) /\ q.limit \in Nat /\ IsFiniteSet(q.rows)
      /\ \A r, s \in q.rows : r.id = s.id => r = s
      /\ \A row \in q.rows : /\ row.id \in Nat /\ row.edid \in Seq(C) \cup {NoText}
                             /\ row.name \in Seq(C) \cup {NoText} /\ row.desc \in Seq(C) \cup {NoText}
  BY DEF SearchRequests
<1>2. ASSUME NEW row \in q.rows
      PROVE  SearchHit(row, q.pattern, q.types, q.field) <=>
               /\ q.types = {} \/ row.sig \in q.types
               /\ \/ q.field # "name" /\ Means(q.pattern, row.edid)
                  \/ q.field # "edid" /\ (Means(q.pattern, row.name) \/ Means(q.pattern, row.desc))
  <2>1. (row.edid # NoText /\ WildcardMatch(q.pattern, row.edid)) <=> Means(q.pattern, row.edid)
    BY <1>1, HitIsMeaning
  <2>2. (row.name # NoText /\ WildcardMatch(q.pattern, row.name)) <=> Means(q.pattern, row.name)
    BY <1>1, HitIsMeaning
  <2>3. (row.desc # NoText /\ WildcardMatch(q.pattern, row.desc)) <=> Means(q.pattern, row.desc)
    BY <1>1, HitIsMeaning
  <2> QED
    BY <2>1, <2>2, <2>3 DEF SearchHit
<1>3. {row \in q.rows : SearchHit(row, q.pattern, q.types, q.field)} = WantedBy(q)
  BY <1>2 DEF WantedBy
<1>4. IsFiniteSet(WantedBy(q)) /\ WantedBy(q) \subseteq q.rows
  BY <1>1, FS_Subset DEF WantedBy
<1>5. FirstBy(EffectiveTake(ById(WantedBy(q)), q.limit), WantedBy(q), q.limit)
  BY <1>1, <1>4, PageIs
<1> QED
  BY <1>3, <1>5 DEF Search

\* Whatever the pattern, the records and the limit, a search that answers
\* answers with all the pattern stands for, in order, cut at the end only.
THEOREM SearchAlwaysFindsAll ==
    ASSUME NEW C
    PROVE  (\E q \in SearchRequests(C) : Asked(q)) /\ [][SearchRecords \/ Elsewhere("search")]_vars
             => []SearchFindsAll
<1> DEFINE Inv == request \in SearchRequests(C) /\ SearchFindsAll
<1>1. (\E q \in SearchRequests(C) : Asked(q)) => Inv
  BY DEF Asked, Pending, SearchFindsAll, Answered
<1>2. Inv /\ [SearchRecords \/ Elsewhere("search")]_vars => Inv'
  <2> SUFFICES ASSUME Inv, [SearchRecords \/ Elsewhere("search")]_vars
               PROVE  Inv'
    OBVIOUS
  <2>1. CASE SearchRecords
    <3>1. CASE Refuse("search")
      BY <3>1 DEF Refuse, SearchFindsAll, Answered
    <3>2. CASE Run("search", Search(request.rows, request.pattern, request.types, request.field, request.limit))
      <4>1. /\ request' = request /\ request \in SearchRequests(C)
            /\ Out' = Search(request.rows, request.pattern, request.types, request.field, request.limit)
        BY <3>2 DEF Run, Out
      <4>2. FirstBy(Out', WantedBy(request), request.limit)
        BY <4>1, SearchIs
      <4>3. SearchFindsAll'
        BY <4>1, <4>2 DEF SearchFindsAll, FirstBy, WantedBy
      <4> QED
        BY <4>1, <4>3
    <3> QED
      BY <2>1, <3>1, <3>2 DEF SearchRecords
  <2>2. CASE Elsewhere("search")
    <3>1. request' = request /\ request.op # "search"
      BY <2>2 DEF Elsewhere, Run, Refuse
    <3> QED
      BY <3>1 DEF SearchFindsAll, Answered
  <2>3. CASE UNCHANGED vars
    BY <2>3 DEF vars, SearchFindsAll, Answered, Out
  <2> QED
    BY <2>1, <2>2, <2>3
<1>3. Inv => SearchFindsAll
  OBVIOUS
<1> HIDE DEF Inv
<1> QED
  BY <1>1, <1>2, <1>3, PTL

-----------------------------------------------------------------------------
(* What is picked out of a sequence.                                       *)

\* What is picked out keeps its order.
Picks(order, I) ==
    /\ order \in [1 .. Cardinality(I) -> I] /\ I = {order[n] : n \in 1 .. Cardinality(I)}
    /\ \A m, n \in 1 .. Cardinality(I) : m < n => order[m] < order[n]

\* A finite set of numbers rises to a sequence of all of them.
LEMMA RisingIs ==
    ASSUME NEW I \in SUBSET Nat, IsFiniteSet(I)
    PROVE  /\ Cardinality(I) \in Nat /\ Picks(Rising(I), I)
           /\ Rising(I) \in Seq(I) /\ Len(Rising(I)) = Cardinality(I)
<1> DEFINE key == [i \in I |-> i]
           k == Cardinality(I)
<1>1. k \in Nat
  BY FS_CardinalityType
<1>2. Sorts(Rising(I), I, key)
  <2>1. key \in [I -> Nat] /\ \A x, y \in I : key[x] = key[y] => x = y
    OBVIOUS
  <2> QED
    BY <2>1, SortedIs DEF Rising
<1> HIDE DEF k
<1>3. Rising(I) \in [1 .. k -> I] /\ DOMAIN Rising(I) = 1 .. k /\ Ascends(Rising(I), I, key)
  BY <1>2 DEF Sorts, k
<1>4. Picks(Rising(I), I)
  <2>1. I = {Rising(I)[n] : n \in 1 .. k}
    BY <1>3 DEF Ascends
  <2>2. \A m, n \in 1 .. k : m < n => Rising(I)[m] < Rising(I)[n]
    BY <1>3 DEF Ascends
  <2> QED
    BY <1>3, <2>1, <2>2 DEF Picks, k
<1>5. Rising(I) \in Seq(I) /\ Len(Rising(I)) = k
  BY <1>1, <1>3
<1> QED
  BY <1>1, <1>4, <1>5 DEF k

\* What is picked out of a sequence is a sequence, one element for each index.
LEMMA PickedIs ==
    ASSUME NEW T, NEW s \in Seq(T), NEW I \in SUBSET DOMAIN s
    PROVE  /\ IsFiniteSet(I) /\ Cardinality(I) \in Nat
           /\ Picks(Rising(I), I)
           /\ Picked(s, I) = [n \in 1 .. Cardinality(I) |-> s[Rising(I)[n]]]
           /\ Picked(s, I) \in Seq(T) /\ Len(Picked(s, I)) = Cardinality(I)
<1> DEFINE k == Cardinality(I)
<1>1. IsFiniteSet(I) /\ k \in Nat
  <2>1. DOMAIN s = 1 .. Len(s) /\ Len(s) \in Nat
    OBVIOUS
  <2>2. IsFiniteSet(1 .. Len(s))
    BY <2>1, FS_Interval
  <2>3. IsFiniteSet(I)
    BY <2>1, <2>2, FS_Subset
  <2> QED
    BY <2>3, FS_CardinalityType
<1>2. I \in SUBSET Nat
  OBVIOUS
<1>3. Picks(Rising(I), I) /\ Rising(I) \in [1 .. k -> I] /\ DOMAIN Rising(I) = 1 .. k
  BY <1>1, <1>2, RisingIs DEF Picks
<1> HIDE DEF k
<1>5. Picked(s, I) = [n \in 1 .. k |-> s[Rising(I)[n]]]
  BY <1>3 DEF Picked, Following
<1>6. \A n \in 1 .. k : s[Rising(I)[n]] \in T
  BY <1>3
<1>7. Picked(s, I) \in Seq(T) /\ Len(Picked(s, I)) = k
  BY <1>1, <1>5, <1>6
<1> QED
  BY <1>1, <1>3, <1>5, <1>7 DEF k

-----------------------------------------------------------------------------
(* The walk.                                                               *)

\* A file that can be scanned: its first cell is the header record, and a group
\* counts its own header.
Records == [size : Nat, id : Nat, sig : STRING \ {Grup}, edid : STRING, refs : Seq(Nat)]
Groups == [sig : {Grup}, size : Nat \ {0}, type : Nat, label : STRING]
Files == {file \in Seq(Records \cup Groups) : file # <<>> /\ file[1] \in Records}

Events(N) ==
    {Bail} \cup [kind : {"start"}, offset : 1 .. N, end : 1 .. N] \cup [kind : {"end", "record"}, offset : 1 .. N]

\* A header takes at least its own cell.
LEMMA CellIs ==
    ASSUME NEW file \in Files, NEW pos \in 1 .. Len(file)
    PROVE  /\ CellEnd(file, pos) \in Nat /\ CellEnd(file, pos) >= pos + 1
           /\ IsGroup(file, pos) => file[pos] \in Groups
           /\ ~IsGroup(file, pos) => file[pos] \in Records
<1>1. file[pos] \in Records \cup Groups /\ pos \in Nat
  BY DEF Files
<1>2. CASE file[pos] \in Records
  BY <1>1, <1>2 DEF Records, IsGroup, CellEnd, RecordEnd
<1>3. CASE file[pos] \in Groups
  BY <1>1, <1>3 DEF Groups, IsGroup, CellEnd
<1> QED
  BY <1>1, <1>2, <1>3

\* The walk from a position on, and what a group or a record adds before it.
OfGroup(f, pos, after, end) ==
    <<[kind |-> "start", offset |-> pos, end |-> after]>> \o f[pos + 1][after]
      \o <<[kind |-> "end", offset |-> pos]>> \o f[after][end]
OfRecord(f, pos, after, end) == <<[kind |-> "record", offset |-> pos]>> \o f[after][end]

\* A descent stops, bails, or goes on behind a group or a record.
LEMMA DescentIs ==
    ASSUME NEW file \in Files, NEW pos \in 1 .. Len(file) + 1, NEW end \in 1 .. Len(file) + 1, NEW f
    PROVE  \/ Descent(file, f, pos, end) \in {<<>>, <<Bail>>}
           \/ /\ pos < end /\ CellEnd(file, pos) <= end /\ IsGroup(file, pos)
              /\ Descent(file, f, pos, end) = OfGroup(f, pos, CellEnd(file, pos), end)
           \/ /\ pos < end /\ CellEnd(file, pos) <= end /\ ~IsGroup(file, pos)
              /\ Descent(file, f, pos, end) = OfRecord(f, pos, CellEnd(file, pos), end)
<1> DEFINE after == CellEnd(file, pos)
<1>1. Descent(file, f, pos, end) =
        IF pos >= end THEN <<>>
        ELSE IF after > end THEN IF IsGroup(file, pos) THEN <<Bail>> ELSE <<>>
        ELSE IF IsGroup(file, pos) THEN OfGroup(f, pos, after, end) ELSE OfRecord(f, pos, after, end)
  BY Zenon DEF Descent, OfGroup, OfRecord
<1> HIDE DEF after
<1>2. CASE pos >= end
  BY <1>1, <1>2
<1>3. CASE ~(pos >= end) /\ after > end
  BY <1>1, <1>3
<1>4. CASE ~(pos >= end) /\ ~(after > end)
  <2>0. Len(file) \in Nat
    BY DEF Files
  <2>1. pos < end /\ pos \in 1 .. Len(file)
    BY <1>4, <2>0
  <2>2. after \in Nat
    BY <2>1, CellIs DEF after
  <2>3. after <= end
    BY <1>4, <2>0, <2>2
  <2>4. CASE IsGroup(file, pos)
    BY <1>1, <1>4, <2>1, <2>3, <2>4, Zenon DEF after
  <2>5. CASE ~IsGroup(file, pos)
    BY <1>1, <1>4, <2>1, <2>3, <2>5, Zenon DEF after
  <2> QED
    BY <2>4, <2>5
<1> QED
  BY <1>2, <1>3, <1>4 DEF after

\* A descent yields events of this file.
LEMMA DescentType ==
    ASSUME NEW file \in Files, NEW N, N = Len(file) + 1, NEW pos \in 1 .. N, NEW end \in 1 .. N,
           NEW f, \A q \in pos + 1 .. N : \A e \in 1 .. N : f[q][e] \in Seq(Events(N))
    PROVE  Descent(file, f, pos, end) \in Seq(Events(N))
<1> DEFINE after == CellEnd(file, pos)
<1>0. Len(file) \in Nat /\ N \in Nat /\ pos \in Nat /\ end \in Nat
  BY DEF Files
<1>1. <<>> \in Seq(Events(N)) /\ <<Bail>> \in Seq(Events(N))
  BY DEF Events
<1>2. ASSUME pos < end, after <= end
      PROVE  /\ OfGroup(f, pos, after, end) \in Seq(Events(N))
             /\ OfRecord(f, pos, after, end) \in Seq(Events(N))
  <2>1. pos \in 1 .. Len(file)
    BY <1>0, <1>2
  <2>2. after \in Nat /\ after >= pos + 1
    BY <2>1, CellIs
  <2> HIDE DEF after
  <2>3. pos + 1 \in pos + 1 .. N /\ after \in pos + 1 .. N /\ after \in 1 .. N
    BY <1>0, <1>2, <2>2
  <2>4. f[pos + 1][after] \in Seq(Events(N)) /\ f[after][end] \in Seq(Events(N))
    BY <2>3
  <2>5. /\ [kind |-> "start", offset |-> pos, end |-> after] \in Events(N)
        /\ [kind |-> "end", offset |-> pos] \in Events(N)
        /\ [kind |-> "record", offset |-> pos] \in Events(N)
    BY <2>3 DEF Events
  <2>6. /\ <<[kind |-> "start", offset |-> pos, end |-> after]>> \in Seq(Events(N))
        /\ <<[kind |-> "end", offset |-> pos]>> \in Seq(Events(N))
        /\ <<[kind |-> "record", offset |-> pos]>> \in Seq(Events(N))
    BY <2>5
  <2> QED
    BY <2>4, <2>6 DEF OfGroup, OfRecord
<1> HIDE DEF after
<1>3. \/ Descent(file, f, pos, end) \in {<<>>, <<Bail>>}
      \/ pos < end /\ after <= end /\ Descent(file, f, pos, end) = OfGroup(f, pos, after, end)
      \/ pos < end /\ after <= end /\ Descent(file, f, pos, end) = OfRecord(f, pos, after, end)
  BY DescentIs DEF after
<1> QED
  BY <1>1, <1>2, <1>3

\* The descent at a position looks only further on.
LEMMA DescentLocal ==
    ASSUME NEW file \in Files, NEW N, N = Len(file) + 1, NEW pos \in 1 .. N, NEW end \in 1 .. N,
           NEW f, NEW g, \A q \in pos + 1 .. N : f[q] = g[q]
    PROVE  Descent(file, f, pos, end) = Descent(file, g, pos, end)
<1> DEFINE after == CellEnd(file, pos)
<1>0. Len(file) \in Nat /\ N \in Nat /\ pos \in Nat /\ end \in Nat
  BY DEF Files
<1>1. CASE pos >= end
  BY <1>1 DEF Descent
<1>2. CASE pos < end /\ after > end
  <2>1. ~(pos >= end)
    BY <1>0, <1>2
  <2> QED
    BY <1>2, <2>1, Zenon DEF Descent
<1>3. CASE pos < end /\ after <= end
  <2>1. pos \in 1 .. Len(file)
    BY <1>0, <1>3
  <2>2. after \in Nat /\ after >= pos + 1
    BY <2>1, CellIs
  <2> HIDE DEF after
  <2>3. pos + 1 \in pos + 1 .. N /\ after \in pos + 1 .. N
    BY <1>0, <1>3, <2>2
  <2>4. f[pos + 1] = g[pos + 1] /\ f[after] = g[after]
    BY <2>3
  <2> QED
    BY <2>4, Zenon DEF Descent, after
<1> QED
  <2>1. after \in Nat \/ pos >= end
    <3>1. pos \in 1 .. Len(file) \/ pos >= end
      BY <1>0
    <3> QED
      BY <3>1, CellIs
  <2> HIDE DEF after
  <2> QED
    BY <1>0, <1>1, <1>2, <1>3, <2>1

\* The walk of a file, from every position to every end.
Walks(file, f) ==
    LET N == Len(file) + 1
    IN  f = [pos \in 1 .. N |-> [end \in 1 .. N |-> Descent(file, f, pos, end)]]

\* The walk is a function: each position looks only further on.
LEMMA WalkExists ==
    ASSUME NEW file \in Files
    PROVE  \E f : Walks(file, f)
<1> DEFINE N == Len(file) + 1
           R == [1 .. N -> Seq(Events(N))]
           S == [1 .. N -> R]
           Row(f, pos) == [end \in 1 .. N |-> Descent(file, f, pos, end)]
           a == [pos \in 1 .. N |-> [end \in 1 .. N |-> <<>>]]
           step == [x \in S \X (1 .. N) |-> [x[1] EXCEPT ![N + 1 - x[2]] = Row(x[1], N + 1 - x[2])]]
<1>0. N \in Nat /\ N >= 1 /\ Len(file) \in Nat
  BY DEF Files
<1>1. a \in S
  OBVIOUS
<1>2. ASSUME NEW f \in S, NEW pos \in 1 .. N PROVE Row(f, pos) \in R
  <2>1. \A q \in pos + 1 .. N : \A e \in 1 .. N : f[q][e] \in Seq(Events(N))
    <3> TAKE q \in pos + 1 .. N
    <3>1. q \in 1 .. N
      BY <1>0
    <3>2. f[q] \in R
      BY <3>1
    <3> QED
      BY <3>2
  <2>2. \A end \in 1 .. N : Descent(file, f, pos, end) \in Seq(Events(N))
    BY <2>1, DescentType
  <2> QED
    BY <2>2
<1> HIDE DEF R, Row, a
<1>3. step \in [S \X (1 .. N) -> S]
  <2> SUFFICES ASSUME NEW f \in S, NEW n \in 1 .. N
               PROVE  [f EXCEPT ![N + 1 - n] = Row(f, N + 1 - n)] \in S
    OBVIOUS
  <2>1. N + 1 - n \in 1 .. N
    BY <1>0
  <2>2. Row(f, N + 1 - n) \in R
    BY <1>2, <2>1
  <2> QED
    BY <2>1, <2>2
<1>4. PICK g : Iterates(g, N, S, a, step)
  <2> HIDE DEF S, step
  <2> QED
    BY <1>0, <1>1, <1>3, Iteration
<1>5. /\ g \in [0 .. N -> S]
      /\ \A n \in 1 .. N : g[n] = [g[n - 1] EXCEPT ![N + 1 - n] = Row(g[n - 1], N + 1 - n)]
  <2>1. g \in [0 .. N -> S] /\ \A n \in 1 .. N : g[n] = step[<<g[n - 1], n>>]
    BY <1>4 DEF Iterates
  <2>2. \A n \in 1 .. N : g[n - 1] \in S
    <3> HIDE DEF S, step
    <3>1. \A n \in 1 .. N : n - 1 \in 0 .. N
      BY <1>0
    <3> HIDE DEF N
    <3> QED
      BY <2>1, <3>1
  <2>3. ASSUME NEW n \in 1 .. N
        PROVE  step[<<g[n - 1], n>>] = [g[n - 1] EXCEPT ![N + 1 - n] = Row(g[n - 1], N + 1 - n)]
    <3>1. <<g[n - 1], n>> \in S \X (1 .. N)
      BY <2>2
    <3> HIDE DEF S
    <3> QED
      BY <3>1
  <2> HIDE DEF S, step
  <2> QED
    BY <2>1, <2>3
<1>6. \A pos \in 1 .. N : \A m \in N + 1 - pos .. N : g[m][pos] = g[N + 1 - pos][pos]
  <2> TAKE pos \in 1 .. N
  <2> DEFINE bad == {m \in N + 1 - pos .. N : g[m][pos] # g[N + 1 - pos][pos]}
  <2> SUFFICES ASSUME bad # {} PROVE FALSE
    OBVIOUS
  <2>1. PICK m \in bad : \A n \in bad : m <= n
    <3>1. bad \in SUBSET Nat
      BY <1>0
    <3> HIDE DEF bad
    <3> QED
      BY <3>1, LeastOf
  <2>2. m - 1 \in N + 1 - pos .. N /\ m \in 1 .. N /\ m - 1 \in 0 .. N /\ N + 1 - m # pos /\ ~(m <= m - 1)
    BY <1>0, <2>1
  <2>3. g[m - 1][pos] = g[N + 1 - pos][pos]
    BY <2>1, <2>2
  <2>4. g[m][pos] = g[m - 1][pos]
    <3>1. g[m - 1] \in S /\ g[m] = [g[m - 1] EXCEPT ![N + 1 - m] = Row(g[m - 1], N + 1 - m)]
      BY <1>5, <2>2
    <3> QED
      BY <2>2, <3>1
  <2> QED
    BY <2>1, <2>3, <2>4
<1> DEFINE h == g[N]
<1>7. h \in S
  BY <1>0, <1>5
<1>8. ASSUME NEW pos \in 1 .. N PROVE h[pos] = Row(h, pos)
  <2> DEFINE n == N + 1 - pos
  <2>1. n \in 1 .. N /\ n - 1 \in 0 .. N /\ N \in n .. N /\ N + 1 - n = pos
    BY <1>0
  <2>2. h[pos] = g[n][pos]
    BY <1>6, <2>1
  <2>3. g[n][pos] = Row(g[n - 1], pos)
    <3>1. g[n - 1] \in S /\ g[n] = [g[n - 1] EXCEPT ![N + 1 - n] = Row(g[n - 1], N + 1 - n)]
      BY <1>5, <2>1
    <3> HIDE DEF n
    <3> QED
      BY <2>1, <3>1
  <2>4. \A q \in pos + 1 .. N : g[n - 1][q] = h[q]
    <3> TAKE q \in pos + 1 .. N
    <3>1. q \in 1 .. N /\ n - 1 \in N + 1 - q .. N /\ N \in N + 1 - q .. N
      BY <1>0
    <3> QED
      BY <1>6, <3>1
  <2>5. Row(g[n - 1], pos) = Row(h, pos)
    <3>1. \A end \in 1 .. N : Descent(file, g[n - 1], pos, end) = Descent(file, h, pos, end)
      <4> DEFINE f == g[n - 1]
      <4>1. \A q \in pos + 1 .. N : f[q] = h[q]
        BY <2>4
      <4>2. N = Len(file) + 1
        OBVIOUS
      <4> HIDE DEF f, N, h
      <4>3. \A end \in 1 .. N : Descent(file, f, pos, end) = Descent(file, h, pos, end)
        BY <4>1, <4>2, DescentLocal
      <4> QED
        BY <4>3 DEF f
    <3> QED
      BY <3>1 DEF Row
  <2> QED
    BY <2>2, <2>3, <2>5
<1>9. Walks(file, h)
  <2> HIDE DEF h, N
  <2>1. h = [pos \in 1 .. N |-> Row(h, pos)]
    BY <1>7, <1>8
  <2> QED
    BY <2>1 DEF Walks, Row, N
<1> QED
  BY <1>9

\* The walk from any position yields events of this file.
LEMMA WalkType ==
    ASSUME NEW file \in Files, NEW f, Walks(file, f)
    PROVE  LET N == Len(file) + 1
           IN  \A pos, end \in 1 .. N :
                 f[pos][end] = Descent(file, f, pos, end) /\ f[pos][end] \in Seq(Events(N))
<1> DEFINE N == Len(file) + 1
           E == Events(N)
           From(pos) == \A end \in 1 .. N : f[pos][end] \in Seq(E)
           bad == {n \in 0 .. N - 1 : ~From(N - n)}
<1>0. N \in Nat /\ N >= 1 /\ Len(file) \in Nat
  BY DEF Files
<1>1. \A pos \in 1 .. N : \A end \in 1 .. N : f[pos][end] = Descent(file, f, pos, end)
  <2>1. f = [pos \in 1 .. N |-> [end \in 1 .. N |-> Descent(file, f, pos, end)]]
    BY DEF Walks
  <2> HIDE DEF N
  <2>2. \A pos \in 1 .. N : f[pos] = [end \in 1 .. N |-> Descent(file, f, pos, end)]
    BY <2>1
  <2> QED
    BY <2>2
<1> HIDE DEF E
<1>2. bad = {}
  <2> SUFFICES ASSUME bad # {} PROVE FALSE
    OBVIOUS
  <2>1. PICK n \in bad : \A m \in bad : n <= m
    <3>1. bad \in SUBSET Nat
      BY <1>0
    <3> HIDE DEF bad
    <3> QED
      BY <3>1, LeastOf
  <2>2. n \in 0 .. N - 1 /\ N - n \in 1 .. N /\ ~From(N - n)
    BY <1>0, <2>1
  <2>3. \A q \in N - n + 1 .. N : From(q)
    <3> TAKE q \in N - n + 1 .. N
    <3>1. N - q \in 0 .. N - 1 /\ ~(n <= N - q) /\ N - (N - q) = q
      BY <1>0, <2>2
    <3> QED
      BY <2>1, <3>1
  <2>4. \A end \in 1 .. N : Descent(file, f, N - n, end) \in Seq(E)
    BY <2>2, <2>3, DescentType DEF E
  <2> QED
    BY <1>1, <2>2, <2>4
<1>3. \A pos \in 1 .. N : From(pos)
  <2> TAKE pos \in 1 .. N
  <2>1. N - pos \in 0 .. N - 1 /\ N - (N - pos) = pos
    BY <1>0
  <2> HIDE DEF From
  <2> QED
    BY <1>2, <2>1
<1> QED
  BY <1>1, <1>3 DEF E

-----------------------------------------------------------------------------
(* How groups nest in a walk.                                              *)

Opening(s, i) == i \in DOMAIN s /\ s[i].kind \in {"start", "record"}
Starting(s, i) == i \in DOMAIN s /\ s[i].kind = "start"
Ending(s, i) == i \in DOMAIN s /\ s[i].kind = "end"
Closes(s, i, j) == Starting(s, i) /\ Ending(s, j) /\ i < j /\ s[i].offset = s[j].offset

\* The events of a walk lie between two positions, and its groups in each other.
Placed(file, s, lo, hi) ==
    /\ \A i : Opening(s, i) \/ Ending(s, i) => s[i].offset \in Nat /\ lo <= s[i].offset /\ s[i].offset < hi
    /\ \A i : Starting(s, i) => s[i].end \in Nat /\ s[i].offset < s[i].end /\ s[i].end <= hi
    /\ \A i \in DOMAIN s : s[i].kind = "record" => file[s[i].offset] \in Records
    /\ \A i, j : Opening(s, i) /\ Opening(s, j) /\ i < j => s[i].offset < s[j].offset

Matched(s) ==
    /\ \A i : Starting(s, i) => \E j : Closes(s, i, j)
    /\ \A j : Ending(s, j) => \E i : Closes(s, i, j)
    /\ \A i, j : Ending(s, i) /\ Ending(s, j) /\ s[i].offset = s[j].offset => i = j

Bounded(s) ==
    /\ \A i, j, k : Closes(s, i, j) /\ Opening(s, k) /\ i < k /\ k < j => s[k].offset < s[i].end
    /\ \A i, j, k : Closes(s, i, j) /\ Opening(s, k) /\ j < k => s[i].end <= s[k].offset
    /\ \A i, j, k, l : Closes(s, i, j) /\ Closes(s, k, l) /\ i < k /\ k < j => l < j

Nests(file, s, lo, hi) == Placed(file, s, lo, hi) /\ Matched(s) /\ Bounded(s)

\* Two nestings, one where the other ends, are a nesting.
LEMMA NestsOn ==
    ASSUME NEW file, NEW T, NEW s \in Seq(T), NEW t \in Seq(T), NEW a \in Nat, NEW b \in Nat, NEW c \in Nat,
           a <= b, b <= c, Nests(file, s, a, b), Nests(file, t, b, c)
    PROVE  s \o t \in Seq(T) /\ Nests(file, s \o t, a, c)
<1> DEFINE u == s \o t
           m == Len(s)
           n == Len(t)
           Left(i) == i \in 1 .. m
           Right(i) == i \in m + 1 .. m + n
<1>1. /\ m \in Nat /\ n \in Nat /\ DOMAIN u = 1 .. m + n /\ DOMAIN s = 1 .. m /\ DOMAIN t = 1 .. n
      /\ \A i \in 1 .. m : u[i] = s[i]
      /\ \A i \in m + 1 .. m + n : u[i] = t[i - m]
  OBVIOUS
<1>0. u \in Seq(T)
  OBVIOUS
<1> HIDE DEF u, m, n
<1>2. \A i : /\ Left(i) => i \in DOMAIN s /\ i \in DOMAIN u /\ u[i] = s[i]
             /\ Right(i) => i - m \in DOMAIN t /\ i \in DOMAIN u /\ u[i] = t[i - m]
             /\ i \in DOMAIN u => Left(i) \/ Right(i)
  BY <1>1
<1>3. \A i, j : /\ i \in DOMAIN u /\ j \in DOMAIN u => i \in Nat /\ j \in Nat
                /\ Left(i) /\ Right(j) => i < j /\ ~(j < i)
                /\ Right(i) /\ Right(j) => (i < j <=> i - m < j - m) /\ (i = j <=> i - m = j - m)
  BY <1>1
<1>4. \A i : /\ Left(i) => (Opening(u, i) <=> Opening(s, i)) /\ (Starting(u, i) <=> Starting(s, i)) /\ (Ending(u, i) <=> Ending(s, i))
             /\ Right(i) => (Opening(u, i) <=> Opening(t, i - m)) /\ (Starting(u, i) <=> Starting(t, i - m)) /\ (Ending(u, i) <=> Ending(t, i - m))
  BY <1>2 DEF Opening, Starting, Ending
<1>5. \A i : Opening(u, i) \/ Ending(u, i) \/ Starting(u, i) => Left(i) \/ Right(i)
  BY <1>2 DEF Opening, Starting, Ending
<1>6. \A i : Starting(u, i) => Opening(u, i)
  BY DEF Opening, Starting
<1> HIDE DEF Left, Right
<1>7. \A i : Opening(u, i) \/ Ending(u, i) =>
        /\ u[i].offset \in Nat /\ a <= u[i].offset /\ u[i].offset < c
        /\ Left(i) => u[i].offset < b
        /\ Right(i) => b <= u[i].offset
  <2> SUFFICES ASSUME NEW i, Opening(u, i) \/ Ending(u, i)
               PROVE  /\ u[i].offset \in Nat /\ a <= u[i].offset /\ u[i].offset < c
                      /\ Left(i) => u[i].offset < b
                      /\ Right(i) => b <= u[i].offset
    OBVIOUS
  <2>1. CASE Left(i)
    <3>1. s[i].offset \in Nat /\ a <= s[i].offset /\ s[i].offset < b /\ u[i] = s[i]
      BY <1>2, <1>4, <2>1 DEF Nests, Placed
    <3>2. ~Right(i)
      BY <1>1, <2>1 DEF Left, Right
    <3> QED
      BY <3>1, <3>2
  <2>2. CASE Right(i)
    <3>1. t[i - m].offset \in Nat /\ b <= t[i - m].offset /\ t[i - m].offset < c /\ u[i] = t[i - m]
      BY <1>2, <1>4, <2>2 DEF Nests, Placed
    <3>2. ~Left(i)
      BY <1>1, <2>2 DEF Left, Right
    <3> QED
      BY <3>1, <3>2
  <2> QED
    BY <1>5, <2>1, <2>2
<1>8. \A i : Starting(u, i) =>
        /\ u[i].end \in Nat /\ u[i].offset < u[i].end /\ u[i].end <= c
        /\ Left(i) => u[i].end <= b
  <2> SUFFICES ASSUME NEW i, Starting(u, i)
               PROVE  /\ u[i].end \in Nat /\ u[i].offset < u[i].end /\ u[i].end <= c
                      /\ Left(i) => u[i].end <= b
    OBVIOUS
  <2>1. CASE Left(i)
    <3>1. s[i].end \in Nat /\ s[i].offset < s[i].end /\ s[i].end <= b /\ u[i] = s[i]
      BY <1>2, <1>4, <2>1 DEF Nests, Placed
    <3> QED
      BY <3>1
  <2>2. CASE Right(i)
    <3>1. t[i - m].end \in Nat /\ t[i - m].offset < t[i - m].end /\ t[i - m].end <= c /\ u[i] = t[i - m]
      BY <1>2, <1>4, <2>2 DEF Nests, Placed
    <3>2. ~Left(i)
      BY <1>1, <2>2 DEF Left, Right
    <3> QED
      BY <3>1, <3>2
  <2> QED
    BY <1>5, <2>1, <2>2
<1>9. \A i, j : Opening(u, i) /\ Opening(u, j) /\ i < j => u[i].offset < u[j].offset
  <2> SUFFICES ASSUME NEW i, NEW j, Opening(u, i), Opening(u, j), i < j
               PROVE  u[i].offset < u[j].offset
    OBVIOUS
  <2>0. i \in DOMAIN u /\ j \in DOMAIN u
    BY DEF Opening
  <2>1. CASE Left(i) /\ Left(j)
    <3>1. s[i].offset < s[j].offset /\ u[i] = s[i] /\ u[j] = s[j]
      BY <1>2, <1>4, <2>1 DEF Nests, Placed
    <3> QED
      BY <3>1
  <2>2. CASE Right(i) /\ Right(j)
    <3>1. i - m < j - m
      BY <1>3, <2>2
    <3>2. t[i - m].offset < t[j - m].offset /\ u[i] = t[i - m] /\ u[j] = t[j - m]
      BY <1>2, <1>4, <2>2, <3>1 DEF Nests, Placed
    <3> QED
      BY <3>2
  <2>3. CASE Left(i) /\ Right(j)
    BY <1>7, <2>3
  <2>4. ~(Right(i) /\ Left(j))
    BY <1>3
  <2> QED
    BY <1>5, <2>1, <2>2, <2>3, <2>4
<1>10. \A i, j : Closes(u, i, j) <=> \/ Left(i) /\ Left(j) /\ Closes(s, i, j)
                                     \/ Right(i) /\ Right(j) /\ Closes(t, i - m, j - m)
  <2> SUFFICES ASSUME NEW i, NEW j
               PROVE  Closes(u, i, j) <=> \/ Left(i) /\ Left(j) /\ Closes(s, i, j)
                                          \/ Right(i) /\ Right(j) /\ Closes(t, i - m, j - m)
    OBVIOUS
  <2>1. Left(i) /\ Left(j) => (Closes(u, i, j) <=> Closes(s, i, j))
    BY <1>2, <1>4 DEF Closes
  <2>2. Right(i) /\ Right(j) => (Closes(u, i, j) <=> Closes(t, i - m, j - m))
    BY <1>2, <1>3, <1>4 DEF Closes
  <2>3. Closes(u, i, j) => (Left(i) \/ Right(i)) /\ (Left(j) \/ Right(j))
    BY <1>5 DEF Closes
  <2>4. ~(Closes(u, i, j) /\ Left(i) /\ Right(j))
    <3>1. Closes(u, i, j) => u[i].offset = u[j].offset /\ Opening(u, i) /\ Ending(u, j)
      BY <1>6 DEF Closes
    <3> QED
      BY <1>7, <3>1
  <2>5. ~(Closes(u, i, j) /\ Right(i) /\ Left(j))
    BY <1>3 DEF Closes
  <2> QED
    BY <2>1, <2>2, <2>3, <2>4, <2>5
<1>11. Placed(file, u, a, c)
  <2>1. ASSUME NEW i \in DOMAIN u, u[i].kind = "record" PROVE file[u[i].offset] \in Records
    <3>1. CASE Left(i)
      BY <1>2, <2>1, <3>1 DEF Nests, Placed
    <3>2. CASE Right(i)
      BY <1>2, <2>1, <3>2 DEF Nests, Placed
    <3> QED
      BY <1>2, <3>1, <3>2
  <2> QED
    BY <1>7, <1>8, <1>9, <2>1 DEF Placed
<1>12. Matched(u)
  <2>1. ASSUME NEW i, Starting(u, i) PROVE \E j : Closes(u, i, j)
    <3>1. CASE Left(i)
      <4>1. PICK j : Closes(s, i, j)
        BY <1>4, <2>1, <3>1 DEF Nests, Matched
      <4>2. Left(j)
        BY <1>1, <4>1 DEF Closes, Ending, Left
      <4> QED
        BY <1>10, <3>1, <4>1, <4>2
    <3>2. CASE Right(i)
      <4>1. PICK j : Closes(t, i - m, j)
        BY <1>4, <2>1, <3>2 DEF Nests, Matched
      <4>2. Right(j + m) /\ (j + m) - m = j
        BY <1>1, <4>1 DEF Closes, Ending, Right
      <4> QED
        BY <1>10, <3>2, <4>1, <4>2
    <3> QED
      BY <1>5, <2>1, <3>1, <3>2
  <2>2. ASSUME NEW j, Ending(u, j) PROVE \E i : Closes(u, i, j)
    <3>1. CASE Left(j)
      <4>1. PICK i : Closes(s, i, j)
        BY <1>4, <2>2, <3>1 DEF Nests, Matched
      <4>2. Left(i)
        BY <1>1, <4>1 DEF Closes, Starting, Left
      <4> QED
        BY <1>10, <3>1, <4>1, <4>2
    <3>2. CASE Right(j)
      <4>1. PICK i : Closes(t, i, j - m)
        BY <1>4, <2>2, <3>2 DEF Nests, Matched
      <4>2. Right(i + m) /\ (i + m) - m = i
        BY <1>1, <4>1 DEF Closes, Starting, Right
      <4> QED
        BY <1>10, <3>2, <4>1, <4>2
    <3> QED
      BY <1>5, <2>2, <3>1, <3>2
  <2>3. ASSUME NEW i, NEW j, Ending(u, i), Ending(u, j), u[i].offset = u[j].offset PROVE i = j
    <3>1. CASE Left(i) /\ Left(j)
      BY <1>2, <1>4, <2>3, <3>1 DEF Nests, Matched
    <3>2. CASE Right(i) /\ Right(j)
      <4>1. i - m = j - m
        BY <1>2, <1>4, <2>3, <3>2 DEF Nests, Matched
      <4> QED
        BY <1>3, <3>2, <4>1
    <3>3. ~(Left(i) /\ Right(j)) /\ ~(Right(i) /\ Left(j))
      BY <1>7, <2>3
    <3> QED
      BY <1>5, <2>3, <3>1, <3>2, <3>3
  <2> QED
    BY <2>1, <2>2, <2>3 DEF Matched
<1>13. Bounded(u)
  <2>1. ASSUME NEW i, NEW j, NEW k, Closes(u, i, j), Opening(u, k), i < k, k < j
        PROVE  u[k].offset < u[i].end
    <3>0. i \in DOMAIN u /\ j \in DOMAIN u /\ k \in DOMAIN u
      BY <2>1 DEF Opening, Closes, Starting, Ending
    <3>1. CASE Left(i) /\ Left(j) /\ Closes(s, i, j)
      <4>1. Left(k)
        BY <1>1, <2>1, <3>0, <3>1 DEF Left
      <4> QED
        BY <1>2, <1>4, <2>1, <3>1, <4>1 DEF Nests, Bounded
    <3>2. CASE Right(i) /\ Right(j) /\ Closes(t, i - m, j - m)
      <4>1. Right(k)
        BY <1>1, <2>1, <3>0, <3>2 DEF Right
      <4>2. i - m < k - m /\ k - m < j - m
        BY <1>3, <2>1, <3>2, <4>1
      <4> QED
        BY <1>2, <1>4, <2>1, <3>2, <4>1, <4>2 DEF Nests, Bounded
    <3> QED
      BY <1>10, <2>1, <3>1, <3>2
  <2>2. ASSUME NEW i, NEW j, NEW k, Closes(u, i, j), Opening(u, k), j < k
        PROVE  u[i].end <= u[k].offset
    <3>0. i \in DOMAIN u /\ j \in DOMAIN u /\ k \in DOMAIN u
      BY <2>2 DEF Opening, Closes, Starting, Ending
    <3>1. CASE Left(i) /\ Left(j) /\ Closes(s, i, j) /\ Left(k)
      BY <1>2, <1>4, <2>2, <3>1 DEF Nests, Bounded
    <3>2. CASE Left(i) /\ Left(j) /\ Closes(s, i, j) /\ Right(k)
      <4>1. u[i].end \in Nat /\ u[i].end <= b /\ b <= u[k].offset /\ u[k].offset \in Nat
        BY <1>7, <1>8, <2>2, <3>2 DEF Closes
      <4> QED
        BY <4>1
    <3>3. CASE Right(i) /\ Right(j) /\ Closes(t, i - m, j - m)
      <4>1. Right(k)
        BY <1>1, <2>2, <3>0, <3>3 DEF Right
      <4>2. j - m < k - m
        BY <1>3, <2>2, <3>3, <4>1
      <4> QED
        BY <1>2, <1>4, <2>2, <3>3, <4>1, <4>2 DEF Nests, Bounded
    <3> QED
      BY <1>5, <1>10, <2>2, <3>1, <3>2, <3>3
  <2>3. ASSUME NEW i, NEW j, NEW k, NEW l, Closes(u, i, j), Closes(u, k, l), i < k, k < j
        PROVE  l < j
    <3>0. i \in DOMAIN u /\ j \in DOMAIN u /\ k \in DOMAIN u /\ l \in DOMAIN u
      BY <2>3 DEF Closes, Starting, Ending
    <3>1. CASE Left(i) /\ Left(j) /\ Closes(s, i, j)
      <4>1. Left(k) /\ ~Right(k)
        BY <1>1, <2>3, <3>0, <3>1 DEF Left, Right
      <4>2. Closes(s, k, l)
        BY <1>10, <2>3, <4>1
      <4> QED
        BY <2>3, <3>1, <4>2 DEF Nests, Bounded
    <3>2. CASE Right(i) /\ Right(j) /\ Closes(t, i - m, j - m)
      <4>1. Right(k) /\ ~Left(k)
        BY <1>1, <2>3, <3>0, <3>2 DEF Left, Right
      <4>2. Closes(t, k - m, l - m) /\ Right(l)
        BY <1>10, <2>3, <4>1
      <4>3. i - m < k - m /\ k - m < j - m
        BY <1>3, <2>3, <3>2, <4>1
      <4>4. l - m < j - m
        BY <3>2, <4>2, <4>3 DEF Nests, Bounded
      <4> QED
        BY <1>3, <3>2, <4>2, <4>4
    <3> QED
      BY <1>10, <2>3, <3>1, <3>2
  <2> QED
    BY <2>1, <2>2, <2>3 DEF Bounded
<1> QED
  BY <1>0, <1>11, <1>12, <1>13 DEF Nests, u

\* A record alone is a nesting, and so is nothing at all, or the end of a walk.
LEMMA NestsOne ==
    ASSUME NEW file, NEW a \in Nat, NEW b \in Nat
    PROVE  /\ Nests(file, <<>>, a, b) /\ Nests(file, <<Bail>>, a, b)
           /\ a < b /\ file[a] \in Records => Nests(file, <<[kind |-> "record", offset |-> a]>>, a, b)
<1>1. Nests(file, <<>>, a, b)
  BY DEF Nests, Placed, Matched, Bounded, Opening, Starting, Ending, Closes
<1>2. Nests(file, <<Bail>>, a, b)
  <2>1. \A i : ~Opening(<<Bail>>, i) /\ ~Starting(<<Bail>>, i) /\ ~Ending(<<Bail>>, i)
    BY DEF Opening, Starting, Ending, Bail
  <2>2. \A i \in DOMAIN <<Bail>> : <<Bail>>[i].kind # "record"
    BY DEF Bail
  <2> QED
    BY <2>1, <2>2 DEF Nests, Placed, Matched, Bounded, Closes
<1>3. ASSUME a < b, file[a] \in Records PROVE Nests(file, <<[kind |-> "record", offset |-> a]>>, a, b)
  <2> DEFINE u == <<[kind |-> "record", offset |-> a]>>
  <2>1. /\ u[1].offset = a
        /\ \A i : (Opening(u, i) => i = 1) /\ ~Starting(u, i) /\ ~Ending(u, i)
        /\ \A i \in DOMAIN u : i = 1
    BY DEF Opening, Starting, Ending
  <2> HIDE DEF u
  <2>2. Nests(file, u, a, b)
    BY <1>3, <2>1 DEF Nests, Placed, Matched, Bounded, Closes
  <2> QED
    BY <2>2 DEF u
<1> QED
  BY <1>1, <1>2, <1>3

\* A group around a nesting is one.
LEMMA NestsIn ==
    ASSUME NEW file, NEW T, NEW s \in Seq(T), NEW a \in Nat, NEW b \in Nat, a < b, Nests(file, s, a + 1, b),
           NEW first \in T, first.kind = "start", first.offset = a, first.end = b,
           NEW last \in T, last.kind = "end", last.offset = a
    PROVE  /\ <<first>> \o s \o <<last>> \in Seq(T)
           /\ Nests(file, <<first>> \o s \o <<last>>, a, b)
<1> DEFINE u == <<first>> \o s \o <<last>>
           n == Len(s)
           In(i) == i \in 2 .. n + 1
<1>0. u \in Seq(T)
  OBVIOUS
<1>1. /\ n \in Nat /\ DOMAIN u = 1 .. n + 2 /\ DOMAIN s = 1 .. n
      /\ u[1] = first /\ u[n + 2] = last
      /\ \A i \in 2 .. n + 1 : u[i] = s[i - 1]
  <2> DEFINE v == <<first>> \o s
  <2>1. /\ v \in Seq(T) /\ Len(v) = n + 1 /\ v[1] = first /\ \A i \in 2 .. n + 1 : v[i] = s[i - 1]
    OBVIOUS
  <2>2. u = v \o <<last>> /\ n \in Nat /\ DOMAIN s = 1 .. n
    OBVIOUS
  <2> HIDE DEF v, u, n
  <2>3. DOMAIN u = 1 .. n + 2 /\ u[n + 2] = last /\ \A i \in 1 .. n + 1 : u[i] = v[i]
    BY <2>1, <2>2
  <2> QED
    BY <2>1, <2>2, <2>3
<1> HIDE DEF u, n
<1>2. \A i : /\ In(i) => i - 1 \in DOMAIN s /\ i \in DOMAIN u /\ u[i] = s[i - 1]
             /\ i \in DOMAIN u => i = 1 \/ In(i) \/ i = n + 2
             /\ i \in DOMAIN u => i \in Nat
  <2> TAKE i
  <2>1. In(i) => i - 1 \in DOMAIN s /\ i \in DOMAIN u /\ u[i] = s[i - 1]
    BY <1>1
  <2>2. i \in DOMAIN u => i = 1 \/ In(i) \/ i = n + 2
    BY <1>1
  <2>3. i \in DOMAIN u => i \in Nat
    BY <1>1
  <2> QED
    BY <2>1, <2>2, <2>3
<1>3. \A i, j : /\ In(i) => 1 < i /\ i < n + 2 /\ ~(i < 1) /\ ~(n + 2 < i)
                /\ In(i) /\ In(j) => (i < j <=> i - 1 < j - 1) /\ (i = j <=> i - 1 = j - 1)
  <2> TAKE i, j
  <2>1. In(i) => 1 < i /\ i < n + 2 /\ ~(i < 1) /\ ~(n + 2 < i)
    BY <1>1
  <2>2. In(i) /\ In(j) => (i < j <=> i - 1 < j - 1) /\ (i = j <=> i - 1 = j - 1)
    BY <1>1
  <2> QED
    BY <2>1, <2>2
<1>4. \A i : In(i) => /\ Opening(u, i) <=> Opening(s, i - 1)
                      /\ Starting(u, i) <=> Starting(s, i - 1)
                      /\ Ending(u, i) <=> Ending(s, i - 1)
  BY <1>2 DEF Opening, Starting, Ending
<1>5. Starting(u, 1) /\ Opening(u, 1) /\ Ending(u, n + 2) /\ 1 < n + 2
  BY <1>1 DEF Opening, Starting, Ending
<1>6. \A i : /\ Opening(u, i) => i = 1 \/ In(i)
             /\ Starting(u, i) => Opening(u, i)
             /\ Ending(u, i) => i = n + 2 \/ In(i)
  BY <1>1, <1>2 DEF Opening, Starting, Ending
<1>7. u[1].offset = a /\ u[1].end = b /\ u[n + 2].offset = a
  BY <1>1
<1>8. \A i : In(i) /\ (Opening(u, i) \/ Ending(u, i)) =>
        u[i].offset \in Nat /\ a + 1 <= u[i].offset /\ u[i].offset < b
  <2> TAKE i
  <2> HAVE In(i) /\ (Opening(u, i) \/ Ending(u, i))
  <2>1. u[i] = s[i - 1] /\ (Opening(s, i - 1) \/ Ending(s, i - 1))
    BY <1>2, <1>4
  <2> QED
    BY <2>1 DEF Nests, Placed
<1> HIDE DEF In
<1>9. \A i : Starting(u, i) => u[i].end \in Nat /\ u[i].offset < u[i].end /\ u[i].end <= b
  <2> TAKE i
  <2> HAVE Starting(u, i)
  <2>1. CASE In(i)
    <3>1. u[i] = s[i - 1] /\ Starting(s, i - 1)
      BY <1>2, <1>4, <2>1
    <3> QED
      BY <3>1 DEF Nests, Placed
  <2> QED
    BY <1>6, <1>7, <2>1
<1>10. \A i, j : Opening(u, i) /\ Opening(u, j) /\ i < j => u[i].offset < u[j].offset
  <2> SUFFICES ASSUME NEW i, NEW j, Opening(u, i), Opening(u, j), i < j
               PROVE  u[i].offset < u[j].offset
    OBVIOUS
  <2>1. CASE In(i) /\ In(j)
    <3>1. u[i] = s[i - 1] /\ Opening(s, i - 1) /\ u[j] = s[j - 1] /\ Opening(s, j - 1) /\ i - 1 < j - 1
      BY <1>2, <1>3, <1>4, <2>1
    <3> QED
      BY <3>1 DEF Nests, Placed
  <2>2. CASE i = 1 /\ In(j)
    BY <1>7, <1>8, <2>2
  <2>3. ~(j = 1 /\ In(i)) /\ ~(i = 1 /\ j = 1)
    <3>1. In(i) => ~(i < 1)
      BY <1>3
    <3> QED
      BY <3>1
  <2> QED
    BY <1>6, <2>1, <2>2, <2>3
<1>11. \A i, j : Closes(u, i, j) <=> \/ i = 1 /\ j = n + 2
                                     \/ In(i) /\ In(j) /\ Closes(s, i - 1, j - 1)
  <2> SUFFICES ASSUME NEW i, NEW j
               PROVE  Closes(u, i, j) <=> \/ i = 1 /\ j = n + 2
                                          \/ In(i) /\ In(j) /\ Closes(s, i - 1, j - 1)
    OBVIOUS
  <2>1. In(i) /\ In(j) => (Closes(u, i, j) <=> Closes(s, i - 1, j - 1))
    BY <1>2, <1>3, <1>4 DEF Closes
  <2>2. Closes(u, 1, n + 2)
    BY <1>5, <1>7 DEF Closes
  <2>3. Closes(u, i, j) => (i = 1 \/ In(i)) /\ (j = n + 2 \/ In(j))
    BY <1>6 DEF Closes
  <2>4. ~(Closes(u, i, j) /\ i = 1 /\ In(j))
    <3>1. Closes(u, i, j) => u[i].offset = u[j].offset /\ Ending(u, j)
      BY DEF Closes
    <3> QED
      BY <1>7, <1>8, <3>1
  <2>5. ~(Closes(u, i, j) /\ In(i) /\ j = n + 2)
    <3>1. Closes(u, i, j) => u[i].offset = u[j].offset /\ Opening(u, i)
      BY <1>6 DEF Closes
    <3> QED
      BY <1>7, <1>8, <3>1
  <2> QED
    BY <2>1, <2>2, <2>3, <2>4, <2>5
<1>12. Placed(file, u, a, b)
  <2>1. \A i : Opening(u, i) \/ Ending(u, i) => u[i].offset \in Nat /\ a <= u[i].offset /\ u[i].offset < b
    BY <1>6, <1>7, <1>8
  <2>2. ASSUME NEW i \in DOMAIN u, u[i].kind = "record" PROVE file[u[i].offset] \in Records
    <3>1. i # 1 /\ i # n + 2
      BY <1>1, <2>2
    <3>2. i - 1 \in DOMAIN s /\ u[i] = s[i - 1]
      BY <1>2, <3>1
    <3> QED
      BY <2>2, <3>2 DEF Nests, Placed
  <2> QED
    BY <1>9, <1>10, <2>1, <2>2 DEF Placed
<1>13. Matched(u)
  <2>1. ASSUME NEW i, Starting(u, i) PROVE \E j : Closes(u, i, j)
    <3>1. CASE In(i)
      <4>1. PICK j : Closes(s, i - 1, j)
        BY <1>4, <2>1, <3>1 DEF Nests, Matched
      <4>2. In(j + 1) /\ (j + 1) - 1 = j
        BY <1>1, <4>1 DEF Closes, Ending, In
      <4> QED
        BY <1>11, <3>1, <4>1, <4>2
    <3> QED
      BY <1>6, <1>11, <2>1, <3>1
  <2>2. ASSUME NEW j, Ending(u, j) PROVE \E i : Closes(u, i, j)
    <3>1. CASE In(j)
      <4>1. PICK i : Closes(s, i, j - 1)
        BY <1>4, <2>2, <3>1 DEF Nests, Matched
      <4>2. In(i + 1) /\ (i + 1) - 1 = i
        BY <1>1, <4>1 DEF Closes, Starting, In
      <4> QED
        BY <1>11, <3>1, <4>1, <4>2
    <3> QED
      BY <1>6, <1>11, <2>2, <3>1
  <2>3. ASSUME NEW i, NEW j, Ending(u, i), Ending(u, j), u[i].offset = u[j].offset PROVE i = j
    <3>1. CASE In(i) /\ In(j)
      <4>1. i - 1 = j - 1
        BY <1>2, <1>4, <2>3, <3>1 DEF Nests, Matched
      <4> QED
        BY <1>3, <3>1, <4>1
    <3>2. ~(In(i) /\ j = n + 2) /\ ~(i = n + 2 /\ In(j))
      BY <1>7, <1>8, <2>3
    <3> QED
      BY <1>6, <2>3, <3>1, <3>2
  <2> QED
    BY <2>1, <2>2, <2>3 DEF Matched
<1>14. Bounded(u)
  <2>1. ASSUME NEW i, NEW j, NEW k, Closes(u, i, j), Opening(u, k), i < k, k < j
        PROVE  u[k].offset < u[i].end
    <3>0. i \in DOMAIN u /\ j \in DOMAIN u /\ k \in DOMAIN u
      BY <2>1 DEF Opening, Closes, Starting, Ending
    <3>1. CASE i = 1
      <4>1. In(k)
        BY <1>6, <2>1, <3>1, <1>1
      <4> QED
        BY <1>7, <1>8, <2>1, <3>1, <4>1
    <3>2. CASE In(i) /\ In(j) /\ Closes(s, i - 1, j - 1)
      <4>1. In(k)
        BY <1>1, <2>1, <3>0, <3>2 DEF In
      <4>2. i - 1 < k - 1 /\ k - 1 < j - 1
        BY <1>3, <2>1, <3>2, <4>1
      <4> QED
        BY <1>2, <1>4, <2>1, <3>2, <4>1, <4>2 DEF Nests, Bounded
    <3> QED
      BY <1>11, <2>1, <3>1, <3>2
  <2>2. ASSUME NEW i, NEW j, NEW k, Closes(u, i, j), Opening(u, k), j < k
        PROVE  u[i].end <= u[k].offset
    <3>0. i \in DOMAIN u /\ j \in DOMAIN u /\ k \in DOMAIN u
      BY <2>2 DEF Opening, Closes, Starting, Ending
    <3>1. j # n + 2
      BY <1>1, <2>2, <3>0
    <3>3. In(i) /\ In(j) /\ Closes(s, i - 1, j - 1)
      BY <1>11, <2>2, <3>1
    <3>4. In(k)
      <4>1. k # 1
        BY <1>1, <2>2, <3>0
      <4> QED
        BY <1>6, <2>2, <4>1
    <3>5. j - 1 < k - 1
      BY <1>3, <2>2, <3>3, <3>4
    <3> QED
      BY <1>2, <1>4, <2>2, <3>3, <3>4, <3>5 DEF Nests, Bounded
  <2>3. ASSUME NEW i, NEW j, NEW k, NEW l, Closes(u, i, j), Closes(u, k, l), i < k, k < j
        PROVE  l < j
    <3>0. i \in DOMAIN u /\ j \in DOMAIN u /\ k \in DOMAIN u /\ l \in DOMAIN u
      BY <2>3 DEF Closes, Starting, Ending
    <3>1. k # 1
      BY <1>1, <2>3, <3>0
    <3>2. In(k) /\ In(l) /\ Closes(s, k - 1, l - 1)
      BY <1>11, <2>3, <3>1
    <3>3. CASE j = n + 2
      BY <1>3, <3>2, <3>3 DEF In
    <3>4. CASE In(i) /\ In(j) /\ Closes(s, i - 1, j - 1)
      <4>1. i - 1 < k - 1 /\ k - 1 < j - 1
        BY <1>3, <2>3, <3>2, <3>4
      <4>2. l - 1 < j - 1
        BY <3>2, <3>4, <4>1 DEF Nests, Bounded
      <4> QED
        BY <1>3, <3>2, <3>4, <4>2
    <3> QED
      BY <1>11, <2>3, <3>3, <3>4
  <2> QED
    BY <2>1, <2>2, <2>3 DEF Bounded
<1> QED
  BY <1>0, <1>12, <1>13, <1>14 DEF Nests, u
\* The walk from any position to any end is a nesting: it meets no position twice.
LEMMA WalkNests ==
    ASSUME NEW file \in Files, NEW f, Walks(file, f)
    PROVE  \A pos, end \in 1 .. Len(file) + 1 :
             f[pos][end] \in Seq(Events(Len(file) + 1)) /\ Nests(file, f[pos][end], pos, end)
<1> DEFINE N == Len(file) + 1
           E == Events(N)
           From(pos) == \A end \in 1 .. N : Nests(file, f[pos][end], pos, end)
           bad == {n \in 0 .. N - 1 : ~From(N - n)}
<1>0. N \in Nat /\ N >= 1 /\ Len(file) \in Nat
  BY DEF Files
<1>1. \A pos \in 1 .. N : \A end \in 1 .. N : f[pos][end] \in Seq(E) /\ f[pos][end] = Descent(file, f, pos, end)
  BY WalkType
<1> HIDE DEF E
<1>2. ASSUME NEW pos \in 1 .. N, \A q \in pos + 1 .. N : From(q)
      PROVE  From(pos)
  <2> TAKE end \in 1 .. N
  <2> DEFINE after == CellEnd(file, pos)
             found == <<[kind |-> "record", offset |-> pos]>>
             inner == f[pos + 1][after]
             rest == f[after][end]
  <2>1. CASE f[pos][end] \in {<<>>, <<Bail>>}
    <3>1. pos \in Nat /\ end \in Nat
      BY <1>0
    <3>2. Nests(file, <<>>, pos, end) /\ Nests(file, <<Bail>>, pos, end)
      BY <3>1, NestsOne
    <3> QED
      BY <2>1, <3>2
  <2>2. ASSUME pos < end, after <= end
        PROVE  /\ pos \in Nat /\ end \in Nat /\ pos \in 1 .. Len(file) /\ after \in Nat /\ after >= pos + 1
               /\ inner \in Seq(E) /\ rest \in Seq(E)
               /\ Nests(file, inner, pos + 1, after) /\ Nests(file, rest, after, end)
               /\ after \in 1 .. N
    <3>1. pos \in 1 .. Len(file) /\ pos \in Nat /\ end \in Nat
      BY <1>0, <2>2
    <3>2. after \in Nat /\ after >= pos + 1
      BY <3>1, CellIs
    <3> HIDE DEF after
    <3>3. pos + 1 \in pos + 1 .. N /\ after \in pos + 1 .. N /\ after \in 1 .. N /\ pos + 1 \in 1 .. N
      BY <1>0, <2>2, <3>1, <3>2
    <3>4. From(pos + 1) /\ From(after)
      BY <1>2, <3>3
    <3> QED
      BY <1>1, <3>1, <3>2, <3>3, <3>4
  <2>3. CASE pos < end /\ after <= end /\ IsGroup(file, pos) /\ f[pos][end] = OfGroup(f, pos, after, end)
    <3> DEFINE first == [kind |-> "start", offset |-> pos, end |-> after]
               last == [kind |-> "end", offset |-> pos]
    <3>1. first \in E /\ last \in E
      BY <2>2, <2>3 DEF E, Events
    <3>2. /\ first.kind = "start" /\ first.offset = pos /\ first.end = after
          /\ last.kind = "end" /\ last.offset = pos
      OBVIOUS
    <3>3. f[pos][end] = <<first>> \o inner \o <<last>> \o rest
      BY <2>3, Zenon DEF OfGroup, inner, rest
    <3> HIDE DEF first, last, inner, rest, after
    <3> DEFINE closed == <<first>> \o inner \o <<last>>
    <3>4. closed \in Seq(E) /\ Nests(file, closed, pos, after)
      BY <2>2, <2>3, <3>1, <3>2, NestsIn
    <3> HIDE DEF closed
    <3>5. Nests(file, closed \o rest, pos, end)
      BY <2>2, <2>3, <3>4, NestsOn
    <3> QED
      BY <3>3, <3>5 DEF closed
  <2>4. CASE pos < end /\ after <= end /\ ~IsGroup(file, pos) /\ f[pos][end] = OfRecord(f, pos, after, end)
    <3>1. found \in Seq(E)
      <4>1. [kind |-> "record", offset |-> pos] \in E
        BY <2>2, <2>4 DEF E, Events
      <4> QED
        BY <4>1
    <3>2. file[pos] \in Records
      BY <2>2, <2>4, CellIs
    <3>4. Nests(file, found, pos, after)
      BY <2>2, <2>4, <3>2, NestsOne
    <3> HIDE DEF after, found, rest
    <3>5. Nests(file, found \o rest, pos, end)
      BY <2>2, <2>4, <3>1, <3>4, NestsOn
    <3> QED
      BY <2>4, <3>5 DEF OfRecord, found, rest
  <2>5. pos \in 1 .. Len(file) + 1 /\ end \in 1 .. Len(file) + 1 /\ f[pos][end] = Descent(file, f, pos, end)
    BY <1>1
  <2> HIDE DEF found, inner, rest
  <2> QED
    BY <2>1, <2>3, <2>4, <2>5, DescentIs
<1>3. bad = {}
  <2> SUFFICES ASSUME bad # {} PROVE FALSE
    OBVIOUS
  <2>1. PICK n \in bad : \A m \in bad : n <= m
    <3>1. bad \in SUBSET Nat
      BY <1>0
    <3> HIDE DEF bad
    <3> QED
      BY <3>1, LeastOf
  <2>2. n \in 0 .. N - 1 /\ N - n \in 1 .. N /\ ~From(N - n)
    BY <1>0, <2>1
  <2>3. \A q \in N - n + 1 .. N : From(q)
    <3> TAKE q \in N - n + 1 .. N
    <3>1. N - q \in 0 .. N - 1 /\ ~(n <= N - q) /\ N - (N - q) = q
      BY <1>0, <2>2
    <3> QED
      BY <2>1, <3>1
  <2> HIDE DEF From
  <2> QED
    BY <1>2, <2>2, <2>3
<1>4. \A pos \in 1 .. N : From(pos)
  <2> TAKE pos \in 1 .. N
  <2>1. N - pos \in 0 .. N - 1 /\ N - (N - pos) = pos
    BY <1>0
  <2> HIDE DEF From
  <2> QED
    BY <1>3, <2>1
<1> QED
  BY <1>1, <1>4 DEF E

\* The walk of a file is a nesting of events of this file.
LEMMA WalkIs ==
    ASSUME NEW file \in Files
    PROVE  LET N == Len(file) + 1
               walk == WalkStructure(file)
           IN  walk \in Seq(Events(N)) /\ \E lo, hi \in Nat : Nests(file, walk, lo, hi)
<1> DEFINE N == Len(file) + 1
           walk == WalkStructure(file)
           f == CHOOSE g : Walks(file, g)
<1>1. Walks(file, f)
  BY WalkExists
<1>2. walk = IF BodyStart(file) >= N THEN <<>> ELSE f[BodyStart(file)][N]
  BY Zenon DEF WalkStructure, Walks
<1> HIDE DEF f, walk
<1>3. N \in 1 .. N /\ N \in Nat
  BY DEF Files
<1>4. BodyStart(file) \in Nat /\ BodyStart(file) >= 1
  <2>1. file[1].size \in Nat
    BY DEF Files, Records
  <2> QED
    BY <2>1 DEF BodyStart
<1> DEFINE Is == walk \in Seq(Events(N)) /\ \E lo, hi \in Nat : Nests(file, walk, lo, hi)
<1>5. ASSUME BodyStart(file) >= N PROVE Is
  <2>1. walk = <<>>
    BY <1>2, <1>5
  <2>2. Nests(file, <<>>, 0, 0)
    BY NestsOne
  <2> QED
    BY <2>1, <2>2
<1>6. ASSUME ~(BodyStart(file) >= N) PROVE Is
  <2>1. walk = f[BodyStart(file)][N] /\ BodyStart(file) \in 1 .. N
    BY <1>2, <1>3, <1>4, <1>6
  <2>2. f[BodyStart(file)][N] \in Seq(Events(N)) /\ Nests(file, f[BodyStart(file)][N], BodyStart(file), N)
    BY <1>1, <1>3, <2>1, WalkNests
  <2> QED
    BY <1>3, <1>4, <2>1, <2>2
<1> QED
  BY <1>5, <1>6 DEF walk

\* The records that a walk meets: each once, in the order of the file.
LEMMA WalkedAre ==
    ASSUME NEW file \in Files
    PROVE  LET walked == WalkRecords(file)
           IN  /\ walked \in Seq(Nat) /\ Len(walked) \in Nat
               /\ \A n \in 1 .. Len(walked) : walked[n] \in Nat /\ file[walked[n]] \in Records
               /\ \A m, n \in 1 .. Len(walked) : m < n => walked[m] < walked[n]
<1> DEFINE N == Len(file) + 1
           walk == WalkStructure(file)
           I == {i \in DOMAIN walk : walk[i].kind = "record"}
           k == Cardinality(I)
           order == Rising(I)
           walked == WalkRecords(file)
<1>1. walk \in Seq(Events(N)) /\ \E lo, hi \in Nat : Nests(file, walk, lo, hi)
  BY WalkIs
<1> HIDE DEF walk, N
<1>2. /\ \A i \in I : walk[i].offset \in Nat /\ file[walk[i].offset] \in Records
      /\ \A i, j \in I : i < j => walk[i].offset < walk[j].offset
  BY <1>1 DEF Nests, Placed, Opening
<1>3. /\ k \in Nat /\ Picks(order, I)
      /\ Picked(walk, I) = [n \in 1 .. k |-> walk[order[n]]]
  <2>1. I \in SUBSET DOMAIN walk
    OBVIOUS
  <2> HIDE DEF I, k, order
  <2>2. /\ Cardinality(I) \in Nat /\ Picks(Rising(I), I)
        /\ Picked(walk, I) = [n \in 1 .. Cardinality(I) |-> walk[Rising(I)[n]]]
    BY <1>1, <2>1, PickedIs
  <2> QED
    BY <2>2 DEF k, order
<1>4. walked = [n \in 1 .. k |-> walk[order[n]].offset]
  BY <1>3 DEF WalkRecords, walk
<1>5. /\ \A n \in 1 .. k : order[n] \in I
      /\ \A m, n \in 1 .. k : m < n => order[m] < order[n]
  BY <1>3 DEF Picks
<1> HIDE DEF I, k, order, walked
<1>6. walked \in Seq(Nat) /\ Len(walked) = k
  <2>1. \A n \in 1 .. k : walk[order[n]].offset \in Nat
    BY <1>2, <1>5
  <2> QED
    BY <1>3, <1>4, <2>1
<1>7. \A n \in 1 .. k : walked[n] \in Nat /\ file[walked[n]] \in Records
  BY <1>2, <1>4, <1>5
<1>8. \A m, n \in 1 .. k : m < n => walked[m] < walked[n]
  BY <1>2, <1>4, <1>5
<1> QED
  BY <1>3, <1>6, <1>7, <1>8 DEF walked

-----------------------------------------------------------------------------
(* The tables of a scan.                                                   *)

\* Partial functions, which grow one entry at a time.
Maps(K, V) == UNION {[D -> V] : D \in SUBSET K}

\* An insertion into a map of keys and values leaves one.
LEMMA MapsGrow ==
    ASSUME NEW K, NEW V
    PROVE  /\ <<>> \in Maps(K, V) /\ DOMAIN <<>> = {}
           /\ \A f \in Maps(K, V) : \A k \in K : \A v \in V : Insert(f, k, v) \in Maps(K, V)
<1>1. <<>> \in Maps(K, V) /\ DOMAIN <<>> = {}
  <2>1. <<>> \in [{} -> V]
    OBVIOUS
  <2> QED
    BY <2>1 DEF Maps
<1>2. ASSUME NEW f \in Maps(K, V), NEW k \in K, NEW v \in V
      PROVE  Insert(f, k, v) \in Maps(K, V)
  <2>1. PICK D \in SUBSET K : f \in [D -> V]
    BY DEF Maps
  <2>2. Insert(f, k, v) \in [D \cup {k} -> V] /\ D \cup {k} \in SUBSET K
    BY <2>1 DEF Insert
  <2> QED
    BY <2>2 DEF Maps
<1> QED
  BY <1>1, <1>2

\* The record table holds the last record of each FormID.
LEMMA FormsAre ==
    ASSUME NEW file \in Files
    PROVE  LET walked == WalkRecords(file)
               forms == FormsOf(file)
               L == Len(walked)
           IN  /\ DOMAIN forms = {file[walked[n]].id : n \in 1 .. L}
               /\ \A id \in DOMAIN forms : \E n \in 1 .. L :
                    /\ forms[id] = walked[n] /\ file[walked[n]].id = id
                    /\ \A m \in 1 .. L : file[walked[m]].id = id => m <= n
<1> DEFINE walked == WalkRecords(file)
           L == Len(walked)
           Then(forms, n) == Insert(forms, file[walked[n]].id, walked[n])
           Is(g) == g = [n \in 0 .. L |-> IF n = 0 THEN <<>> ELSE Then(g[n - 1], n)]
           t == CHOOSE g : Is(g)
           S == Maps(Nat, Nat)
           step == [x \in S \X (1 .. L) |-> Then(x[1], x[2])]
<1>1. /\ L \in Nat
      /\ \A n \in 1 .. L : walked[n] \in Nat /\ file[walked[n]].id \in Nat
  BY WalkedAre DEF Records
<1>2. FormsOf(file) = t[L]
  BY DEF FormsOf
<1> HIDE DEF walked, L
<1>3. Is(t)
  <2>1. step \in [S \X (1 .. L) -> S] /\ <<>> \in S
    BY <1>1, MapsGrow
  <2> HIDE DEF S, step
  <2>2. PICK g : Iterates(g, L, S, <<>>, step)
    BY <1>1, <2>1, Iteration
  <2>3. \A n \in 1 .. L : g[n] = Then(g[n - 1], n)
    <3>1. \A n \in 1 .. L : g[n - 1] \in S /\ g[n] = step[<<g[n - 1], n>>]
      BY <1>1, <2>2 DEF Iterates
    <3> HIDE DEF Then
    <3> QED
      BY <3>1 DEF step
  <2>4. Is(g)
    BY <1>1, <2>2, <2>3 DEF Iterates
  <2> QED
    BY <2>4
<1> HIDE DEF t
<1>4. t[0] = <<>> /\ \A n \in 1 .. L : t[n] = Then(t[n - 1], n)
  <2> HIDE DEF Then
  <2> QED
    BY <1>1, <1>3
<1> DEFINE Upto(k) ==
             /\ DOMAIN t[k] = {file[walked[n]].id : n \in 1 .. k}
             /\ \A id \in DOMAIN t[k] : \E n \in 1 .. k :
                  /\ t[k][id] = walked[n] /\ file[walked[n]].id = id
                  /\ \A m \in 1 .. k : file[walked[m]].id = id => m <= n
           bad == {k \in 0 .. L : ~Upto(k)}
<1>5. Upto(0)
  BY <1>4, MapsGrow
<1>6. ASSUME NEW k \in 1 .. L, Upto(k - 1)
      PROVE  Upto(k)
  <2> DEFINE own == file[walked[k]].id
  <2>1. /\ DOMAIN t[k] = DOMAIN t[k - 1] \cup {own} /\ t[k][own] = walked[k]
        /\ \A id \in DOMAIN t[k - 1] : id # own => t[k][id] = t[k - 1][id]
    <3>1. t[k] = Insert(t[k - 1], own, walked[k])
      BY <1>4
    <3>2. t[k] = [id \in DOMAIN t[k - 1] \cup {own} |-> IF id = own THEN walked[k] ELSE t[k - 1][id]]
      BY <3>1 DEF Insert
    <3> HIDE DEF own
    <3> QED
      BY <3>2
  <2>2. 1 .. k = 1 .. (k - 1) \cup {k}
    BY <1>1
  <2>3. DOMAIN t[k] = {file[walked[n]].id : n \in 1 .. k}
    BY <1>6, <2>1, <2>2
  <2>4. ASSUME NEW id \in DOMAIN t[k]
        PROVE  \E n \in 1 .. k : /\ t[k][id] = walked[n] /\ file[walked[n]].id = id
                                 /\ \A m \in 1 .. k : file[walked[m]].id = id => m <= n
    <3>1. CASE id = own
      BY <1>1, <2>1, <2>2, <3>1
    <3>2. CASE id # own
      <4>1. id \in DOMAIN t[k - 1] /\ t[k][id] = t[k - 1][id]
        BY <2>1, <3>2
      <4>2. PICK n \in 1 .. k - 1 : /\ t[k - 1][id] = walked[n] /\ file[walked[n]].id = id
                                    /\ \A m \in 1 .. k - 1 : file[walked[m]].id = id => m <= n
        BY <1>6, <4>1
      <4> QED
        BY <2>2, <3>2, <4>1, <4>2
    <3> QED
      BY <3>1, <3>2
  <2> QED
    BY <2>3, <2>4
<1>7. bad = {}
  <2> SUFFICES ASSUME bad # {} PROVE FALSE
    OBVIOUS
  <2>1. PICK k \in bad : \A n \in bad : k <= n
    <3>1. bad \in SUBSET Nat
      BY <1>1
    <3> HIDE DEF bad
    <3> QED
      BY <3>1, LeastOf
  <2> HIDE DEF Upto
  <2>2. k \in 1 .. L /\ k - 1 \in 0 .. L /\ k - 1 \notin bad
    BY <1>1, <1>5, <2>1
  <2> QED
    BY <1>6, <2>1, <2>2
<1>8. Upto(L)
  <2> HIDE DEF Upto
  <2> QED
    BY <1>1, <1>7
<1> QED
  BY <1>2, <1>8 DEF walked, L

\* What a sequence holds once, and is picked, is held once by what is picked.
LEMMA CountIs ==
    ASSUME NEW T, NEW s \in Seq(T), NEW I \in SUBSET DOMAIN s, NEW r
    PROVE  /\ (\A j \in DOMAIN s : s[j] # r) => Held(Picked(s, I), r) = 0
           /\ \A i \in I : s[i] = r /\ (\A j \in DOMAIN s : s[j] = r => j = i) => Held(Picked(s, I), r) = 1
<1> DEFINE k == Cardinality(I)
           order == Rising(I)
           at == {n \in DOMAIN Picked(s, I) : Picked(s, I)[n] = r}
<1>1. /\ k \in Nat /\ Picks(order, I) /\ Picked(s, I) = [n \in 1 .. k |-> s[order[n]]]
  BY PickedIs
<1>2. at = {n \in 1 .. k : s[order[n]] = r}
  BY <1>1
<1>3. /\ order \in [1 .. k -> I] /\ I = {order[n] : n \in 1 .. k}
      /\ \A m, n \in 1 .. k : m < n => order[m] < order[n]
  BY <1>1 DEF Picks
<1> HIDE DEF k, order, at
<1>4. ASSUME \A j \in DOMAIN s : s[j] # r PROVE Cardinality(at) = 0
  <2>1. at = {}
    BY <1>2, <1>3, <1>4
  <2> QED
    BY <2>1, FS_EmptySet
<1>5. ASSUME NEW i \in I, s[i] = r, \A j \in DOMAIN s : s[j] = r => j = i
      PROVE  Cardinality(at) = 1
  <2>1. PICK n \in 1 .. k : order[n] = i
    BY <1>3
  <2>2. \A m \in 1 .. k : order[m] = i => m = n
    <3> TAKE m \in 1 .. k
    <3>1. m = n \/ m < n \/ n < m
      BY <1>1
    <3>2. I \in SUBSET Nat
      OBVIOUS
    <3>3. order[m] \in Nat /\ order[n] \in Nat
      BY <1>3, <3>2
    <3> QED
      BY <1>3, <2>1, <3>1, <3>3
  <2>3. at = {n}
    BY <1>2, <1>3, <1>5, <2>1, <2>2
  <2> QED
    BY <2>3, FS_Singleton
<1> QED
  BY <1>4, <1>5 DEF at, Held

\* The editor names lead to the highest form that has them.
LEMMA NamesAre ==
    ASSUME NEW file \in Files
    PROVE  LET forms == FormsOf(file)
               names == EdidSection(file, forms)
               Named(id) == file[forms[id]].edid
           IN  /\ DOMAIN names = {Named(id) : id \in DOMAIN forms} \ {None}
               /\ \A edid \in DOMAIN names :
                    /\ names[edid] \in DOMAIN forms /\ Named(names[edid]) = edid
                    /\ \A id \in DOMAIN forms : Named(id) = edid => id <= names[edid]
<1> DEFINE forms == FormsOf(file)
           D == DOMAIN forms
           ids == FormIds(forms)
           L == Len(ids)
           Named(id) == file[forms[id]].edid
           Then(names, id) == IF Named(id) = None THEN names ELSE Insert(names, Named(id), id)
           Is(g) == g = [n \in 0 .. L |-> IF n = 0 THEN <<>> ELSE Then(g[n - 1], ids[n])]
           t == CHOOSE g : Is(g)
           S == Maps(STRING, Nat)
           step == [x \in S \X (1 .. L) |-> Then(x[1], ids[x[2]])]
<1>1. EdidSection(file, forms) = t[L]
  BY DEF EdidSection
<1>2. D \in SUBSET Nat /\ IsFiniteSet(D) /\ \A id \in D : Named(id) \in STRING
  <2> DEFINE walked == WalkRecords(file)
             k == Len(walked)
  <2>1. k \in Nat /\ \A n \in 1 .. k : walked[n] \in Nat /\ file[walked[n]] \in Records
    BY WalkedAre
  <2>2. /\ D = {file[walked[n]].id : n \in 1 .. k}
        /\ \A id \in D : \E n \in 1 .. k : forms[id] = walked[n]
    BY FormsAre
  <2> HIDE DEF D, forms, walked, k
  <2>3. IsFiniteSet(D)
    <3>1. IsFiniteSet(1 .. k)
      BY <2>1, FS_Interval
    <3> DEFINE own == [n \in 1 .. k |-> file[walked[n]].id]
    <3>2. own \in Surjection(1 .. k, D)
      BY <2>2 DEF Surjection
    <3> QED
      BY <3>1, <3>2, FS_Surjection
  <2>4. D \in SUBSET Nat /\ \A id \in D : Named(id) \in STRING
    BY <2>1, <2>2 DEF Records
  <2> QED
    BY <2>3, <2>4
<1> HIDE DEF forms
<1>3. /\ L \in Nat /\ \A n \in 1 .. L : ids[n] \in D /\ ids[n] \in Nat
      /\ D = {ids[n] : n \in 1 .. L}
      /\ \A m, n \in 1 .. L : m <= n => ids[m] <= ids[n]
  <2>1. ids = Rising(D)
    BY DEF FormIds
  <2> HIDE DEF D, ids
  <2>2. /\ Cardinality(D) \in Nat /\ Picks(ids, D) /\ Len(ids) = Cardinality(D)
    BY <1>2, <2>1, RisingIs
  <2>3. /\ \A n \in 1 .. L : ids[n] \in D
        /\ D = {ids[n] : n \in 1 .. L}
        /\ \A m, n \in 1 .. L : m < n => ids[m] < ids[n]
    BY <2>2 DEF Picks
  <2>4. \A n \in 1 .. L : ids[n] \in Nat
    BY <1>2, <2>3
  <2>5. \A m, n \in 1 .. L : m <= n => ids[m] <= ids[n]
    <3> TAKE m, n \in 1 .. L
    <3>1. m <= n => m = n \/ m < n
      BY <2>2
    <3> QED
      BY <2>3, <2>4, <3>1
  <2> QED
    BY <2>2, <2>3, <2>4, <2>5
<1> HIDE DEF ids, L, D
<1>4. Is(t)
  <2>1. step \in [S \X (1 .. L) -> S] /\ <<>> \in S
    <3>1. <<>> \in S
      BY MapsGrow
    <3>2. ASSUME NEW names \in S, NEW n \in 1 .. L PROVE Then(names, ids[n]) \in S
      <4>1. ids[n] \in Nat /\ Named(ids[n]) \in STRING
        BY <1>2, <1>3
      <4>2. Insert(names, Named(ids[n]), ids[n]) \in S
        BY <4>1, MapsGrow
      <4> QED
        BY <4>2
    <3> HIDE DEF S, Then
    <3> QED
      BY <3>1, <3>2
  <2> HIDE DEF S, step
  <2>2. PICK g : Iterates(g, L, S, <<>>, step)
    BY <1>3, <2>1, Iteration
  <2>3. \A n \in 1 .. L : g[n] = Then(g[n - 1], ids[n])
    <3>1. \A n \in 1 .. L : g[n - 1] \in S /\ g[n] = step[<<g[n - 1], n>>]
      BY <1>3, <2>2 DEF Iterates
    <3> HIDE DEF Then
    <3> QED
      BY <3>1 DEF step
  <2>4. Is(g)
    <3> HIDE DEF Then
    <3> QED
      BY <1>3, <2>2, <2>3 DEF Iterates
  <2> QED
    BY <2>4
<1> HIDE DEF t
<1>5. t[0] = <<>> /\ \A n \in 1 .. L : t[n] = Then(t[n - 1], ids[n])
  <2> HIDE DEF Then
  <2> QED
    BY <1>3, <1>4
<1> DEFINE Upto(k) ==
             /\ DOMAIN t[k] = {Named(ids[n]) : n \in 1 .. k} \ {None}
             /\ \A edid \in DOMAIN t[k] : \E n \in 1 .. k :
                  /\ t[k][edid] = ids[n] /\ Named(ids[n]) = edid
                  /\ \A m \in 1 .. k : Named(ids[m]) = edid => m <= n
           bad == {k \in 0 .. L : ~Upto(k)}
<1> HIDE DEF Named
<1>6. Upto(0)
  BY <1>5, MapsGrow
<1>7. ASSUME NEW k \in 1 .. L, Upto(k - 1)
      PROVE  Upto(k)
  <2> DEFINE own == Named(ids[k])
  <2>1. 1 .. k = 1 .. (k - 1) \cup {k}
    BY <1>3
  <2>2. CASE own = None
    <3>1. t[k] = t[k - 1]
      BY <1>5, <2>2
    <3>2. DOMAIN t[k] = {Named(ids[n]) : n \in 1 .. k} \ {None}
      BY <1>7, <2>1, <2>2, <3>1
    <3>3. ASSUME NEW edid \in DOMAIN t[k]
          PROVE  \E n \in 1 .. k : /\ t[k][edid] = ids[n] /\ Named(ids[n]) = edid
                                   /\ \A m \in 1 .. k : Named(ids[m]) = edid => m <= n
      <4>1. PICK n \in 1 .. k - 1 : /\ t[k - 1][edid] = ids[n] /\ Named(ids[n]) = edid
                                    /\ \A m \in 1 .. k - 1 : Named(ids[m]) = edid => m <= n
        BY <1>7, <3>1
      <4>2. edid # None
        BY <3>2
      <4> QED
        BY <2>1, <2>2, <3>1, <4>1, <4>2
    <3> QED
      BY <3>2, <3>3
  <2>3. CASE own # None
    <3>1. /\ DOMAIN t[k] = DOMAIN t[k - 1] \cup {own} /\ t[k][own] = ids[k]
          /\ \A edid \in DOMAIN t[k - 1] : edid # own => t[k][edid] = t[k - 1][edid]
      BY <1>5, <2>3 DEF Insert
    <3>2. DOMAIN t[k] = {Named(ids[n]) : n \in 1 .. k} \ {None}
      BY <1>7, <2>1, <2>3, <3>1
    <3>3. ASSUME NEW edid \in DOMAIN t[k]
          PROVE  \E n \in 1 .. k : /\ t[k][edid] = ids[n] /\ Named(ids[n]) = edid
                                   /\ \A m \in 1 .. k : Named(ids[m]) = edid => m <= n
      <4>1. CASE edid = own
        BY <1>3, <2>1, <3>1, <4>1
      <4>2. CASE edid # own
        <5>1. edid \in DOMAIN t[k - 1] /\ t[k][edid] = t[k - 1][edid]
          BY <3>1, <4>2
        <5>2. PICK n \in 1 .. k - 1 : /\ t[k - 1][edid] = ids[n] /\ Named(ids[n]) = edid
                                      /\ \A m \in 1 .. k - 1 : Named(ids[m]) = edid => m <= n
          BY <1>7, <5>1
        <5> QED
          BY <2>1, <4>2, <5>1, <5>2
      <4> QED
        BY <4>1, <4>2
    <3> QED
      BY <3>2, <3>3
  <2> QED
    BY <2>2, <2>3
<1>8. bad = {}
  <2> SUFFICES ASSUME bad # {} PROVE FALSE
    OBVIOUS
  <2>1. PICK k \in bad : \A n \in bad : k <= n
    <3>1. bad \in SUBSET Nat
      BY <1>3
    <3> HIDE DEF bad
    <3> QED
      BY <3>1, LeastOf
  <2> HIDE DEF Upto
  <2>2. k \in 1 .. L /\ k - 1 \in 0 .. L /\ k - 1 \notin bad
    BY <1>3, <1>6, <2>1
  <2> QED
    BY <1>7, <2>1, <2>2
<1>9. Upto(L)
  <2> HIDE DEF Upto
  <2> QED
    BY <1>3, <1>8
<1>10. DOMAIN t[L] = {Named(id) : id \in D} \ {None}
  BY <1>3, <1>9
<1>11. ASSUME NEW edid \in DOMAIN t[L]
       PROVE  /\ t[L][edid] \in D /\ Named(t[L][edid]) = edid
              /\ \A id \in D : Named(id) = edid => id <= t[L][edid]
  <2>1. PICK n \in 1 .. L : /\ t[L][edid] = ids[n] /\ Named(ids[n]) = edid
                            /\ \A m \in 1 .. L : Named(ids[m]) = edid => m <= n
    BY <1>9
  <2>2. ASSUME NEW id \in D, Named(id) = edid PROVE id <= t[L][edid]
    <3>1. PICK m \in 1 .. L : id = ids[m]
      BY <1>3
    <3> QED
      BY <1>3, <2>1, <2>2, <3>1
  <2> QED
    BY <1>3, <2>1, <2>2
<1> QED
  BY <1>1, <1>10, <1>11 DEF forms, D, Named

\* What a list holds once, and what it does not hold.
HeldOnce(s, r) == \E i \in DOMAIN s : s[i] = r /\ \A j \in DOMAIN s : s[j] = r => j = i
NeverHeld(s, r) == \A j \in DOMAIN s : s[j] # r

\* What one more element does to what a list holds.
LEMMA AppendedIs ==
    ASSUME NEW T, NEW s \in Seq(T), NEW x \in T, NEW r
    PROVE  /\ s \o <<x>> \in Seq(T)
           /\ x # r /\ HeldOnce(s, r) => HeldOnce(s \o <<x>>, r)
           /\ x # r /\ NeverHeld(s, r) => NeverHeld(s \o <<x>>, r)
           /\ x = r /\ NeverHeld(s, r) => HeldOnce(s \o <<x>>, r)
<1> DEFINE u == s \o <<x>>
           m == Len(s)
<1>1. /\ u \in Seq(T) /\ m \in Nat /\ DOMAIN u = 1 .. m + 1 /\ DOMAIN s = 1 .. m
      /\ \A i \in 1 .. m : u[i] = s[i]
      /\ u[m + 1] = x
  OBVIOUS
<1> HIDE DEF u, m
<1>2. 1 .. m + 1 = 1 .. m \cup {m + 1} /\ m + 1 \notin 1 .. m
  BY <1>1
<1>3. x # r /\ HeldOnce(s, r) => HeldOnce(u, r)
  BY <1>1, <1>2 DEF HeldOnce
<1>4. x # r /\ NeverHeld(s, r) => NeverHeld(u, r)
  BY <1>1, <1>2 DEF NeverHeld
<1>5. x = r /\ NeverHeld(s, r) => HeldOnce(u, r)
  BY <1>1, <1>2 DEF HeldOnce, NeverHeld
<1> QED
  BY <1>1, <1>3, <1>4, <1>5 DEF u

\* The only record of a form is listed once under every target, and nowhere else.
LEMMA XrefIs ==
    ASSUME NEW file \in Files
    PROVE  LET walked == WalkRecords(file)
               L == Len(walked)
               forms == FormsOf(file)
               xref == XrefSection(file, forms, {})
               Own(n) == file[walked[n]].id
           IN  \A id : /\ Listed(xref, id) \in Seq(Nat)
                       /\ \A n \in 1 .. L : (\A m \in 1 .. L : Own(m) = Own(n) => m = n) =>
                            IF id \in Targets(file, forms, {}, walked[n])
                            THEN HeldOnce(Listed(xref, id), Own(n)) ELSE NeverHeld(Listed(xref, id), Own(n))
<1> DEFINE walked == WalkRecords(file)
           L == Len(walked)
           forms == FormsOf(file)
           Own(n) == file[walked[n]].id
           Named(n) == Targets(file, forms, {}, walked[n])
           Pushed(xref, n) ==
             [id \in DOMAIN xref \cup Named(n) |->
                Listed(xref, id) \o (IF id \in Named(n) THEN <<Own(n)>> ELSE <<>>)]
           Is(g) == g = [n \in 0 .. L |-> IF n = 0 THEN <<>> ELSE Pushed(g[n - 1], n)]
           t == CHOOSE g : Is(g)
           S == Maps(Nat, Seq(Nat))
           step == [x \in S \X (1 .. L) |-> Pushed(x[1], x[2])]
           Only(n) == \A m \in 1 .. L : Own(m) = Own(n) => m = n
<1>1. XrefSection(file, forms, {}) = t[L]
  BY Zenon DEF XrefSection
<1>2. /\ L \in Nat
      /\ \A n \in 1 .. L : walked[n] \in Nat /\ Own(n) \in Nat /\ file[walked[n]].refs \in Seq(Nat)
  BY WalkedAre DEF Records
<1>3. \A n \in 1 .. L : Named(n) \subseteq Nat
  BY <1>2 DEF Targets, ToSet
<1> HIDE DEF walked, L, forms, Named, Own
<1>4. Is(t)
  <2>1. <<>> \in S
    BY MapsGrow
  <2>2. ASSUME NEW xref \in S, NEW n \in 1 .. L PROVE Pushed(xref, n) \in S
    <3>1. PICK D \in SUBSET Nat : xref \in [D -> Seq(Nat)]
      BY DEF Maps
    <3>2. \A id : Listed(xref, id) \in Seq(Nat)
      <4> TAKE id
      <4>1. CASE id \in D
        BY <3>1, <4>1 DEF Listed
      <4>2. CASE id \notin D
        BY <3>1, <4>2 DEF Listed
      <4> QED
        BY <4>1, <4>2
    <3>3. <<Own(n)>> \in Seq(Nat) /\ <<>> \in Seq(Nat)
      BY <1>2
    <3>4. \A id : Listed(xref, id) \o (IF id \in Named(n) THEN <<Own(n)>> ELSE <<>>) \in Seq(Nat)
      BY <3>2, <3>3
    <3>5. Pushed(xref, n) \in [D \cup Named(n) -> Seq(Nat)] /\ D \cup Named(n) \in SUBSET Nat
      BY <1>3, <3>1, <3>4
    <3> QED
      BY <3>5 DEF Maps
  <2> HIDE DEF Pushed, S
  <2>3. step \in [S \X (1 .. L) -> S]
    BY <2>2
  <2> HIDE DEF step
  <2>4. PICK g : Iterates(g, L, S, <<>>, step)
    BY <1>2, <2>1, <2>3, Iteration
  <2>5. \A n \in 1 .. L : g[n] = Pushed(g[n - 1], n)
    <3>1. \A n \in 1 .. L : g[n - 1] \in S /\ g[n] = step[<<g[n - 1], n>>]
      BY <1>2, <2>4 DEF Iterates
    <3> QED
      BY <3>1 DEF step
  <2>6. Is(g)
    BY <1>2, <2>4, <2>5 DEF Iterates
  <2> QED
    BY <2>6
<1> HIDE DEF t
<1>5. t[0] = <<>> /\ \A n \in 1 .. L : t[n] = Pushed(t[n - 1], n)
  <2> HIDE DEF Pushed
  <2> QED
    BY <1>2, <1>4
<1> DEFINE Upto(k) == \A id :
             /\ Listed(t[k], id) \in Seq(Nat)
             /\ \A n \in 1 .. L : Only(n) =>
                  IF n <= k /\ id \in Named(n)
                  THEN HeldOnce(Listed(t[k], id), Own(n)) ELSE NeverHeld(Listed(t[k], id), Own(n))
           bad == {k \in 0 .. L : ~Upto(k)}
<1>6. Upto(0)
  <2>1. DOMAIN <<>> = {} /\ <<>> \in Seq(Nat)
    BY MapsGrow
  <2>2. \A id : Listed(t[0], id) = <<>>
    BY <1>5, <2>1 DEF Listed
  <2>3. \A r : NeverHeld(<<>>, r)
    BY <2>1 DEF NeverHeld
  <2>4. \A n \in 1 .. L : ~(n <= 0)
    BY <1>2
  <2> QED
    BY <2>1, <2>2, <2>3, <2>4
<1>7. ASSUME NEW k \in 1 .. L, Upto(k - 1)
      PROVE  Upto(k)
  <2> SUFFICES ASSUME NEW id
               PROVE  /\ Listed(t[k], id) \in Seq(Nat)
                      /\ \A n \in 1 .. L : Only(n) =>
                           IF n <= k /\ id \in Named(n)
                           THEN HeldOnce(Listed(t[k], id), Own(n)) ELSE NeverHeld(Listed(t[k], id), Own(n))
    OBVIOUS
  <2> DEFINE old == Listed(t[k - 1], id)
             new == Listed(t[k], id)
  <2>1. new = IF id \in Named(k) THEN old \o <<Own(k)>> ELSE old
    <3>1. old \in Seq(Nat) /\ DOMAIN t[k] = DOMAIN t[k - 1] \cup Named(k)
      BY <1>5, <1>7
    <3>2. CASE id \in Named(k)
      <4>1. t[k][id] = old \o <<Own(k)>>
        BY <1>5, <3>1, <3>2
      <4> QED
        BY <3>1, <3>2, <4>1 DEF Listed
    <3>3. CASE id \notin Named(k) /\ id \in DOMAIN t[k - 1]
      <4>1. t[k][id] = old \o <<>>
        BY <1>5, <3>1, <3>3
      <4>2. old \o <<>> = old
        BY <3>1
      <4> QED
        BY <3>1, <3>3, <4>1, <4>2 DEF Listed
    <3>4. CASE id \notin Named(k) /\ id \notin DOMAIN t[k - 1]
      BY <3>1, <3>4 DEF Listed
    <3> QED
      BY <3>2, <3>3, <3>4
  <2>2. /\ old \in Seq(Nat)
        /\ \A n \in 1 .. L : Only(n) =>
             IF n <= k - 1 /\ id \in Named(n) THEN HeldOnce(old, Own(n)) ELSE NeverHeld(old, Own(n))
    BY <1>7
  <2>3. Own(k) \in Nat /\ k \in Nat
    BY <1>2
  <2> HIDE DEF old, new
  <2>4. new \in Seq(Nat)
    BY <2>1, <2>2, <2>3, AppendedIs
  <2>5. ASSUME NEW n \in 1 .. L, Only(n)
        PROVE  IF n <= k /\ id \in Named(n) THEN HeldOnce(new, Own(n)) ELSE NeverHeld(new, Own(n))
    <3>1. n # k => (n <= k <=> n <= k - 1)
      BY <1>2
    <3>2. n # k => Own(k) # Own(n)
      BY <2>5
    <3>3. ~(k <= k - 1) /\ k <= k
      BY <2>3
    <3> HIDE DEF Only
    <3>4. IF n <= k - 1 /\ id \in Named(n) THEN HeldOnce(old, Own(n)) ELSE NeverHeld(old, Own(n))
      BY <2>2, <2>5
    <3>5. CASE id \in Named(k)
      <4>1. new = old \o <<Own(k)>>
        BY <2>1, <3>5
      <4>2. CASE n = k
        <5>1. NeverHeld(old, Own(k))
          BY <3>3, <3>4, <4>2
        <5>2. HeldOnce(new, Own(k))
          BY <2>2, <2>3, <4>1, <5>1, AppendedIs
        <5> QED
          BY <3>3, <3>5, <4>2, <5>2
      <4>3. CASE n # k
        <5>1. HeldOnce(old, Own(n)) => HeldOnce(new, Own(n))
          BY <2>2, <2>3, <3>2, <4>1, <4>3, AppendedIs
        <5>2. NeverHeld(old, Own(n)) => NeverHeld(new, Own(n))
          BY <2>2, <2>3, <3>2, <4>1, <4>3, AppendedIs
        <5> QED
          BY <3>1, <3>4, <4>3, <5>1, <5>2
      <4> QED
        BY <4>2, <4>3
    <3>6. CASE id \notin Named(k)
      <4>1. new = old
        BY <2>1, <3>6
      <4> QED
        BY <3>1, <3>4, <3>6, <4>1
    <3> QED
      BY <3>5, <3>6
  <2> QED
    BY <2>4, <2>5 DEF new
<1>8. bad = {}
  <2> SUFFICES ASSUME bad # {} PROVE FALSE
    OBVIOUS
  <2>1. PICK k \in bad : \A n \in bad : k <= n
    <3>1. bad \in SUBSET Nat
      BY <1>2
    <3> HIDE DEF bad
    <3> QED
      BY <3>1, LeastOf
  <2> HIDE DEF Upto
  <2>2. k \in 1 .. L /\ k - 1 \in 0 .. L /\ k - 1 \notin bad
    BY <1>2, <1>6, <2>1
  <2> QED
    BY <1>7, <2>1, <2>2
<1>9. Upto(L)
  <2> HIDE DEF Upto
  <2> QED
    BY <1>2, <1>8
<1>10. \A n \in 1 .. L : n <= L
  BY <1>2
<1> QED
  BY <1>1, <1>9, <1>10 DEF walked, L, forms, Own, Named

-----------------------------------------------------------------------------
(* The scan.                                                               *)

\* A bound that is in the set is its maximum.
LEMMA MaxIs ==
    ASSUME NEW T \in SUBSET Nat, NEW m \in T, \A x \in T : x <= m
    PROVE  Max(T) = m
<1>1. \A x \in T : m >= x
  OBVIOUS
<1>2. \A x \in T : (\A y \in T : x >= y) => x = m
  OBVIOUS
<1> QED
  BY <1>1, <1>2 DEF Max

ScanRequests == [op : {"scan"}, file : Files]

\* What a scan builds agrees with the file.
LEMMA ScanIsExact ==
    ASSUME NEW file \in Files
    PROVE  IndexAgrees(file, ScanOf(file))
<1> DEFINE walked == WalkRecords(file)
           L == Len(walked)
           forms == FormsOf(file)
           names == EdidSection(file, forms)
           xref == XrefSection(file, forms, {})
           ids == {file[pos].id : pos \in ToSet(walked)}
           Own(n) == file[walked[n]].id
           index == ScanOf(file)
           named(edid) == {id \in ids : Standing(file, id).edid = edid}
<1>1. index.forms = forms /\ index.names = names /\ index.xref = xref
  BY DEF ScanOf
<1>0. \A id : RecordsOf(file, id) = {pos \in ToSet(walked) : file[pos].id = id}
  BY DEF RecordsOf
<1>2. /\ walked \in Seq(Nat) /\ L \in Nat
      /\ \A n \in 1 .. L : walked[n] \in Nat /\ Own(n) \in Nat
      /\ \A m, n \in 1 .. L : m < n => walked[m] < walked[n]
  BY WalkedAre DEF Records
<1>3. /\ DOMAIN forms = {Own(n) : n \in 1 .. L}
      /\ \A id \in DOMAIN forms : \E n \in 1 .. L :
           forms[id] = walked[n] /\ Own(n) = id /\ \A m \in 1 .. L : Own(m) = id => m <= n
  BY FormsAre
<1>4. /\ DOMAIN names = {file[forms[id]].edid : id \in DOMAIN forms} \ {None}
      /\ \A edid \in DOMAIN names :
           /\ names[edid] \in DOMAIN forms /\ file[forms[names[edid]]].edid = edid
           /\ \A id \in DOMAIN forms : file[forms[id]].edid = edid => id <= names[edid]
  BY NamesAre
<1>5. \A id : /\ Listed(xref, id) \in Seq(Nat)
              /\ \A n \in 1 .. L : (\A m \in 1 .. L : Own(m) = Own(n) => m = n) =>
                   IF id \in Targets(file, forms, {}, walked[n])
                   THEN HeldOnce(Listed(xref, id), Own(n)) ELSE NeverHeld(Listed(xref, id), Own(n))
  BY XrefIs
<1> HIDE DEF walked, L, forms, names, xref, index
<1>6. ToSet(walked) = {walked[n] : n \in 1 .. L} /\ ToSet(walked) \subseteq Nat
  <2>1. DOMAIN walked = 1 .. L
    BY <1>2 DEF L
  <2> QED
    BY <1>2, <2>1 DEF ToSet
<1>7. DOMAIN forms = ids /\ ids \subseteq Nat
  BY <1>2, <1>3, <1>6
<1>8. ASSUME NEW id \in ids PROVE Max(RecordsOf(file, id)) = forms[id]
  <2>1. PICK n \in 1 .. L : forms[id] = walked[n] /\ Own(n) = id /\ \A m \in 1 .. L : Own(m) = id => m <= n
    BY <1>3, <1>7
  <2>2. forms[id] \in RecordsOf(file, id) /\ RecordsOf(file, id) \in SUBSET Nat
    BY <1>0, <1>6, <2>1
  <2>3. ASSUME NEW pos \in RecordsOf(file, id) PROVE pos <= forms[id]
    <3>1. PICK m \in 1 .. L : pos = walked[m] /\ Own(m) = id
      BY <1>0, <1>6
    <3>2. m = n \/ m < n
      BY <1>2, <2>1, <3>1
    <3> QED
      BY <1>2, <2>1, <3>1, <3>2
  <2> QED
    BY <2>2, <2>3, MaxIs
<1>9. ASSUME NEW id \in ids, NEW r \in ids, Cardinality(RecordsOf(file, r)) = 1
      PROVE  Times(index, r, id) = (IF r # id /\ id \in ToSet(Standing(file, r).refs) THEN 1 ELSE 0)
  <2>1. PICK n \in 1 .. L : forms[r] = walked[n] /\ Own(n) = r
    BY <1>3, <1>7
  <2>2. \A m \in 1 .. L : Own(m) = Own(n) => m = n
    <3> SUFFICES ASSUME NEW m \in 1 .. L, Own(m) = Own(n) PROVE m = n
      OBVIOUS
    <3>1. walked[m] \in RecordsOf(file, r) /\ walked[n] \in RecordsOf(file, r)
      BY <1>0, <1>6, <2>1
    <3>2. PICK pos : RecordsOf(file, r) = {pos}
      <4>1. IsFiniteSet(RecordsOf(file, r))
        <5>1. IsFiniteSet(1 .. L)
          BY <1>2, FS_Interval
        <5>2. walked \in Surjection(1 .. L, ToSet(walked))
          <6>1. walked \in [1 .. L -> ToSet(walked)]
            BY <1>2, <1>6 DEF L
          <6>2. \A pos \in ToSet(walked) : \E h \in 1 .. L : walked[h] = pos
            BY <1>6
          <6> QED
            BY <6>1, <6>2 DEF Surjection
        <5>3. IsFiniteSet(ToSet(walked))
          BY <5>1, <5>2, FS_Surjection
        <5> QED
          BY <1>0, <5>3, FS_Subset
      <4> QED
        BY <1>9, <4>1, FS_Singleton
    <3>3. walked[m] = walked[n]
      BY <3>1, <3>2
    <3>4. m = n \/ m < n \/ n < m
      BY <1>2
    <3> QED
      BY <1>2, <3>3, <3>4
  <2> DEFINE s == Listed(xref, id)
             I == {i \in DOMAIN s : s[i] \in DOMAIN forms}
  <2>3. /\ s \in Seq(Nat)
        /\ IF id \in Targets(file, forms, {}, walked[n]) THEN HeldOnce(s, r) ELSE NeverHeld(s, r)
    BY <1>5, <2>1, <2>2
  <2>4. Referencers(xref, forms, id) = Picked(s, I)
    BY DEF Referencers
  <2>5. id \in Targets(file, forms, {}, walked[n]) <=> r # id /\ id \in ToSet(Standing(file, r).refs)
    <3>1. Max(RecordsOf(file, r)) = walked[n]
      BY <1>8, <2>1
    <3> QED
      BY <1>7, <2>1, <3>1 DEF Targets, Standing
  <2> HIDE DEF s
  <2>6. /\ (\A j \in DOMAIN s : s[j] # r) => Times(index, r, id) = 0
        /\ \A i \in I : s[i] = r /\ (\A j \in DOMAIN s : s[j] = r => j = i) => Times(index, r, id) = 1
    <3>1. I \in SUBSET DOMAIN s
      OBVIOUS
    <3>2. Times(index, r, id) = Held(Picked(s, I), r)
      BY <1>1, <2>4 DEF Times
    <3> HIDE DEF I
    <3> QED
      BY <2>3, <3>1, <3>2, CountIs
  <2>7. CASE id \in Targets(file, forms, {}, walked[n])
    <3>1. PICK i \in DOMAIN s : s[i] = r /\ \A j \in DOMAIN s : s[j] = r => j = i
      BY <2>3, <2>7 DEF HeldOnce
    <3>2. i \in I
      BY <1>7, <3>1
    <3>3. Times(index, r, id) = 1
      BY <2>6, <3>1, <3>2
    <3> QED
      BY <2>5, <2>7, <3>3
  <2>8. CASE id \notin Targets(file, forms, {}, walked[n])
    <3>1. Times(index, r, id) = 0
      BY <2>3, <2>6, <2>8 DEF NeverHeld
    <3> QED
      BY <2>5, <2>8, <3>1
  <2> QED
    BY <2>7, <2>8
<1>12. \A id \in ids : Standing(file, id) = file[forms[id]]
  BY <1>8 DEF Standing
<1>10. DOMAIN names = {Standing(file, id).edid : id \in ids} \ {None}
  <2>1. DOMAIN names = {file[forms[id]].edid : id \in ids} \ {None}
    BY <1>4, <1>7
  <2>2. {file[forms[id]].edid : id \in ids} = {Standing(file, id).edid : id \in ids}
    BY <1>12
  <2> QED
    BY <2>1, <2>2
<1>11. ASSUME NEW edid \in DOMAIN names PROVE names[edid] = Max(named(edid))
  <2>1. named(edid) \in SUBSET Nat /\ names[edid] \in named(edid)
    BY <1>4, <1>7, <1>12
  <2>2. ASSUME NEW id \in named(edid) PROVE id <= names[edid]
    <3>1. id \in ids /\ file[forms[id]].edid = edid
      BY <1>12
    <3> QED
      BY <1>4, <1>7, <3>1
  <2> HIDE DEF named
  <2> QED
    BY <2>1, <2>2, MaxIs
<1> QED
  BY <1>1, <1>7, <1>9, <1>10, <1>11 DEF IndexAgrees, walked, index, OnceIf

\* Whatever a file holds, a scan that answers has met each record once, and its
\* three tables agree with the file.
THEOREM IndexAlwaysExact ==
    (\E q \in ScanRequests : Asked(q)) /\ [][Scan \/ Elsewhere("scan")]_vars => []IndexIsExact
<1> DEFINE Inv == request \in ScanRequests /\ IndexIsExact
<1>1. (\E q \in ScanRequests : Asked(q)) => Inv
  BY DEF Asked, Pending, IndexIsExact, Answered
<1>2. Inv /\ [Scan \/ Elsewhere("scan")]_vars => Inv'
  <2> SUFFICES ASSUME Inv, [Scan \/ Elsewhere("scan")]_vars
               PROVE  Inv'
    OBVIOUS
  <2>1. CASE Scan
    <3>1. CASE Refuse("scan")
      BY <3>1 DEF Refuse, IndexIsExact, Answered
    <3>2. CASE Run("scan", ScanOf(request.file))
      <4>1. request' = request /\ request.file \in Files /\ Out' = ScanOf(request.file)
        BY <3>2 DEF Run, Out, ScanRequests
      <4>2. IndexAgrees(request.file, Out')
        BY <4>1, ScanIsExact
      <4>3. IndexIsExact'
        BY <4>1, <4>2 DEF IndexIsExact
      <4> QED
        BY <4>1, <4>3
    <3> QED
      BY <2>1, <3>1, <3>2 DEF Scan
  <2>2. CASE Elsewhere("scan")
    <3>1. request' = request /\ request.op # "scan"
      BY <2>2 DEF Elsewhere, Run, Refuse
    <3> QED
      BY <3>1 DEF IndexIsExact, Answered
  <2>3. CASE UNCHANGED vars
    BY <2>3 DEF vars, IndexIsExact, Answered, Out
  <2> QED
    BY <2>1, <2>2, <2>3
<1>3. Inv => IndexIsExact
  OBVIOUS
<1> HIDE DEF Inv
<1> QED
  BY <1>1, <1>2, <1>3, PTL

-----------------------------------------------------------------------------
(* The arena of groups.                                                    *)

Refs == [ref : {"group", "record"}, at : Nat]
Entries == [start : Nat, end : Nat, depth : Nat, parent : Nat, children : Seq(Refs)]
Trees == [groups : Seq(Entries), roots : Seq(Nat), stack : Seq(Nat), offsets : Maps(Nat, Nat)]
Live == [kind : {"start"}, offset : Nat, end : Nat] \cup [kind : {"end", "record"}, offset : Nat]

\* The innermost open group.
Top(tree) == IF tree.stack = <<>> THEN 0 ELSE tree.stack[Len(tree.stack)]

\* One more child changes the children of the innermost open group alone.
LEMMA AdoptIs ==
    ASSUME NEW tree \in Trees, NEW child \in Refs, NEW groups, groups = Adopt(tree, child)
    PROVE  /\ groups \in Seq(Entries) /\ Len(groups) = Len(tree.groups)
           /\ \A g \in 1 .. Len(groups) :
                /\ groups[g].start = tree.groups[g].start /\ groups[g].end = tree.groups[g].end
                /\ groups[g].depth = tree.groups[g].depth /\ groups[g].parent = tree.groups[g].parent
                /\ groups[g].children =
                     IF g = Top(tree) THEN Append(tree.groups[g].children, child) ELSE tree.groups[g].children
<1> DEFINE L == Len(tree.groups)
           top == Top(tree)
<1>1. /\ tree.groups \in Seq(Entries) /\ L \in Nat /\ DOMAIN tree.groups = 1 .. L /\ tree.stack \in Seq(Nat)
      /\ \A g \in 1 .. L : tree.groups[g] \in Entries
  BY DEF Trees
<1>2. \A g \in 1 .. L : Append(tree.groups[g].children, child) \in Seq(Refs)
  <2> TAKE g \in 1 .. L
  <2>1. tree.groups[g].children \in Seq(Refs)
    BY <1>1 DEF Entries
  <2> QED
    BY <2>1
<1>3. CASE tree.stack = <<>>
  <2>1. groups = tree.groups /\ top = 0
    BY <1>3 DEF Adopt, Top
  <2> QED
    BY <1>1, <2>1
<1>4. CASE tree.stack # <<>>
  <2>1. top = Last(tree.stack)
    BY <1>4 DEF Top, Last
  <2>2. groups = [tree.groups EXCEPT ![top].children = Append(@, child)]
    BY <1>4, <2>1 DEF Adopt
  <2> HIDE DEF top
  <2>3. DOMAIN groups = 1 .. L
    BY <1>1, <2>2
  <2>4. \A g \in 1 .. L :
          groups[g] = IF g = top THEN [tree.groups[g] EXCEPT !.children = Append(tree.groups[g].children, child)]
                      ELSE tree.groups[g]
    BY <1>1, <2>2
  <2>5. \A g \in 1 .. L : groups[g] \in Entries
    <3> TAKE g \in 1 .. L
    <3> DEFINE old == tree.groups[g]
               all == Append(tree.groups[g].children, child)
    <3>1. old \in Entries /\ all \in Seq(Refs) /\ groups[g] = IF g = top THEN [old EXCEPT !.children = all] ELSE old
      BY <1>1, <1>2, <2>4
    <3> HIDE DEF old, all
    <3> QED
      BY <3>1 DEF Entries
  <2>6. groups \in Seq(Entries) /\ Len(groups) = L
    <3>1. groups \in [1 .. L -> Entries] /\ L \in Nat
      BY <1>1, <2>2, <2>5
    <3> HIDE DEF L
    <3> QED
      BY <3>1
  <2>7. \A g \in 1 .. L :
          /\ groups[g].start = tree.groups[g].start /\ groups[g].end = tree.groups[g].end
          /\ groups[g].depth = tree.groups[g].depth /\ groups[g].parent = tree.groups[g].parent
          /\ groups[g].children = IF g = top THEN Append(tree.groups[g].children, child) ELSE tree.groups[g].children
    BY <1>1, <2>4 DEF Entries
  <2> QED
    BY <2>6, <2>7 DEF top
<1> QED
  BY <1>3, <1>4

\* What an event makes of a tree.
LEMMA EnteredIs ==
    ASSUME NEW tree \in Trees, NEW event \in Live, event.kind = "start"
    PROVE  LET after == PushEvent(tree, event)
               idx == Len(tree.groups) + 1
               adopted == Adopt(tree, GroupRef(idx))
               entry == [start |-> event.offset, end |-> event.end, depth |-> Len(tree.stack), parent |-> Top(tree), children |-> <<>>]
           IN  /\ after \in Trees
               /\ after.groups = Append(adopted, entry)
               /\ after.roots = (IF tree.stack = <<>> THEN Append(tree.roots, idx) ELSE tree.roots)
               /\ after.stack = Append(tree.stack, idx)
               /\ after.offsets = Insert(tree.offsets, event.offset, idx)
<1> DEFINE idx == Len(tree.groups) + 1
           adopted == Adopt(tree, GroupRef(idx))
           entry == [start |-> event.offset, end |-> event.end, depth |-> Len(tree.stack), parent |-> Top(tree), children |-> <<>>]
           roots == IF tree.stack = <<>> THEN Append(tree.roots, idx) ELSE tree.roots
           after == PushEvent(tree, event)
<1>1. /\ tree.groups \in Seq(Entries) /\ tree.roots \in Seq(Nat) /\ tree.stack \in Seq(Nat) /\ tree.offsets \in Maps(Nat, Nat)
      /\ idx \in Nat /\ event.offset \in Nat /\ event.end \in Nat
  BY DEF Trees, Live
<1>2. GroupRef(idx) \in Refs
  BY <1>1 DEF GroupRef, Refs
<1>3. adopted \in Seq(Entries)
  BY <1>2, AdoptIs
<1>4. Top(tree) \in Nat /\ Len(tree.stack) \in Nat
  BY <1>1 DEF Top
<1>5. entry \in Entries
  <2>1. <<>> \in Seq(Refs)
    OBVIOUS
  <2> QED
    BY <1>1, <1>4, <2>1 DEF Entries
<1>6. Top(tree) = IF tree.stack = <<>> THEN 0 ELSE Last(tree.stack)
  BY DEF Top, Last
<1>7. after = [groups |-> Append(adopted, entry), roots |-> roots, stack |-> Append(tree.stack, idx),
               offsets |-> Insert(tree.offsets, event.offset, idx)]
  BY <1>6, Zenon DEF PushEvent, Entered, entry, adopted, roots, idx, after
<1>8. Insert(tree.offsets, event.offset, idx) \in Maps(Nat, Nat)
  BY <1>1, MapsGrow
<1> HIDE DEF adopted, entry, after
<1>9. Append(adopted, entry) \in Seq(Entries) /\ Append(tree.stack, idx) \in Seq(Nat) /\ roots \in Seq(Nat)
  BY <1>1, <1>3, <1>5
<1> HIDE DEF roots, idx
<1>10. after \in Trees
  BY <1>7, <1>8, <1>9 DEF Trees
<1> QED
  BY <1>7, <1>10 DEF adopted, entry, idx, roots, after

LEMMA MetIs ==
    ASSUME NEW tree \in Trees, NEW event \in Live, event.kind = "record"
    PROVE  LET after == PushEvent(tree, event)
           IN  /\ after \in Trees /\ after.groups = Adopt(tree, RecordRef(event.offset))
               /\ after.roots = tree.roots /\ after.stack = tree.stack /\ after.offsets = tree.offsets
<1>1. RecordRef(event.offset) \in Refs
  BY DEF RecordRef, Refs, Live
<1> DEFINE adopted == Adopt(tree, RecordRef(event.offset))
           after == PushEvent(tree, event)
<1>2. adopted \in Seq(Entries)
  BY <1>1, AdoptIs
<1>3. after = [tree EXCEPT !.groups = adopted]
  BY DEF PushEvent, Met
<1> HIDE DEF adopted, after
<1> QED
  BY <1>2, <1>3 DEF Trees, adopted, after

LEMMA LeftIs ==
    ASSUME NEW tree \in Trees, NEW event \in Live, event.kind = "end"
    PROVE  LET after == PushEvent(tree, event)
           IN  /\ after \in Trees /\ after.groups = tree.groups /\ after.roots = tree.roots /\ after.offsets = tree.offsets
               /\ tree.stack # <<>> => /\ Len(after.stack) = Len(tree.stack) - 1
                                       /\ \A a \in 1 .. Len(tree.stack) - 1 : after.stack[a] = tree.stack[a]
<1> DEFINE after == PushEvent(tree, event)
           front == Front(tree.stack)
<1>1. after = [tree EXCEPT !.stack = front]
  BY DEF PushEvent
<1>2. tree.stack \in Seq(Nat) /\ Len(tree.stack) \in Nat
  BY DEF Trees
<1>3. CASE tree.stack = <<>>
  <2>1. front = <<>> /\ <<>> \in Seq(Nat)
    BY <1>3 DEF Front
  <2> HIDE DEF front, after
  <2> QED
    BY <1>1, <1>3, <2>1 DEF Trees, after
<1>4. CASE tree.stack # <<>>
  <2>1. Len(tree.stack) - 1 \in Nat
    BY <1>2, <1>4
  <2>2. /\ front \in Seq(Nat) /\ Len(front) = Len(tree.stack) - 1
        /\ \A a \in 1 .. Len(tree.stack) - 1 : front[a] = tree.stack[a]
    BY <1>2, <2>1 DEF Front
  <2> HIDE DEF front, after
  <2> QED
    BY <1>1, <2>2 DEF Trees, after
<1> QED
  BY <1>3, <1>4

-----------------------------------------------------------------------------
(* What the arena holds after the first events of a walk.                  *)

\* The starts of a walk, in its order.
Enters(w, at, A) ==
    /\ A \in Nat /\ at \in [1 .. A -> Nat]
    /\ \A g \in 1 .. A : Starting(w, at[g])
    /\ \A g, h \in 1 .. A : g < h => at[g] < at[h]
    /\ \A i : Starting(w, i) => \E g \in 1 .. A : at[g] = i

\* A group is open at an event, and is the innermost of those.
Holds(w, i, k) == i < k /\ \A j : Closes(w, i, j) => ~(j < k)
InnerAt(w, at, A, k, p) ==
    /\ p \in 0 .. A
    /\ p # 0 => Holds(w, at[p], k)
    /\ \A h \in 1 .. A : Holds(w, at[h], k) => h <= p

HeldIf(s, r, c) == IF c THEN HeldOnce(s, r) ELSE NeverHeld(s, r)

Grouped(w, at, A, n, T) ==
    /\ \A g \in 1 .. A : g <= Len(T.groups) <=> at[g] <= n
    /\ Len(T.groups) <= A
    /\ \A g \in 1 .. Len(T.groups) :
         /\ T.groups[g].start = w[at[g]].offset /\ T.groups[g].end = w[at[g]].end
         /\ InnerAt(w, at, A, at[g], T.groups[g].parent)
         /\ T.groups[g].start \in DOMAIN T.offsets /\ T.offsets[T.groups[g].start] = g

Stacked(w, at, n, T) ==
    /\ \A a, b \in 1 .. Len(T.stack) : a < b => T.stack[a] < T.stack[b]
    /\ \A a \in 1 .. Len(T.stack) : T.stack[a] \in 1 .. Len(T.groups)
    /\ \A g \in 1 .. Len(T.groups) : Holds(w, at[g], n + 1) <=> \E a \in 1 .. Len(T.stack) : T.stack[a] = g

Rooted(T) ==
    /\ \A g \in 1 .. Len(T.groups) : HeldIf(T.roots, g, T.groups[g].parent = 0)
    /\ \A g \in Nat : g > Len(T.groups) => NeverHeld(T.roots, g)

GroupsFiled(T) ==
    /\ \A g, h \in 1 .. Len(T.groups) : HeldIf(T.groups[h].children, GroupRef(g), h = T.groups[g].parent)
    /\ \A h \in 1 .. Len(T.groups) : \A g \in Nat :
         g > Len(T.groups) => NeverHeld(T.groups[h].children, GroupRef(g))

RecordsFiled(w, at, A, n, T) ==
    \A k \in DOMAIN w : w[k].kind = "record" =>
        IF k <= n
        THEN \E p : /\ InnerAt(w, at, A, k, p)
                    /\ \A h \in 1 .. Len(T.groups) :
                         HeldIf(T.groups[h].children, RecordRef(w[k].offset), h = p)
        ELSE \A h \in 1 .. Len(T.groups) : NeverHeld(T.groups[h].children, RecordRef(w[k].offset))

TreeAt(w, at, A, n, T) ==
    /\ T \in Trees /\ Grouped(w, at, A, n, T) /\ Stacked(w, at, n, T) /\ Rooted(T)
    /\ GroupsFiled(T) /\ RecordsFiled(w, at, A, n, T)

\* The starts of a walk can be listed.
LEMMA EntersExist ==
    ASSUME NEW T, NEW w \in Seq(T)
    PROVE  \E at : \E A : Enters(w, at, A)
<1> DEFINE I == {i \in DOMAIN w : w[i].kind = "start"}
           at == Rising(I)
           A == Cardinality(I)
<1>1. A \in Nat /\ Picks(at, I)
  <2>1. I \in SUBSET DOMAIN w
    OBVIOUS
  <2> HIDE DEF I
  <2> QED
    BY <2>1, PickedIs
<1>2. \A i : i \in I <=> Starting(w, i)
  BY DEF Starting
<1>3. I \subseteq Nat
  OBVIOUS
<1> HIDE DEF I, at
<1>4. /\ at \in [1 .. A -> I] /\ I = {at[g] : g \in 1 .. A}
      /\ \A g, h \in 1 .. A : g < h => at[g] < at[h]
  BY <1>1 DEF Picks
<1> HIDE DEF A
<1>5. Enters(w, at, A)
  BY <1>1, <1>2, <1>3, <1>4 DEF Enters
<1> QED
  BY <1>5

\* What an element more does to what a list holds.
LEMMA GrownIs ==
    ASSUME NEW T, NEW s \in Seq(T), NEW x \in T
    PROVE  /\ Append(s, x) \in Seq(T)
           /\ \A r, c : r # x /\ HeldIf(s, r, c) => HeldIf(Append(s, x), r, c)
           /\ NeverHeld(s, x) => HeldIf(Append(s, x), x, TRUE)
<1>1. Append(s, x) = s \o <<x>>
  OBVIOUS
<1> DEFINE u == s \o <<x>>
<1>2. u \in Seq(T)
  BY AppendedIs
<1>3. \A r : /\ r # x /\ HeldOnce(s, r) => HeldOnce(u, r)
             /\ r # x /\ NeverHeld(s, r) => NeverHeld(u, r)
  BY AppendedIs
<1>4. NeverHeld(s, x) => HeldOnce(u, x)
  BY AppendedIs
<1> HIDE DEF u
<1> QED
  BY <1>1, <1>2, <1>3, <1>4 DEF HeldIf, u

\* What the children of the groups hold once one of them has another.
LEMMA AdoptedHolds ==
    ASSUME NEW T \in Trees, NEW child \in Refs, NEW groups, groups = Adopt(T, child)
    PROVE  /\ \A h \in 1 .. Len(T.groups) : \A r, c :
                r # child /\ HeldIf(T.groups[h].children, r, c) => HeldIf(groups[h].children, r, c)
           /\ (\A h \in 1 .. Len(T.groups) : NeverHeld(T.groups[h].children, child)) =>
                \A h \in 1 .. Len(T.groups) : HeldIf(groups[h].children, child, h = Top(T))
<1>1. /\ Len(groups) = Len(T.groups)
      /\ \A g \in 1 .. Len(groups) :
           groups[g].children = IF g = Top(T) THEN Append(T.groups[g].children, child) ELSE T.groups[g].children
  BY AdoptIs
<1>2. \A h \in 1 .. Len(T.groups) : T.groups[h].children \in Seq(Refs)
  <2>1. \A h \in 1 .. Len(T.groups) : T.groups[h] \in Entries
    BY DEF Trees
  <2> QED
    BY <2>1 DEF Entries
<1>3. ASSUME NEW h \in 1 .. Len(T.groups), NEW r, NEW c, r # child, HeldIf(T.groups[h].children, r, c)
      PROVE  HeldIf(groups[h].children, r, c)
  <2>1. HeldIf(Append(T.groups[h].children, child), r, c)
    BY <1>2, <1>3, GrownIs
  <2> QED
    BY <1>1, <1>3, <2>1
<1>4. ASSUME NEW h \in 1 .. Len(T.groups), NeverHeld(T.groups[h].children, child)
      PROVE  HeldIf(groups[h].children, child, h = Top(T))
  <2>1. HeldIf(Append(T.groups[h].children, child), child, TRUE)
    BY <1>2, <1>4, GrownIs
  <2>2. h = Top(T) => HeldOnce(groups[h].children, child)
    BY <1>1, <2>1 DEF HeldIf
  <2>3. h # Top(T) => NeverHeld(groups[h].children, child)
    BY <1>1, <1>4
  <2> QED
    BY <2>2, <2>3 DEF HeldIf
<1> QED
  BY <1>3, <1>4

LEMMA RefsDiffer ==
    \A a, b : /\ GroupRef(a) # RecordRef(b)
              /\ a # b => GroupRef(a) # GroupRef(b) /\ RecordRef(a) # RecordRef(b)
BY DEF GroupRef, RecordRef

\* The top of the stack is the innermost open group.
LEMMA TopIs ==
    ASSUME NEW w, NEW at, NEW A, Enters(w, at, A), NEW n \in Nat, NEW T, TreeAt(w, at, A, n, T)
    PROVE  InnerAt(w, at, A, n + 1, Top(T))
<1> DEFINE S == Len(T.stack)
           G == Len(T.groups)
<1>1. T.stack \in Seq(Nat) /\ T.groups \in Seq(Entries) /\ S \in Nat /\ G \in Nat /\ G <= A /\ A \in Nat
  BY DEF TreeAt, Trees, Grouped, Enters
<1>2. \A h \in 1 .. A : Holds(w, at[h], n + 1) => h \in 1 .. G
  <2>1. \A h \in 1 .. A : at[h] \in Nat /\ (h <= G <=> at[h] <= n)
    BY DEF TreeAt, Grouped, Enters
  <2> QED
    BY <1>1, <2>1 DEF Holds
<1>3. /\ \A a, b \in 1 .. S : a < b => T.stack[a] < T.stack[b]
      /\ \A a \in 1 .. S : T.stack[a] \in 1 .. G
      /\ \A g \in 1 .. G : Holds(w, at[g], n + 1) <=> \E a \in 1 .. S : T.stack[a] = g
  BY DEF TreeAt, Stacked
<1>4. CASE S = 0
  <2>1. Top(T) = 0
    BY <1>1, <1>4 DEF Top
  <2> QED
    BY <1>1, <1>2, <1>3, <1>4, <2>1 DEF InnerAt
<1>5. CASE S # 0
  <2>1. Top(T) = T.stack[S] /\ S \in 1 .. S
    BY <1>1, <1>5 DEF Top
  <2>2. \A a \in 1 .. S : T.stack[a] <= T.stack[S]
    <3> TAKE a \in 1 .. S
    <3>1. a = S \/ a < S
      BY <1>1
    <3>2. T.stack[a] \in Nat /\ T.stack[S] \in Nat
      BY <1>1, <2>1
    <3> QED
      BY <1>3, <2>1, <3>1, <3>2
  <2>3. T.stack[S] \in 1 .. G /\ Holds(w, at[T.stack[S]], n + 1)
    BY <1>3, <2>1
  <2>4. ASSUME NEW h \in 1 .. A, Holds(w, at[h], n + 1) PROVE h <= T.stack[S]
    <3>1. PICK a \in 1 .. S : T.stack[a] = h
      BY <1>2, <1>3, <2>4
    <3> QED
      BY <2>2, <3>1
  <2> HIDE DEF S, G
  <2>5. T.stack[S] \in 0 .. A
    BY <1>1, <2>3
  <2> QED
    BY <2>1, <2>3, <2>4, <2>5 DEF InnerAt
<1> QED
  BY <1>4, <1>5

\* An event that opens or is a record closes no group.
LEMMA OpenStays ==
    ASSUME NEW S, NEW w \in Seq(S), NEW n \in Nat, Opening(w, n), NEW i \in Nat
    PROVE  Holds(w, i, n + 1) <=> Holds(w, i, n) \/ i = n
<1>1. \A j : Closes(w, i, j) => i < j /\ j # n /\ j \in Nat
  BY DEF Closes, Opening, Ending
<1>2. \A j \in Nat : j # n => (j < n + 1 <=> j < n)
  OBVIOUS
<1>3. i < n + 1 <=> i < n \/ i = n
  OBVIOUS
<1>4. \A j \in Nat : n < j => ~(j < n + 1)
  OBVIOUS
<1>5. CASE i = n
  <2>1. \A j : Closes(w, i, j) => ~(j < n + 1)
    BY <1>1, <1>4, <1>5
  <2> QED
    BY <1>3, <1>5, <2>1 DEF Holds
<1>6. CASE i # n
  BY <1>1, <1>2, <1>3, <1>6 DEF Holds
<1> QED
  BY <1>5, <1>6

\* Two events that open are of two offsets.
LEMMA OpeningsDiffer ==
    ASSUME NEW file, NEW w, NEW lo, NEW hi, Nests(file, w, lo, hi),
           NEW i \in Nat, NEW k \in Nat, Opening(w, i), Opening(w, k), i # k
    PROVE  w[i].offset # w[k].offset
<1>1. /\ w[i].offset \in Nat /\ w[k].offset \in Nat
      /\ i < k => w[i].offset < w[k].offset
      /\ k < i => w[k].offset < w[i].offset
  BY DEF Nests, Placed
<1> QED
  BY <1>1

\* A record is filed under the innermost open group.
LEMMA RecordStep ==
    ASSUME NEW file, NEW w \in Seq(Live), NEW lo, NEW hi, Nests(file, w, lo, hi),
           NEW at, NEW A, Enters(w, at, A), NEW n \in 1 .. Len(w), w[n].kind = "record",
           NEW T, TreeAt(w, at, A, n - 1, T)
    PROVE  TreeAt(w, at, A, n, PushEvent(T, w[n]))
<1> DEFINE U == PushEvent(T, w[n])
           child == RecordRef(w[n].offset)
           G == Len(T.groups)
<1>1. /\ n \in Nat /\ n - 1 \in Nat /\ (n - 1) + 1 = n /\ DOMAIN w = 1 .. Len(w) /\ w[n] \in Live
      /\ Opening(w, n) /\ T \in Trees /\ G \in Nat
  BY DEF TreeAt, Opening, Trees
<1>2. U \in Trees /\ U.groups = Adopt(T, child) /\ U.roots = T.roots /\ U.stack = T.stack /\ U.offsets = T.offsets
  BY <1>1, MetIs
<1>3. child \in Refs
  BY <1>1 DEF child, RecordRef, Refs, Live
<1>4. /\ Len(U.groups) = G
      /\ \A g \in 1 .. G : /\ U.groups[g].start = T.groups[g].start /\ U.groups[g].end = T.groups[g].end
                           /\ U.groups[g].parent = T.groups[g].parent
  BY <1>1, <1>2, <1>3, AdoptIs
<1>5. /\ \A h \in 1 .. G : \A r, c :
           r # child /\ HeldIf(T.groups[h].children, r, c) => HeldIf(U.groups[h].children, r, c)
      /\ (\A h \in 1 .. G : NeverHeld(T.groups[h].children, child)) =>
           \A h \in 1 .. G : HeldIf(U.groups[h].children, child, h = Top(T))
  BY <1>1, <1>2, <1>3, AdoptedHolds
<1>6. InnerAt(w, at, A, n, Top(T))
  BY <1>1, TopIs
<1>7. \A g \in 1 .. A : at[g] \in Nat /\ at[g] # n /\ (at[g] <= n - 1 <=> at[g] <= n)
  <2> TAKE g \in 1 .. A
  <2>1. at[g] \in Nat /\ w[at[g]].kind = "start"
    BY DEF Enters, Starting
  <2> QED
    BY <1>1, <2>1
<1>8. A \in Nat /\ G <= A
  BY DEF TreeAt, Grouped, Enters
<1>9. Grouped(w, at, A, n, T)
  BY <1>7 DEF TreeAt, Grouped
<1> HIDE DEF U, child
<1>10. Grouped(w, at, A, n, U)
  <2> HIDE DEF G
  <2>1. /\ \A g \in 1 .. A : g <= Len(U.groups) <=> at[g] <= n
        /\ Len(U.groups) <= A
    BY <1>4, <1>9 DEF Grouped, G
  <2>2. ASSUME NEW g \in 1 .. Len(U.groups)
        PROVE  /\ U.groups[g].start = w[at[g]].offset /\ U.groups[g].end = w[at[g]].end
               /\ InnerAt(w, at, A, at[g], U.groups[g].parent)
               /\ U.groups[g].start \in DOMAIN U.offsets /\ U.offsets[U.groups[g].start] = g
    <3>1. /\ T.groups[g].start = w[at[g]].offset /\ T.groups[g].end = w[at[g]].end
          /\ InnerAt(w, at, A, at[g], T.groups[g].parent)
          /\ T.groups[g].start \in DOMAIN T.offsets /\ T.offsets[T.groups[g].start] = g
      BY <1>4, <1>9 DEF Grouped, G
    <3> QED
      BY <1>2, <1>4, <3>1
  <2> QED
    BY <2>1, <2>2 DEF Grouped
<1>11. Stacked(w, at, n, U)
  <2>1. \A g \in 1 .. G : Holds(w, at[g], n + 1) <=> Holds(w, at[g], (n - 1) + 1)
    <3> TAKE g \in 1 .. G
    <3>1. at[g] \in Nat /\ at[g] # n
      BY <1>1, <1>7, <1>8
    <3> QED
      BY <1>1, <3>1, OpenStays
  <2>2. Stacked(w, at, n - 1, T)
    BY DEF TreeAt
  <2> HIDE DEF G
  <2>3. \A g \in 1 .. G : Holds(w, at[g], (n - 1) + 1) <=> \E a \in 1 .. Len(U.stack) : U.stack[a] = g
    BY <1>2, <2>2 DEF Stacked, G
  <2>4. /\ \A a, b \in 1 .. Len(U.stack) : a < b => U.stack[a] < U.stack[b]
        /\ \A a \in 1 .. Len(U.stack) : U.stack[a] \in 1 .. G
    BY <1>2, <2>2 DEF Stacked, G
  <2> QED
    BY <1>4, <2>1, <2>3, <2>4 DEF Stacked
<1>12. Rooted(U)
  BY <1>2, <1>4 DEF TreeAt, Rooted
<1>13. GroupsFiled(U)
  <2>1. /\ \A g, h \in 1 .. G : HeldIf(T.groups[h].children, GroupRef(g), h = T.groups[g].parent)
        /\ \A h \in 1 .. G : \A g \in Nat : g > G => HeldIf(T.groups[h].children, GroupRef(g), FALSE)
    BY DEF TreeAt, GroupsFiled, HeldIf
  <2>2. \A g : GroupRef(g) # child
    BY RefsDiffer DEF child
  <2>3. /\ \A g, h \in 1 .. G : HeldIf(U.groups[h].children, GroupRef(g), h = U.groups[g].parent)
        /\ \A h \in 1 .. G : \A g \in Nat : g > G => HeldIf(U.groups[h].children, GroupRef(g), FALSE)
    <3> HIDE DEF G
    <3>1. ASSUME NEW g \in 1 .. G, NEW h \in 1 .. G
          PROVE  HeldIf(U.groups[h].children, GroupRef(g), h = U.groups[g].parent)
      <4>1. HeldIf(T.groups[h].children, GroupRef(g), h = T.groups[g].parent)
        BY <2>1
      <4>2. HeldIf(U.groups[h].children, GroupRef(g), h = T.groups[g].parent)
        BY <1>5, <2>2, <4>1
      <4> QED
        BY <1>4, <4>2
    <3>2. ASSUME NEW h \in 1 .. G, NEW g \in Nat, g > G
          PROVE  HeldIf(U.groups[h].children, GroupRef(g), FALSE)
      <4>1. HeldIf(T.groups[h].children, GroupRef(g), FALSE)
        BY <2>1, <3>2
      <4> QED
        BY <1>5, <2>2, <4>1
    <3> QED
      BY <3>1, <3>2
  <2> QED
    BY <1>4, <2>3 DEF GroupsFiled, HeldIf
<1>14. RecordsFiled(w, at, A, n, U)
  <2>0. RecordsFiled(w, at, A, n - 1, T)
    BY DEF TreeAt
  <2> SUFFICES ASSUME NEW k \in DOMAIN w, w[k].kind = "record"
               PROVE  IF k <= n
                      THEN \E p : /\ InnerAt(w, at, A, k, p)
                                  /\ \A h \in 1 .. G : HeldIf(U.groups[h].children, RecordRef(w[k].offset), h = p)
                      ELSE \A h \in 1 .. G : NeverHeld(U.groups[h].children, RecordRef(w[k].offset))
    BY <1>4 DEF RecordsFiled
  <2>1. IF k <= n - 1
        THEN \E p : /\ InnerAt(w, at, A, k, p)
                    /\ \A h \in 1 .. G : HeldIf(T.groups[h].children, RecordRef(w[k].offset), h = p)
        ELSE \A h \in 1 .. G : HeldIf(T.groups[h].children, RecordRef(w[k].offset), FALSE)
    BY <2>0 DEF RecordsFiled, HeldIf
  <2>2. k \in Nat
    BY <1>1
  <2>3. CASE k = n
    <3>1. \A h \in 1 .. G : NeverHeld(T.groups[h].children, child)
      BY <1>1, <2>1, <2>3 DEF HeldIf, child
    <3>2. \A h \in 1 .. G : HeldIf(U.groups[h].children, child, h = Top(T))
      BY <1>5, <3>1
    <3>3. k <= n
      BY <2>2, <2>3
    <3> QED
      BY <1>6, <2>3, <3>2, <3>3 DEF child
  <2>4. CASE k # n
    <3>1. RecordRef(w[k].offset) # child
      <4>1. w[k].offset # w[n].offset
        <5>1. Opening(w, k)
          BY <1>1 DEF Opening
        <5> QED
          BY <1>1, <2>2, <2>4, <5>1, OpeningsDiffer
      <4> QED
        BY <4>1, RefsDiffer DEF child
    <3>2. k <= n <=> k <= n - 1
      BY <1>1, <2>2, <2>4
    <3>3. \A h \in 1 .. G : \A c :
            HeldIf(T.groups[h].children, RecordRef(w[k].offset), c) => HeldIf(U.groups[h].children, RecordRef(w[k].offset), c)
      BY <1>5, <3>1
    <3>4. CASE k <= n - 1
      <4>1. PICK p : /\ InnerAt(w, at, A, k, p)
                     /\ \A h \in 1 .. G : HeldIf(T.groups[h].children, RecordRef(w[k].offset), h = p)
        BY <2>1, <3>4
      <4>2. \A h \in 1 .. G : HeldIf(U.groups[h].children, RecordRef(w[k].offset), h = p)
        BY <3>3, <4>1
      <4> QED
        BY <3>2, <3>4, <4>1, <4>2
    <3>5. CASE ~(k <= n - 1)
      <4>1. \A h \in 1 .. G : HeldIf(U.groups[h].children, RecordRef(w[k].offset), FALSE)
        BY <2>1, <3>3, <3>5
      <4> QED
        BY <3>2, <3>5, <4>1 DEF HeldIf
    <3> QED
      BY <3>4, <3>5
  <2> QED
    BY <2>3, <2>4
<1> QED
  BY <1>2, <1>10, <1>11, <1>12, <1>13, <1>14 DEF TreeAt, U

\* The group an end event ends is the innermost open one.
LEMMA EndedIsTop ==
    ASSUME NEW file, NEW S, NEW w \in Seq(S), NEW lo, NEW hi, Nests(file, w, lo, hi),
           NEW at, NEW A, Enters(w, at, A), NEW n \in 1 .. Len(w), Ending(w, n),
           NEW p, InnerAt(w, at, A, n, p)
    PROVE  p # 0 /\ \A g \in 1 .. A : Closes(w, at[g], n) <=> g = p
<1>1. /\ n \in Nat /\ A \in Nat /\ p \in 0 .. A /\ DOMAIN w = 1 .. Len(w)
      /\ \A g \in 1 .. A : at[g] \in Nat /\ Starting(w, at[g]) /\ Opening(w, at[g])
      /\ \A g, h \in 1 .. A : g < h => at[g] < at[h]
  BY DEF Enters, InnerAt, Opening, Starting
<1>2. Matched(w) /\ Bounded(w)
  BY DEF Nests
<1>3. PICK g \in 1 .. A : Closes(w, at[g], n)
  <2>1. PICK i : Closes(w, i, n)
    BY <1>2 DEF Matched
  <2>2. Starting(w, i)
    BY <2>1 DEF Closes
  <2> QED
    BY <2>1, <2>2 DEF Enters
<1>4. at[g] < n /\ w[at[g]].offset = w[n].offset
  BY <1>3 DEF Closes
<1>5. \A j : Ending(w, j) => j \in Nat
  BY DEF Ending
<1>6. Holds(w, at[g], n)
  <2>1. ASSUME NEW j, Closes(w, at[g], j) PROVE ~(j < n)
    <3>1. Ending(w, j) /\ w[at[g]].offset = w[j].offset
      BY <2>1 DEF Closes
    <3>2. j = n
      BY <1>2, <1>4, <3>1 DEF Matched
    <3> QED
      BY <1>1, <3>2
  <2> QED
    BY <1>4, <2>1 DEF Holds
<1>7. g <= p /\ p \in 1 .. A
  BY <1>1, <1>6 DEF InnerAt
<1>8. ASSUME p # g PROVE FALSE
  <2>1. at[g] < at[p] /\ at[p] \in Nat /\ at[g] \in Nat /\ Holds(w, at[p], n) /\ at[p] < n
    BY <1>1, <1>7, <1>8 DEF InnerAt, Holds
  <2>2. PICK l : Closes(w, at[p], l)
    BY <1>1, <1>2, <1>7 DEF Matched
  <2>3. Ending(w, l) /\ ~(l < n) /\ w[at[p]].offset = w[l].offset /\ l \in Nat
    BY <1>5, <2>1, <2>2 DEF Closes, Holds
  <2>4. w[at[p]].offset # w[at[g]].offset
    <3>1. at[p] # at[g] /\ Opening(w, at[p]) /\ Opening(w, at[g])
      BY <1>1, <1>7, <2>1
    <3> QED
      BY <2>1, <3>1, OpeningsDiffer
  <2>5. l # n
    BY <1>4, <2>3, <2>4
  <2>6. l < n
    BY <1>2, <1>3, <2>1, <2>2 DEF Bounded
  <2> QED
    BY <2>3, <2>6
<1>9. ASSUME NEW h \in 1 .. A, Closes(w, at[h], n) PROVE h = p
  <2>1. w[at[h]].offset = w[at[g]].offset
    BY <1>4, <1>9 DEF Closes
  <2>2. at[h] = at[g]
    <3>1. at[h] \in Nat /\ at[g] \in Nat /\ Opening(w, at[h]) /\ Opening(w, at[g])
      BY <1>1
    <3> QED
      BY <2>1, <3>1, OpeningsDiffer
  <2>3. h = g \/ h < g \/ g < h
    BY <1>1
  <2>4. h = g
    BY <1>1, <2>2, <2>3
  <2> QED
    BY <1>8, <2>4
<1> QED
  BY <1>3, <1>7, <1>8, <1>9

\* An end event takes the group it ends from the stack.
LEMMA EndStep ==
    ASSUME NEW file, NEW w \in Seq(Live), NEW lo, NEW hi, Nests(file, w, lo, hi),
           NEW at, NEW A, Enters(w, at, A), NEW n \in 1 .. Len(w), w[n].kind = "end",
           NEW T, TreeAt(w, at, A, n - 1, T)
    PROVE  TreeAt(w, at, A, n, PushEvent(T, w[n]))
<1> DEFINE U == PushEvent(T, w[n])
           G == Len(T.groups)
           S == Len(T.stack)
           p == Top(T)
<1>1. /\ n \in Nat /\ n - 1 \in Nat /\ (n - 1) + 1 = n /\ DOMAIN w = 1 .. Len(w) /\ w[n] \in Live
      /\ Ending(w, n) /\ T \in Trees /\ G \in Nat /\ S \in Nat /\ T.stack \in Seq(Nat)
  BY DEF TreeAt, Ending, Trees
<1>2. /\ U \in Trees /\ U.groups = T.groups /\ U.roots = T.roots /\ U.offsets = T.offsets
      /\ T.stack # <<>> => /\ Len(U.stack) = S - 1
                           /\ \A a \in 1 .. S - 1 : U.stack[a] = T.stack[a]
  BY <1>1, LeftIs
<1>3. InnerAt(w, at, A, n, p)
  BY <1>1, TopIs
<1>4. p # 0 /\ \A g \in 1 .. A : Closes(w, at[g], n) <=> g = p
  BY <1>1, <1>3, EndedIsTop
<1>5. S # 0 /\ p = T.stack[S] /\ S \in 1 .. S
  BY <1>1, <1>4 DEF Top
<1>6. \A g \in 1 .. A : at[g] \in Nat /\ at[g] # n /\ (at[g] <= n - 1 <=> at[g] <= n)
  <2> TAKE g \in 1 .. A
  <2>1. at[g] \in Nat /\ w[at[g]].kind = "start"
    BY DEF Enters, Starting
  <2> QED
    BY <1>1, <2>1
<1>7. A \in Nat /\ G <= A
  BY DEF TreeAt, Grouped, Enters
<1>8. Grouped(w, at, A, n, U)
  BY <1>2, <1>6 DEF TreeAt, Grouped
<1>9. Len(U.stack) = S - 1 /\ \A a \in 1 .. S - 1 : U.stack[a] = T.stack[a]
  BY <1>2, <1>5
<1>10. Stacked(w, at, n - 1, T)
  BY DEF TreeAt
<1>11. \A g \in 1 .. G : Holds(w, at[g], n + 1) <=> Holds(w, at[g], n) /\ g # p
  <2> TAKE g \in 1 .. G
  <2>1. at[g] \in Nat /\ at[g] <= n - 1 /\ g \in 1 .. A
    BY <1>6, <1>7 DEF TreeAt, Grouped
  <2>2. at[g] < n /\ at[g] < n + 1
    BY <1>1, <2>1
  <2>3. \A j : Closes(w, at[g], j) => j \in Nat
    BY DEF Closes, Ending
  <2>4. \A j \in Nat : j < n + 1 <=> j < n \/ j = n
    BY <1>1
  <2>5. Closes(w, at[g], n) <=> g = p
    BY <1>4, <2>1
  <2> HIDE DEF p
  <2> QED
    BY <2>2, <2>3, <2>4, <2>5 DEF Holds
<1> HIDE DEF U, G, S, p
<1>12. Stacked(w, at, n, U)
  <2>1. /\ \A a, b \in 1 .. S : a < b => T.stack[a] < T.stack[b]
        /\ \A a \in 1 .. S : T.stack[a] \in 1 .. G
        /\ \A g \in 1 .. G : Holds(w, at[g], n) <=> \E a \in 1 .. S : T.stack[a] = g
    BY <1>1, <1>10 DEF Stacked, G, S
  <2>2. \A a \in 1 .. S : a \in 1 .. S - 1 \/ a = S
    BY <1>1
  <2>3. \A a \in 1 .. S - 1 : a \in 1 .. S /\ a < S /\ T.stack[a] # p
    <3> TAKE a \in 1 .. S - 1
    <3>1. a \in 1 .. S /\ a < S
      BY <1>1
    <3>2. T.stack[a] < T.stack[S] /\ T.stack[a] \in 1 .. G /\ T.stack[S] \in 1 .. G
      BY <1>5, <2>1, <3>1
    <3>3. T.stack[a] < p /\ T.stack[a] \in Nat /\ p \in Nat
      BY <1>5, <3>2
    <3> QED
      BY <3>1, <3>3
  <2>4. \A g \in 1 .. G : (\E a \in 1 .. S - 1 : U.stack[a] = g) <=> (\E a \in 1 .. S : T.stack[a] = g) /\ g # p
    BY <1>5, <1>9, <2>2, <2>3
  <2>5. /\ \A a, b \in 1 .. S - 1 : a < b => U.stack[a] < U.stack[b]
        /\ \A a \in 1 .. S - 1 : U.stack[a] \in 1 .. G
    BY <1>9, <2>1, <2>3
  <2> QED
    BY <1>2, <1>9, <1>11, <2>1, <2>4, <2>5 DEF Stacked, G
<1>13. Rooted(U) /\ GroupsFiled(U)
  BY <1>2 DEF TreeAt, Rooted, GroupsFiled
<1>14. RecordsFiled(w, at, A, n, U)
  <2>1. \A k \in DOMAIN w : w[k].kind = "record" => (k <= n <=> k <= n - 1)
    <3> TAKE k \in DOMAIN w
    <3> HAVE w[k].kind = "record"
    <3>1. k \in Nat /\ k # n
      BY <1>1
    <3> QED
      BY <1>1, <3>1
  <2>2. RecordsFiled(w, at, A, n - 1, T)
    BY DEF TreeAt
  <2> QED
    BY <1>2, <2>1, <2>2 DEF RecordsFiled
<1> QED
  BY <1>2, <1>8, <1>12, <1>13, <1>14 DEF TreeAt, U

\* A start event enters a group under the innermost open one.
LEMMA StartStep ==
    ASSUME NEW file, NEW w \in Seq(Live), NEW lo, NEW hi, Nests(file, w, lo, hi),
           NEW at, NEW A, Enters(w, at, A), NEW n \in 1 .. Len(w), w[n].kind = "start",
           NEW T, TreeAt(w, at, A, n - 1, T)
    PROVE  TreeAt(w, at, A, n, PushEvent(T, w[n]))
<1> DEFINE U == PushEvent(T, w[n])
           G == Len(T.groups)
           idx == G + 1
           child == GroupRef(idx)
           groups == Adopt(T, child)
           event == w[n]
           p == Top(T)
           entry == [start |-> event.offset, end |-> event.end, depth |-> Len(T.stack), parent |-> p, children |-> <<>>]
<1>1. /\ n \in Nat /\ n - 1 \in Nat /\ (n - 1) + 1 = n /\ DOMAIN w = 1 .. Len(w) /\ event \in Live
      /\ Opening(w, n) /\ Starting(w, n) /\ T \in Trees /\ G \in Nat /\ idx \in Nat
      /\ T.groups \in Seq(Entries) /\ T.roots \in Seq(Nat) /\ T.stack \in Seq(Nat)
  BY DEF TreeAt, Opening, Starting, Trees
<1>2. /\ U \in Trees /\ U.groups = Append(groups, entry)
      /\ U.roots = (IF T.stack = <<>> THEN Append(T.roots, idx) ELSE T.roots)
      /\ U.stack = Append(T.stack, idx) /\ U.offsets = Insert(T.offsets, event.offset, idx)
  BY <1>1, EnteredIs
<1>3. child \in Refs
  BY <1>1 DEF GroupRef, Refs
<1>4. /\ groups \in Seq(Entries) /\ Len(groups) = G
      /\ \A g \in 1 .. G : /\ groups[g].start = T.groups[g].start /\ groups[g].end = T.groups[g].end
                           /\ groups[g].parent = T.groups[g].parent
  <2>1. groups = Adopt(T, child)
    OBVIOUS
  <2> HIDE DEF groups, child
  <2>2. /\ groups \in Seq(Entries) /\ Len(groups) = Len(T.groups)
        /\ \A g \in 1 .. Len(groups) : /\ groups[g].start = T.groups[g].start /\ groups[g].end = T.groups[g].end
                                      /\ groups[g].parent = T.groups[g].parent
    <3>1. T \in Trees
      BY <1>1
    <3> QED
      BY <1>3, <2>1, <3>1, AdoptIs
  <2> QED
    BY <2>2
<1>5. /\ \A h \in 1 .. G : \A r, c :
           r # child /\ HeldIf(T.groups[h].children, r, c) => HeldIf(groups[h].children, r, c)
      /\ (\A h \in 1 .. G : NeverHeld(T.groups[h].children, child)) =>
           \A h \in 1 .. G : HeldIf(groups[h].children, child, h = p)
  BY <1>1, <1>3, AdoptedHolds
<1>6. InnerAt(w, at, A, n, p)
  BY <1>1, TopIs
<1>7. /\ A \in Nat /\ G <= A /\ Grouped(w, at, A, n - 1, T) /\ Stacked(w, at, n - 1, T)
      /\ Rooted(T) /\ GroupsFiled(T) /\ RecordsFiled(w, at, A, n - 1, T)
      /\ \A g \in 1 .. A : at[g] \in Nat /\ Starting(w, at[g]) /\ Opening(w, at[g]) /\ (g <= G <=> at[g] <= n - 1)
  BY DEF TreeAt, Grouped, Enters, Opening, Starting
<1> HIDE DEF U, child, groups, entry, event, p
<1>8. idx \in 1 .. A /\ at[idx] = n
  <2>1. PICK g \in 1 .. A : at[g] = n
    BY <1>1 DEF Enters
  <2>2. ~(g <= G)
    BY <1>1, <1>7, <2>1
  <2>3. ASSUME g # idx PROVE FALSE
    <3>1. idx \in 1 .. A /\ idx < g
      BY <1>1, <1>7, <2>2, <2>3
    <3>2. at[idx] < n /\ at[idx] \in Nat
      BY <1>7, <2>1, <3>1 DEF Enters
    <3>3. idx <= G
      BY <1>1, <1>7, <3>1, <3>2
    <3> QED
      BY <1>1, <3>3
  <2> QED
    BY <2>1, <2>3
<1>9. /\ Len(U.groups) = idx /\ U.groups[idx] = entry
      /\ \A g \in 1 .. G : U.groups[g] = groups[g] /\ g \in 1 .. idx /\ g # idx /\ g \in 1 .. A
      /\ \A g \in 1 .. idx : g \in 1 .. G \/ g = idx
  <2>1. entry \in Entries
    BY <1>1, <1>6 DEF InnerAt, Entries, entry, event, Live
  <2> QED
    BY <1>1, <1>2, <1>4, <1>7, <2>1
<1>10. /\ entry.start = event.offset /\ entry.end = event.end /\ entry.parent = p /\ entry.children = <<>>
  BY DEF entry
<1>11. \A k \in Nat : \A q : k <= n /\ InnerAt(w, at, A, k, q) => q # idx
  <2> SUFFICES ASSUME NEW k \in Nat, k <= n, InnerAt(w, at, A, k, idx) PROVE FALSE
    OBVIOUS
  <2>1. n < k
    BY <1>1, <1>8 DEF InnerAt, Holds
  <2> QED
    BY <1>1, <2>1
<1>12. \A g \in 1 .. G : at[g] \in Nat /\ at[g] <= n - 1 /\ at[g] # n /\ at[g] <= n
  <2> TAKE g \in 1 .. G
  <2>1. g <= G /\ g \in 1 .. A
    BY <1>1, <1>9
  <2>2. at[g] \in Nat /\ at[g] <= n - 1
    BY <1>7, <2>1
  <2> QED
    BY <1>1, <2>2
<1> HIDE DEF G, idx
<1>13. Grouped(w, at, A, n, U)
  <2>1. \A g \in 1 .. A : g <= idx <=> at[g] <= n
    <3> TAKE g \in 1 .. A
    <3>1. g <= idx => g \in 1 .. G \/ g = idx
      BY <1>1, <1>7, <1>9 DEF idx
    <3>2. ~(g <= idx) => idx < g
      BY <1>1
    <3>3. idx < g => n < at[g]
      BY <1>8 DEF Enters
    <3> QED
      BY <1>1, <1>7, <1>8, <1>12, <3>1, <3>2, <3>3
  <2>2. idx <= A
    BY <1>7, <1>8
  <2>3. \E D : T.offsets \in [D -> Nat]
    BY <1>1 DEF Trees, Maps
  <2>4. event.offset \in DOMAIN U.offsets /\ U.offsets[event.offset] = idx
    BY <1>2, <2>3 DEF Insert
  <2>5. ASSUME NEW g \in 1 .. G
        PROVE  /\ U.groups[g].start = w[at[g]].offset /\ U.groups[g].end = w[at[g]].end
               /\ InnerAt(w, at, A, at[g], U.groups[g].parent)
               /\ U.groups[g].start \in DOMAIN U.offsets /\ U.offsets[U.groups[g].start] = g
    <3>1. /\ T.groups[g].start = w[at[g]].offset /\ T.groups[g].end = w[at[g]].end
          /\ InnerAt(w, at, A, at[g], T.groups[g].parent)
          /\ T.groups[g].start \in DOMAIN T.offsets /\ T.offsets[T.groups[g].start] = g
      BY <1>7 DEF Grouped, G
    <3>2. w[at[g]].offset # event.offset
      <4>1. at[g] \in Nat /\ at[g] # n /\ Opening(w, at[g]) /\ Opening(w, n)
        BY <1>1, <1>7, <1>9, <1>12
      <4> QED
        BY <1>1, <4>1, OpeningsDiffer DEF event
    <3>3. T.groups[g].start \in DOMAIN U.offsets /\ U.offsets[T.groups[g].start] = g
      BY <1>2, <2>3, <3>1, <3>2 DEF Insert
    <3> QED
      BY <1>4, <1>9, <3>1, <3>3
  <2>6. /\ U.groups[idx].start = w[at[idx]].offset /\ U.groups[idx].end = w[at[idx]].end
        /\ InnerAt(w, at, A, at[idx], U.groups[idx].parent)
        /\ U.groups[idx].start \in DOMAIN U.offsets /\ U.offsets[U.groups[idx].start] = idx
    BY <1>6, <1>8, <1>9, <1>10, <2>4 DEF event
  <2>7. \A g \in 1 .. idx :
               /\ U.groups[g].start = w[at[g]].offset /\ U.groups[g].end = w[at[g]].end
               /\ InnerAt(w, at, A, at[g], U.groups[g].parent)
               /\ U.groups[g].start \in DOMAIN U.offsets /\ U.offsets[U.groups[g].start] = g
    BY <1>9, <2>5, <2>6
  <2> QED
    BY <1>9, <2>1, <2>2, <2>7 DEF Grouped
<1>14. Stacked(w, at, n, U)
  <2> DEFINE S == Len(T.stack)
  <2>1. S \in Nat /\ Len(U.stack) = S + 1 /\ U.stack[S + 1] = idx /\ \A a \in 1 .. S : U.stack[a] = T.stack[a]
    BY <1>1, <1>2
  <2>2. /\ \A a, b \in 1 .. S : a < b => T.stack[a] < T.stack[b]
        /\ \A a \in 1 .. S : T.stack[a] \in 1 .. G
        /\ \A g \in 1 .. G : Holds(w, at[g], n) <=> \E a \in 1 .. S : T.stack[a] = g
    BY <1>1, <1>7 DEF Stacked, G
  <2>3. \A g \in 1 .. G : Holds(w, at[g], n + 1) <=> Holds(w, at[g], n)
    BY <1>1, <1>12, OpenStays
  <2>4. Holds(w, at[idx], n + 1)
    BY <1>1, <1>8, OpenStays
  <2> HIDE DEF S
  <2>5. \A a \in 1 .. S + 1 : a \in 1 .. S \/ a = S + 1
    BY <2>1
  <2>6. \A a \in 1 .. S : a \in 1 .. S + 1 /\ a # S + 1 /\ ~(S + 1 < a) /\ T.stack[a] < idx
    <3> TAKE a \in 1 .. S
    <3>1. T.stack[a] \in 1 .. G /\ G + 1 = idx
      BY <2>2 DEF idx
    <3> QED
      BY <1>1, <2>1, <3>1
  <2>7. \A a, b \in 1 .. S + 1 : a < b => U.stack[a] < U.stack[b]
    <3> TAKE a, b \in 1 .. S + 1
    <3> HAVE a < b
    <3>1. a \in 1 .. S
      BY <2>1
    <3>2. CASE b = S + 1
      BY <2>1, <2>6, <3>1, <3>2
    <3>3. CASE b # S + 1
      <4>1. b \in 1 .. S
        BY <2>5, <3>3
      <4> QED
        BY <2>1, <2>2, <3>1, <4>1
    <3> QED
      BY <3>2, <3>3
  <2>8. \A a \in 1 .. S + 1 : U.stack[a] \in 1 .. idx
    <3> TAKE a \in 1 .. S + 1
    <3>1. CASE a = S + 1
      <4>1. idx \in 1 .. idx
        BY <1>1 DEF idx
      <4> QED
        BY <2>1, <3>1, <4>1
    <3>2. CASE a # S + 1
      BY <1>9, <2>1, <2>2, <2>5, <3>2
    <3> QED
      BY <3>1, <3>2
  <2>9. ASSUME NEW g \in 1 .. idx PROVE Holds(w, at[g], n + 1) <=> \E a \in 1 .. S + 1 : U.stack[a] = g
    <3>1. CASE g = idx
      <4>1. S + 1 \in 1 .. S + 1
        BY <2>1
      <4> QED
        BY <2>1, <2>4, <3>1, <4>1
    <3>2. CASE g # idx
      <4>1. g \in 1 .. G
        BY <1>9, <3>2
      <4>2. (\E a \in 1 .. S + 1 : U.stack[a] = g) <=> (\E a \in 1 .. S : T.stack[a] = g)
        BY <2>1, <2>5, <2>6, <3>2
      <4> QED
        BY <2>2, <2>3, <4>1, <4>2
    <3> QED
      BY <3>1, <3>2
  <2> QED
    BY <1>9, <2>1, <2>7, <2>8, <2>9 DEF Stacked
<1>15. Rooted(U)
  <2>1. T.stack = <<>> <=> p = 0
    <3>1. CASE T.stack = <<>>
      BY <3>1 DEF Top, p
    <3>2. CASE T.stack # <<>>
      <4>1. Len(T.stack) \in 1 .. Len(T.stack) /\ p = T.stack[Len(T.stack)]
        BY <1>1, <3>2 DEF Top, p
      <4>2. p \in 1 .. G
        BY <1>7, <4>1 DEF Stacked, G
      <4> QED
        BY <1>1, <3>2, <4>2
    <3> QED
      BY <3>1, <3>2
  <2>2. U.roots = IF p = 0 THEN Append(T.roots, idx) ELSE T.roots
    BY <1>2, <2>1
  <2>3. /\ \A g \in 1 .. G : HeldIf(T.roots, g, T.groups[g].parent = 0)
        /\ \A g \in Nat : g > G => HeldIf(T.roots, g, FALSE)
    BY <1>7 DEF Rooted, G, HeldIf
  <2>4. idx > G /\ \A g \in Nat : g > idx => g > G /\ g # idx
    BY <1>1 DEF idx
  <2>5. HeldIf(T.roots, idx, FALSE)
    BY <1>1, <2>3, <2>4
  <2>6. \A r, c : r # idx /\ HeldIf(T.roots, r, c) => HeldIf(U.roots, r, c)
    BY <1>1, <2>2, GrownIs
  <2>7. HeldIf(U.roots, idx, p = 0)
    <3>1. CASE p = 0
      <4>1. NeverHeld(T.roots, idx)
        BY <2>5 DEF HeldIf
      <4>2. HeldIf(Append(T.roots, idx), idx, TRUE)
        BY <1>1, <4>1, GrownIs
      <4> QED
        BY <2>2, <3>1, <4>2 DEF HeldIf
    <3>2. CASE p # 0
      BY <2>2, <2>5, <3>2 DEF HeldIf
    <3> QED
      BY <3>1, <3>2
  <2>8. ASSUME NEW g \in 1 .. idx PROVE HeldIf(U.roots, g, U.groups[g].parent = 0)
    <3>1. CASE g = idx
      BY <1>9, <1>10, <2>7, <3>1
    <3>2. CASE g # idx
      <4>1. g \in 1 .. G
        BY <1>9, <3>2
      <4>2. HeldIf(U.roots, g, T.groups[g].parent = 0)
        BY <2>3, <2>6, <3>2, <4>1
      <4> QED
        BY <1>4, <1>9, <4>1, <4>2
    <3> QED
      BY <3>1, <3>2
  <2>9. ASSUME NEW g \in Nat, g > idx PROVE NeverHeld(U.roots, g)
    <3>1. HeldIf(U.roots, g, FALSE)
      BY <2>3, <2>4, <2>6, <2>9
    <3> QED
      BY <3>1 DEF HeldIf
  <2> QED
    BY <1>9, <2>8, <2>9 DEF Rooted
<1>16. \A r : HeldIf(U.groups[idx].children, r, FALSE)
  <2>1. DOMAIN <<>> = {}
    BY MapsGrow
  <2> QED
    BY <1>9, <1>10, <2>1 DEF HeldIf, NeverHeld
<1>17. GroupsFiled(U)
  <2>1. /\ \A g, h \in 1 .. G : HeldIf(T.groups[h].children, GroupRef(g), h = T.groups[g].parent)
        /\ \A h \in 1 .. G : \A g \in Nat : g > G => HeldIf(T.groups[h].children, GroupRef(g), FALSE)
    BY <1>7 DEF GroupsFiled, HeldIf, G
  <2>2. idx > G /\ \A g \in Nat : g > idx => g > G /\ g # idx
    BY <1>1 DEF idx
  <2>3. \A g : g # idx => GroupRef(g) # child
    BY RefsDiffer DEF child
  <2>4. \A h \in 1 .. G : HeldIf(U.groups[h].children, child, h = p)
    <3>1. \A h \in 1 .. G : NeverHeld(T.groups[h].children, child)
      BY <1>1, <2>1, <2>2 DEF HeldIf, child
    <3> QED
      BY <1>5, <1>9, <3>1
  <2>5. ASSUME NEW g \in 1 .. idx, NEW h \in 1 .. idx
        PROVE  HeldIf(U.groups[h].children, GroupRef(g), h = U.groups[g].parent)
    <3>1. CASE h = idx
      <4>1. U.groups[g].parent # idx
        <5>1. InnerAt(w, at, A, at[g], U.groups[g].parent)
          BY <1>9, <1>13 DEF Grouped
        <5>2. at[g] \in Nat /\ at[g] <= n
          <6>1. CASE g = idx
            BY <1>1, <1>8, <6>1
          <6>2. CASE g # idx
            BY <1>9, <1>12, <6>2
          <6> QED
            BY <6>1, <6>2
        <5> QED
          BY <1>11, <5>1, <5>2
      <4> QED
        BY <1>16, <3>1, <4>1 DEF HeldIf
    <3>2. CASE h # idx /\ g = idx
      <4>1. h \in 1 .. G /\ U.groups[g].parent = p
        BY <1>9, <1>10, <3>2
      <4> QED
        BY <2>4, <3>2, <4>1 DEF child
    <3>3. CASE h # idx /\ g # idx
      <4>1. h \in 1 .. G /\ g \in 1 .. G
        BY <1>9, <3>3
      <4>2. HeldIf(T.groups[h].children, GroupRef(g), h = T.groups[g].parent) /\ GroupRef(g) # child
        BY <2>1, <2>3, <3>3, <4>1
      <4>3. HeldIf(groups[h].children, GroupRef(g), h = T.groups[g].parent)
        BY <1>5, <4>1, <4>2
      <4> QED
        BY <1>4, <1>9, <4>1, <4>3
    <3> QED
      BY <3>1, <3>2, <3>3
  <2>6. ASSUME NEW h \in 1 .. idx, NEW g \in Nat, g > idx
        PROVE  HeldIf(U.groups[h].children, GroupRef(g), FALSE)
    <3>1. CASE h = idx
      BY <1>16, <3>1
    <3>2. CASE h # idx
      <4>1. h \in 1 .. G
        BY <1>9, <3>2
      <4>2. HeldIf(T.groups[h].children, GroupRef(g), FALSE) /\ GroupRef(g) # child
        BY <2>1, <2>2, <2>3, <2>6, <4>1
      <4>3. HeldIf(groups[h].children, GroupRef(g), FALSE)
        BY <1>5, <4>1, <4>2
      <4> QED
        BY <1>9, <4>1, <4>3
    <3> QED
      BY <3>1, <3>2
  <2> QED
    BY <1>9, <2>5, <2>6 DEF GroupsFiled, HeldIf
<1>18. RecordsFiled(w, at, A, n, U)
  <2> SUFFICES ASSUME NEW k \in DOMAIN w, w[k].kind = "record"
               PROVE  IF k <= n
                      THEN \E q : /\ InnerAt(w, at, A, k, q)
                                  /\ \A h \in 1 .. idx : HeldIf(U.groups[h].children, RecordRef(w[k].offset), h = q)
                      ELSE \A h \in 1 .. idx : NeverHeld(U.groups[h].children, RecordRef(w[k].offset))
    BY <1>9 DEF RecordsFiled
  <2> DEFINE found == RecordRef(w[k].offset)
  <2>1. IF k <= n - 1
        THEN \E q : /\ InnerAt(w, at, A, k, q)
                    /\ \A h \in 1 .. G : HeldIf(T.groups[h].children, found, h = q)
        ELSE \A h \in 1 .. G : HeldIf(T.groups[h].children, found, FALSE)
    BY <1>7 DEF RecordsFiled, HeldIf, G
  <2>2. k \in Nat /\ (k <= n <=> k <= n - 1)
    <3>1. k \in Nat /\ k # n
      BY <1>1
    <3> QED
      BY <1>1, <3>1
  <2>3. found # child
    BY RefsDiffer DEF child
  <2> HIDE DEF found
  <2>4. \A h \in 1 .. G : \A c : HeldIf(T.groups[h].children, found, c) => HeldIf(U.groups[h].children, found, c)
    BY <1>5, <1>9, <2>3
  <2>5. CASE k <= n
    <3>1. PICK q : /\ InnerAt(w, at, A, k, q)
                   /\ \A h \in 1 .. G : HeldIf(T.groups[h].children, found, h = q)
      BY <2>1, <2>2, <2>5
    <3>2. q # idx
      BY <1>11, <2>2, <2>5, <3>1
    <3>3. ASSUME NEW h \in 1 .. idx PROVE HeldIf(U.groups[h].children, found, h = q)
      <4>1. CASE h = idx
        BY <1>16, <3>2, <4>1 DEF HeldIf
      <4>2. CASE h # idx
        BY <1>9, <2>4, <3>1, <4>2
      <4> QED
        BY <4>1, <4>2
    <3> QED
      BY <2>5, <3>1, <3>3 DEF found
  <2>6. CASE ~(k <= n)
    <3>1. ASSUME NEW h \in 1 .. idx PROVE HeldIf(U.groups[h].children, found, FALSE)
      <4>1. CASE h = idx
        BY <1>16, <4>1
      <4>2. CASE h # idx
        BY <1>9, <2>1, <2>2, <2>4, <2>6, <4>2
      <4> QED
        BY <4>1, <4>2
    <3> QED
      BY <2>6, <3>1 DEF found, HeldIf
  <2> QED
    BY <2>5, <2>6
<1> QED
  BY <1>2, <1>13, <1>14, <1>15, <1>17, <1>18 DEF TreeAt, U

\* A tree stays one whatever comes next.
LEMMA PushIs ==
    ASSUME NEW T \in Trees, NEW event \in Live
    PROVE  PushEvent(T, event) \in Trees
<1>1. event.kind \in {"start", "record", "end"}
  BY DEF Live
<1> QED
  BY <1>1, EnteredIs, MetIs, LeftIs

LEMMA EmptyTreeIs ==
    ASSUME NEW S, NEW w \in Seq(S), NEW at, NEW A, Enters(w, at, A)
    PROVE  TreeAt(w, at, A, 0, EmptyTree)
<1>1. /\ EmptyTree.groups = <<>> /\ EmptyTree.roots = <<>> /\ EmptyTree.stack = <<>> /\ EmptyTree.offsets = <<>>
      /\ Len(<<>>) = 0 /\ DOMAIN <<>> = {} /\ 1 .. 0 = {}
  BY MapsGrow DEF EmptyTree
<1>2. EmptyTree \in Trees
  <2>1. <<>> \in Seq(Entries) /\ <<>> \in Seq(Nat) /\ <<>> \in Maps(Nat, Nat)
    BY MapsGrow
  <2> QED
    BY <2>1 DEF EmptyTree, Trees
<1>3. Grouped(w, at, A, 0, EmptyTree)
  <2>1. \A g \in 1 .. A : g <= 0 <=> at[g] <= 0
    <3> TAKE g \in 1 .. A
    <3>1. at[g] \in 1 .. Len(w)
      BY DEF Enters, Starting
    <3>2. A \in Nat
      BY DEF Enters
    <3> QED
      BY <3>1, <3>2
  <2> QED
    BY <1>1, <2>1 DEF Grouped, Enters
<1>4. Stacked(w, at, 0, EmptyTree)
  BY <1>1 DEF Stacked
<1>5. Rooted(EmptyTree)
  BY <1>1 DEF Rooted, NeverHeld
<1>6. GroupsFiled(EmptyTree)
  BY <1>1 DEF GroupsFiled
<1>7. RecordsFiled(w, at, A, 0, EmptyTree)
  <2>1. \A k \in DOMAIN w : ~(k <= 0)
    OBVIOUS
  <2> QED
    BY <1>1, <2>1 DEF RecordsFiled
<1> QED
  BY <1>2, <1>3, <1>4, <1>5, <1>6, <1>7 DEF TreeAt

\* A walk that no group ends is of starts, ends and records.
LEMMA LiveWalk ==
    ASSUME NEW file \in Files, ~ScanFails(file)
    PROVE  LET walk == WalkStructure(file)
           IN  walk \in Seq(Live) /\ \E lo, hi \in Nat : Nests(file, walk, lo, hi)
<1> DEFINE walk == WalkStructure(file)
           N == Len(file) + 1
<1>1. walk \in Seq(Events(N)) /\ \E lo, hi \in Nat : Nests(file, walk, lo, hi)
  BY WalkIs
<1>2. Bail \notin ToSet(walk)
  BY DEF ScanFails
<1> HIDE DEF walk
<1>3. \A i \in DOMAIN walk : walk[i] \in Live
  <2> TAKE i \in DOMAIN walk
  <2>1. walk[i] \in Events(N)
    BY <1>1
  <2>2. walk[i] # Bail
    BY <1>2 DEF ToSet
  <2>3. 1 .. N \subseteq Nat
    OBVIOUS
  <2> HIDE DEF N
  <2> QED
    BY <2>1, <2>2, <2>3 DEF Events, Live
<1>4. walk \in Seq(Live)
  <2>1. walk \in [1 .. Len(walk) -> Live] /\ Len(walk) \in Nat
    BY <1>1, <1>3
  <2> QED
    BY <2>1
<1> QED
  BY <1>1, <1>4 DEF walk

\* The tree a file leaves.
LEMMA TreeIs ==
    ASSUME NEW file \in Files, ~ScanFails(file), NEW at, NEW A, Enters(WalkStructure(file), at, A)
    PROVE  TreeAt(WalkStructure(file), at, A, Len(WalkStructure(file)), TreeOf(file))
<1> DEFINE w == WalkStructure(file)
           L == Len(w)
           Is(g) == g = [n \in 0 .. L |-> IF n = 0 THEN EmptyTree ELSE PushEvent(g[n - 1], w[n])]
           t == CHOOSE g : Is(g)
           step == [x \in Trees \X (1 .. L) |-> PushEvent(x[1], w[x[2]])]
<1>1. TreeOf(file) = t[L]
  BY Zenon DEF TreeOf
<1>2. w \in Seq(Live) /\ \E lo, hi \in Nat : Nests(file, w, lo, hi)
  BY LiveWalk
<1>3. Enters(w, at, A)
  OBVIOUS
<1> HIDE DEF w
<1>4. L \in Nat /\ DOMAIN w = 1 .. L /\ \A n \in 1 .. L : w[n] \in Live
  BY <1>2
<1>5. TreeAt(w, at, A, 0, EmptyTree)
  BY <1>2, <1>3, EmptyTreeIs
<1>6. Is(t)
  <2>1. EmptyTree \in Trees
    BY <1>5 DEF TreeAt
  <2>2. step \in [Trees \X (1 .. L) -> Trees]
    <3>1. \A x \in Trees \X (1 .. L) : PushEvent(x[1], w[x[2]]) \in Trees
      BY <1>4, PushIs
    <3> HIDE DEF L
    <3> QED
      BY <3>1
  <2> HIDE DEF step, L
  <2>3. PICK g : Iterates(g, L, Trees, EmptyTree, step)
    BY <1>4, <2>1, <2>2, Iteration
  <2>4. \A n \in 1 .. L : g[n] = PushEvent(g[n - 1], w[n])
    <3>1. \A n \in 1 .. L : g[n - 1] \in Trees /\ g[n] = step[<<g[n - 1], n>>]
      BY <1>4, <2>3 DEF Iterates
    <3> QED
      BY <3>1 DEF step
  <2>5. Is(g)
    BY <1>4, <2>3, <2>4 DEF Iterates
  <2> QED
    BY <2>5
<1> HIDE DEF t
<1>7. t[0] = EmptyTree /\ \A n \in 1 .. L : t[n] = PushEvent(t[n - 1], w[n])
  <2> HIDE DEF L
  <2> QED
    BY <1>4, <1>6
<1> DEFINE Good(n) == TreeAt(w, at, A, n, t[n])
           bad == {n \in 0 .. L : ~Good(n)}
<1>8. Good(0)
  BY <1>5, <1>7
<1>9. ASSUME NEW n \in 1 .. L, Good(n - 1) PROVE Good(n)
  <2>1. w[n].kind \in {"start", "record", "end"}
    BY <1>4 DEF Live
  <2>2. PICK lo, hi \in Nat : Nests(file, w, lo, hi)
    BY <1>2
  <2> DEFINE T == t[n - 1]
  <2>3. TreeAt(w, at, A, n - 1, T) /\ t[n] = PushEvent(T, w[n])
    BY <1>7, <1>9
  <2> HIDE DEF T
  <2>4. CASE w[n].kind = "start"
    BY <1>2, <1>3, <2>2, <2>3, <2>4, StartStep
  <2>5. CASE w[n].kind = "record"
    BY <1>2, <1>3, <2>2, <2>3, <2>5, RecordStep
  <2>6. CASE w[n].kind = "end"
    BY <1>2, <1>3, <2>2, <2>3, <2>6, EndStep
  <2> QED
    BY <2>1, <2>4, <2>5, <2>6
<1> HIDE DEF L
<1>10. bad = {}
  <2> SUFFICES ASSUME bad # {} PROVE FALSE
    OBVIOUS
  <2>1. PICK m \in bad : \A n \in bad : m <= n
    <3>1. bad \in SUBSET Nat
      BY <1>4
    <3> HIDE DEF bad
    <3> QED
      BY <3>1, LeastOf
  <2> HIDE DEF Good
  <2>2. m \in 1 .. L /\ m - 1 \in 0 .. L /\ m - 1 \notin bad
    BY <1>4, <1>8, <2>1
  <2> QED
    BY <1>9, <2>1, <2>2
<1>11. Good(L)
  <2> HIDE DEF Good
  <2> QED
    BY <1>4, <1>10
<1> QED
  BY <1>1, <1>11 DEF w, L

-----------------------------------------------------------------------------
(* What a client sees of the arena.                                        *)

\* At the end of a walk the arena has all its groups.
LEMMA AllGrouped ==
    ASSUME NEW S, NEW w \in Seq(S), NEW at, NEW A, Enters(w, at, A), NEW T, TreeAt(w, at, A, Len(w), T)
    PROVE  /\ Len(T.groups) = A /\ DOMAIN T.groups = 1 .. A /\ A \in Nat
           /\ \A g \in 1 .. A : /\ at[g] \in Nat /\ Starting(w, at[g]) /\ Opening(w, at[g])
                                /\ T.groups[g].start = w[at[g]].offset /\ T.groups[g].end = w[at[g]].end
<1>1. T.groups \in Seq(Entries) /\ Len(T.groups) \in Nat /\ DOMAIN T.groups = 1 .. Len(T.groups)
  BY DEF TreeAt, Trees
<1>2. A \in Nat /\ \A g \in 1 .. A : at[g] \in 1 .. Len(w) /\ Starting(w, at[g]) /\ Opening(w, at[g])
  BY DEF Enters, Starting, Opening
<1>3. /\ \A g \in 1 .. A : g <= Len(T.groups) <=> at[g] <= Len(w)
      /\ Len(T.groups) <= A
      /\ \A g \in 1 .. Len(T.groups) : T.groups[g].start = w[at[g]].offset /\ T.groups[g].end = w[at[g]].end
  BY DEF TreeAt, Grouped
<1>4. Len(T.groups) = A
  <2>1. CASE A = 0
    BY <1>1, <1>3, <2>1
  <2>2. CASE A # 0
    <3>1. A \in 1 .. A /\ at[A] <= Len(w)
      BY <1>2, <2>2
    <3> QED
      BY <1>1, <1>2, <1>3, <3>1
  <2> QED
    BY <2>1, <2>2
<1> QED
  BY <1>1, <1>2, <1>3, <1>4

\* The groups whose extent holds an event that opens are those open there.
LEMMA HoldingIs ==
    ASSUME NEW file, NEW S, NEW w \in Seq(S), NEW lo, NEW hi, Nests(file, w, lo, hi),
           NEW k \in Nat, Opening(w, k), NEW i \in Nat, Starting(w, i)
    PROVE  w[i].offset < w[k].offset /\ w[k].offset < w[i].end <=> Holds(w, i, k)
<1>1. /\ w[i].offset \in Nat /\ w[k].offset \in Nat /\ w[i].end \in Nat /\ Opening(w, i)
      /\ i < k => w[i].offset < w[k].offset
      /\ k < i => w[k].offset < w[i].offset
  BY DEF Nests, Placed, Opening, Starting
<1>2. Matched(w) /\ Bounded(w)
  BY DEF Nests
<1>3. ASSUME w[i].offset < w[k].offset, w[k].offset < w[i].end PROVE Holds(w, i, k)
  <2>1. i < k
    BY <1>1, <1>3
  <2>2. ASSUME NEW j, Closes(w, i, j), j < k PROVE FALSE
    <3>1. w[i].end <= w[k].offset
      BY <1>2, <2>2 DEF Bounded
    <3> QED
      BY <1>1, <1>3, <3>1
  <2> QED
    BY <2>1, <2>2 DEF Holds
<1>4. ASSUME Holds(w, i, k) PROVE w[i].offset < w[k].offset /\ w[k].offset < w[i].end
  <2>1. i < k /\ w[i].offset < w[k].offset
    BY <1>1, <1>4 DEF Holds
  <2>2. PICK j : Closes(w, i, j)
    BY <1>2 DEF Matched
  <2>3. j \in Nat /\ ~(j < k) /\ j # k
    BY <1>4, <2>2 DEF Holds, Closes, Ending, Opening
  <2>4. k < j
    BY <2>3
  <2> QED
    BY <1>2, <2>1, <2>2, <2>4 DEF Bounded
<1> QED
  BY <1>3, <1>4

\* The smallest of them is the innermost.
LEMMA InnermostIs ==
    ASSUME NEW file, NEW S, NEW w \in Seq(S), NEW lo, NEW hi, Nests(file, w, lo, hi),
           NEW at, NEW A, Enters(w, at, A), NEW T, TreeAt(w, at, A, Len(w), T),
           NEW k \in Nat, Opening(w, k), NEW p, InnerAt(w, at, A, k, p)
    PROVE  Innermost(T, w[k].offset) = p
<1> DEFINE around == Holding(T, w[k].offset)
           Start(g) == T.groups[g].start
<1>1. /\ DOMAIN T.groups = 1 .. A /\ A \in Nat
      /\ \A g \in 1 .. A : /\ at[g] \in Nat /\ Starting(w, at[g]) /\ Opening(w, at[g])
                           /\ T.groups[g].start = w[at[g]].offset /\ T.groups[g].end = w[at[g]].end
  BY AllGrouped
<1>2. around = {g \in 1 .. A : Holds(w, at[g], k)}
  <2>1. \A g \in 1 .. A : (T.groups[g].start < w[k].offset /\ w[k].offset < T.groups[g].end) <=> Holds(w, at[g], k)
    BY <1>1, HoldingIs
  <2> QED
    BY <1>1, <2>1 DEF Holding
<1>3. Innermost(T, w[k].offset) =
        IF around = {} THEN 0 ELSE CHOOSE g \in around : \A h \in around : Start(h) <= Start(g)
  BY DEF Innermost
<1>4. /\ \A g \in 1 .. A : Start(g) \in Nat
      /\ \A g, h \in 1 .. A : g < h => Start(g) < Start(h)
  <2>1. \A g \in 1 .. A : Start(g) \in Nat
    BY <1>1 DEF Nests, Placed
  <2>2. ASSUME NEW g \in 1 .. A, NEW h \in 1 .. A, g < h PROVE Start(g) < Start(h)
    <3>1. at[g] < at[h]
      BY <2>2 DEF Enters
    <3>2. w[at[g]].offset < w[at[h]].offset
      BY <1>1, <3>1 DEF Nests, Placed
    <3> QED
      BY <1>1, <3>2
  <2> QED
    BY <2>1, <2>2
<1>5. /\ p \in 0 .. A
      /\ p # 0 => Holds(w, at[p], k)
      /\ \A h \in 1 .. A : Holds(w, at[h], k) => h <= p
  BY DEF InnerAt
<1> HIDE DEF around, Start
<1>6. CASE p = 0
  <2>1. around = {}
    BY <1>1, <1>2, <1>5, <1>6
  <2> QED
    BY <1>3, <1>6, <2>1
<1>7. CASE p # 0
  <2>1. p \in around /\ p \in 1 .. A
    BY <1>1, <1>2, <1>5, <1>7
  <2>2. \A h \in around : h \in 1 .. A /\ h <= p
    BY <1>2, <1>5
  <2>5. \A h \in 1 .. A : h \in Nat
    BY <1>1
  <2>3. \A h \in around : Start(h) <= Start(p)
    <3> TAKE h \in around
    <3>1. h \in 1 .. A /\ h <= p /\ h \in Nat /\ p \in Nat
      BY <2>1, <2>2, <2>5
    <3>2. h = p \/ h < p
      BY <3>1
    <3>3. Start(h) \in Nat /\ Start(p) \in Nat
      BY <1>4, <2>1, <3>1
    <3> QED
      BY <1>4, <2>1, <3>1, <3>2, <3>3
  <2>4. ASSUME NEW g \in around, \A h \in around : Start(h) <= Start(g) PROVE g = p
    <3>1. Start(p) <= Start(g) /\ Start(g) \in Nat /\ Start(p) \in Nat
      BY <1>4, <2>1, <2>2, <2>4
    <3>2. g \in 1 .. A /\ g <= p /\ g \in Nat /\ p \in Nat
      BY <2>1, <2>2, <2>5
    <3>3. g = p \/ g < p
      BY <3>2
    <3> QED
      BY <1>4, <2>1, <3>1, <3>2, <3>3
  <2> QED
    BY <1>3, <2>1, <2>3, <2>4
<1> QED
  BY <1>6, <1>7

\* A list of rows is the first of them, or the stretch behind m of them.
Begins(s, rows, R) == s \in Seq(R) /\ Len(s) <= Len(rows) /\ \A i \in 1 .. Len(s) : s[i] = rows[i]
Stretch(page, rows, R, m, to) ==
    /\ page \in Seq(R) /\ to \in Nat /\ m <= to /\ to <= Len(rows) /\ Len(page) = to - m
    /\ \A i \in 1 .. to - m : page[i] = rows[m + i]

LEMMA BeginsOn ==
    ASSUME NEW R, NEW rows \in Seq(R), NEW s, Begins(s, rows, R), NEW page, NEW to, Stretch(page, rows, R, Len(s), to)
    PROVE  Begins(s \o page, rows, R) /\ Len(s \o page) = to
<1> DEFINE m == Len(s)
           u == s \o page
<1>1. s \in Seq(R) /\ m \in Nat /\ Len(rows) \in Nat /\ \A i \in 1 .. m : s[i] = rows[i]
  BY DEF Begins
<1>2. /\ page \in Seq(R) /\ to \in Nat /\ m <= to /\ to <= Len(rows) /\ Len(page) = to - m
      /\ \A i \in 1 .. to - m : page[i] = rows[m + i]
  BY DEF Stretch
<1>3. /\ u \in Seq(R) /\ Len(u) = m + Len(page)
      /\ \A i \in 1 .. m : u[i] = s[i]
      /\ \A i \in m + 1 .. m + Len(page) : u[i] = page[i - m]
  BY <1>1, <1>2
<1>4. m + Len(page) = to
  BY <1>1, <1>2
<1> HIDE DEF u, m
<1>5. \A i \in m + 1 .. to : i - m \in 1 .. to - m /\ m + (i - m) = i
  BY <1>1, <1>2
<1>6. \A i \in 1 .. to : i \in 1 .. m \/ i \in m + 1 .. to
  BY <1>1, <1>2
<1>7. \A i \in 1 .. to : u[i] = rows[i]
  <2> TAKE i \in 1 .. to
  <2>1. CASE i \in 1 .. m
    BY <1>1, <1>3, <2>1
  <2>2. CASE i \in m + 1 .. to
    <3>1. u[i] = page[i - m]
      BY <1>3, <1>4, <2>2
    <3> QED
      BY <1>2, <1>5, <2>2, <3>1
  <2> QED
    BY <1>6, <2>1, <2>2
<1> QED
  BY <1>2, <1>3, <1>4, <1>7 DEF Begins, u

\* A client who asks for page after page sees all rows, whatever the page size.
LEMMA PagedIs ==
    ASSUME NEW file, NEW T \in Trees, NEW g \in 1 .. Len(T.groups),
           T.groups[g].start \in DOMAIN T.offsets, T.offsets[T.groups[g].start] = g,
           NEW size \in 1 .. Len(T.groups[g].children)
    PROVE  Paged(file, T, g, size) = Rows(file, T, g)
<1> DEFINE L == Len(T.groups[g].children)
           rows == Rows(file, T, g)
           R == {rows[i] : i \in 1 .. L}
           Page(o) == ListGroupChildren(file, T, T.groups[g].start, o, size)
           S == Seq(R)
           none == <<>>
           Further(s) == s \o Page(Len(s))
           Is(f) == f = [n \in 0 .. L |-> IF n = 0 THEN none ELSE Further(f[n - 1])]
           shown == CHOOSE f : Is(f)
           step == [x \in S \X (1 .. L) |-> Further(x[1])]
           To(o) == IF o + size < L THEN o + size ELSE L
           From(o) == IF o < L THEN o ELSE L
<1>1. T.groups[g].children \in Seq(Refs) /\ L \in Nat /\ DOMAIN T.groups[g].children = 1 .. L
  <2>1. T.groups[g] \in Entries
    BY DEF Trees
  <2> QED
    BY <2>1 DEF Entries
<1>2. rows \in Seq(R) /\ Len(rows) = L
  <2>1. rows = [i \in 1 .. L |-> RowOf(file, T, T.groups[g].children[i])]
    BY <1>1 DEF Rows
  <2> HIDE DEF rows, L
  <2>2. rows \in [1 .. L -> R]
    BY <2>1
  <2> HIDE DEF R
  <2> QED
    BY <1>1, <2>2
<1>3. Paged(file, T, g, size) = shown[L]
  BY Zenon DEF Paged
<1>4. size \in Nat /\ size >= 1
  BY <1>1
<1>5. \A o \in Nat : /\ Page(o) \in Seq(R) /\ Len(Page(o)) = To(o) - From(o)
                     /\ \A i \in 1 .. To(o) - From(o) : Page(o)[i] = rows[From(o) + i]
  <2> TAKE o \in Nat
  <2> DEFINE from == From(o)
             to == To(o)
             page == Page(o)
             all == T.groups[g].children
             part == SubSeq(all, from + 1, to)
             Row(child) == RowOf(file, T, child)
  <2>1. from \in Nat /\ to \in Nat /\ from <= to /\ to <= L /\ to - from \in Nat
    <3> HIDE DEF L
    <3> QED
      BY <1>1, <1>4
  <2>2. Children(T, g, o, size) = part
    BY Zenon DEF Children
  <2>3. GroupAt(T, T.groups[g].start) = g /\ g # 0
    BY DEF GroupAt
  <2>4. page = [i \in DOMAIN part |-> Row(part[i])]
    BY <2>2, <2>3, Zenon DEF ListGroupChildren, GroupChildrenAt
  <2>5. rows = [i \in 1 .. L |-> Row(all[i])]
    BY <1>1 DEF Rows
  <2> HIDE DEF from, to
  <2>6. all \in Seq(Refs) /\ L = Len(all)
    BY <1>1
  <2> HIDE DEF all
  <2>7. Len(part) = to - from /\ DOMAIN part = 1 .. to - from /\ \A i \in 1 .. to - from : part[i] = all[from + i]
    BY <2>1, <2>6
  <2> HIDE DEF part, page, rows, Row, L, R
  <2>8. \A i \in 1 .. L : rows[i] = Row(all[i]) /\ rows[i] \in R
    BY <1>1, <1>2, <2>5
  <2>9. \A i \in 1 .. to - from : from + i \in 1 .. L
    BY <1>1, <2>1
  <2>10. page \in [1 .. to - from -> R] /\ \A i \in 1 .. to - from : page[i] = rows[from + i]
    BY <2>4, <2>7, <2>8, <2>9
  <2>11. page \in Seq(R) /\ Len(page) = to - from
    BY <2>1, <2>10
  <2> QED
    BY <2>10, <2>11 DEF from, to, page
<1> HIDE DEF Page, rows, L, R
<1>6. Is(shown)
  <2>1. none \in S
    OBVIOUS
  <2>2. step \in [S \X (1 .. L) -> S]
    <3>1. \A s \in S : Further(s) \in S
      <4> TAKE s \in S
      <4>1. Page(Len(s)) \in Seq(R)
        <5> DEFINE m == Len(s)
        <5>1. m \in Nat
          OBVIOUS
        <5> HIDE DEF m, To, From, S
        <5>2. Page(m) \in Seq(R)
          BY <1>5, <5>1
        <5> QED
          BY <5>2 DEF m
      <4> QED
        BY <4>1
    <3> HIDE DEF Further, S
    <3>2. \A x \in S \X (1 .. L) : Further(x[1]) \in S
      BY <3>1
    <3> QED
      BY <3>2
  <2> HIDE DEF step, Further, S, none
  <2>3. PICK f : Iterates(f, L, S, none, step)
    BY <1>1, <2>1, <2>2, Iteration
  <2>4. \A n \in 1 .. L : f[n] = Further(f[n - 1])
    <3>1. \A n \in 1 .. L : f[n - 1] \in S /\ f[n] = step[<<f[n - 1], n>>]
      BY <1>1, <2>3 DEF Iterates
    <3> QED
      BY <3>1 DEF step
  <2>5. Is(f)
    BY <1>1, <2>3, <2>4 DEF Iterates
  <2> QED
    BY <2>5
<1> HIDE DEF shown
<1>7. shown[0] = <<>> /\ \A n \in 1 .. L : shown[n] = Further(shown[n - 1])
  <2> HIDE DEF Further
  <2> QED
    BY <1>1, <1>6
<1> DEFINE Good(n) == Begins(shown[n], rows, R) /\ n <= Len(shown[n])
           bad == {n \in 0 .. L : ~Good(n)}
<1>8. Good(0)
  <2>1. <<>> \in Seq(R) /\ Len(<<>>) = 0
    OBVIOUS
  <2> QED
    BY <1>1, <1>2, <1>7, <2>1 DEF Begins
<1>9. ASSUME NEW n \in 1 .. L, Good(n - 1) PROVE Good(n)
  <2> DEFINE s == shown[n - 1]
             m == Len(s)
             page == Page(m)
             to == To(m)
  <2>1. Begins(s, rows, R) /\ n - 1 <= m /\ shown[n] = s \o page
    BY <1>7, <1>9
  <2> HIDE DEF s
  <2>2. m \in Nat /\ m <= L
    BY <1>2, <2>1 DEF Begins
  <2>3. to \in Nat /\ m <= to /\ to <= L /\ n <= to /\ From(m) = m
    BY <1>1, <1>4, <2>1, <2>2
  <2>4. page \in Seq(R) /\ Len(page) = to - m /\ \A i \in 1 .. to - m : page[i] = rows[m + i]
    <3> HIDE DEF m, To, From
    <3>1. /\ Page(m) \in Seq(R) /\ Len(Page(m)) = To(m) - From(m)
          /\ \A i \in 1 .. To(m) - From(m) : Page(m)[i] = rows[From(m) + i]
      BY <1>5, <2>2
    <3> QED
      BY <2>3, <3>1
  <2> HIDE DEF to, page
  <2>5. Begins(s \o page, rows, R) /\ Len(s \o page) = to
    <3>1. Stretch(page, rows, R, Len(s), to) /\ rows \in Seq(R)
      BY <1>2, <2>3, <2>4 DEF Stretch
    <3> QED
      BY <2>1, <3>1, BeginsOn
  <2> QED
    BY <2>1, <2>3, <2>5
<1>10. bad = {}
  <2> SUFFICES ASSUME bad # {} PROVE FALSE
    OBVIOUS
  <2>1. PICK m \in bad : \A n \in bad : m <= n
    <3>1. bad \in SUBSET Nat
      BY <1>1
    <3> HIDE DEF bad
    <3> QED
      BY <3>1, LeastOf
  <2> HIDE DEF Good
  <2>2. m \in 1 .. L /\ m - 1 \in 0 .. L /\ m - 1 \notin bad
    BY <1>1, <1>8, <2>1
  <2> QED
    BY <1>9, <2>1, <2>2
<1>11. Good(L)
  <2> HIDE DEF Good
  <2> QED
    BY <1>1, <1>10
<1>12. shown[L] = rows
  <2>1. /\ shown[L] \in Seq(R) /\ Len(shown[L]) = L
        /\ \A i \in 1 .. L : shown[L][i] = rows[i]
    BY <1>1, <1>2, <1>11 DEF Begins
  <2> DEFINE s == shown[L]
  <2> HIDE DEF s
  <2>2. s \in Seq(R) /\ Len(s) = L /\ \A i \in 1 .. L : s[i] = rows[i]
    BY <2>1 DEF s
  <2>3. s = rows
    BY <1>1, <1>2, <2>2
  <2> QED
    BY <2>3 DEF s
<1> QED
  BY <1>3, <1>12 DEF rows

\* Held once or never is held that often.
LEMMA HeldIs ==
    ASSUME NEW S, NEW s \in Seq(S), NEW r, NEW c, HeldIf(s, r, c)
    PROVE  Held(s, r) = OnceIf(c)
<1> DEFINE at == {i \in DOMAIN s : s[i] = r}
<1>1. CASE c
  <2>1. PICK i \in DOMAIN s : s[i] = r /\ \A j \in DOMAIN s : s[j] = r => j = i
    BY <1>1 DEF HeldIf, HeldOnce
  <2>2. at = {i}
    BY <2>1
  <2>3. Cardinality({i}) = 1
    BY FS_Singleton
  <2> QED
    BY <1>1, <2>2, <2>3 DEF Held, OnceIf
<1>2. CASE ~c
  <2>1. at = {}
    BY <1>2 DEF HeldIf, NeverHeld
  <2> QED
    BY <1>2, <2>1, FS_EmptySet DEF Held, OnceIf
<1> QED
  BY <1>1, <1>2

\* The tree of a file that scans agrees with it.
LEMMA TreeIsExact ==
    ASSUME NEW file \in Files, ~ScanFails(file)
    PROVE  TreeAgrees(file, TreeOf(file))
<1> DEFINE w == WalkStructure(file)
           T == TreeOf(file)
           groups == T.groups
           Extent(e) == <<e.offset, e.end>>
           entered == {event \in ToSet(w) : event.kind = "start"}
<1>1. w \in Seq(Live) /\ \E lo, hi \in Nat : Nests(file, w, lo, hi)
  BY LiveWalk
<1>2. PICK lo, hi \in Nat : Nests(file, w, lo, hi)
  BY <1>1
<1>3. PICK at : \E A : Enters(w, at, A)
  BY <1>1, EntersExist
<1>4. PICK A : Enters(w, at, A)
  BY <1>3
<1>5. TreeAt(w, at, A, Len(w), T)
  BY <1>4, TreeIs
<1>6. ToSet(WalkRecords(file)) \subseteq {w[k].offset : k \in {i \in DOMAIN w : w[i].kind = "record"}}
  <2> DEFINE I == {i \in DOMAIN w : w[i].kind = "record"}
             order == Rising(I)
             walked == WalkRecords(file)
  <2> HIDE DEF w
  <2>1. I \in SUBSET DOMAIN w
    OBVIOUS
  <2>2. walked = [n \in DOMAIN Picked(w, I) |-> Picked(w, I)[n].offset]
    BY Zenon DEF WalkRecords, w
  <2> HIDE DEF I, order, walked
  <2>3. /\ Cardinality(I) \in Nat /\ Picks(order, I)
        /\ Picked(w, I) = [n \in 1 .. Cardinality(I) |-> w[order[n]]]
    BY <1>1, <2>1, PickedIs DEF order
  <2>4. \A n \in DOMAIN walked : order[n] \in I /\ walked[n] = w[order[n]].offset
    BY <2>2, <2>3 DEF Picks
  <2> QED
    BY <2>4 DEF ToSet, I, walked
<1>7. /\ Len(groups) = A /\ DOMAIN groups = 1 .. A /\ A \in Nat
      /\ \A g \in 1 .. A : /\ at[g] \in Nat /\ Starting(w, at[g]) /\ Opening(w, at[g])
                           /\ groups[g].start = w[at[g]].offset /\ groups[g].end = w[at[g]].end
  BY <1>1, <1>4, <1>5, AllGrouped
<1> HIDE DEF w, T
<1>8. {<<groups[g].start, groups[g].end>> : g \in DOMAIN groups} = {<<e.offset, e.end>> : e \in entered}
  <2>1. \A g \in 1 .. A : w[at[g]] \in entered /\ <<groups[g].start, groups[g].end>> = Extent(w[at[g]])
    BY <1>1, <1>7 DEF Starting, ToSet
  <2>2. \A e \in entered : \E g \in 1 .. A : w[at[g]] = e
    <3> TAKE e \in entered
    <3>1. PICK i : Starting(w, i) /\ w[i] = e
      BY DEF ToSet, Starting
    <3> QED
      BY <1>4, <3>1 DEF Enters
  <2> DEFINE Of(g) == <<groups[g].start, groups[g].end>>
             indexes == DOMAIN groups
  <2>3. /\ \A g \in indexes : w[at[g]] \in entered /\ Of(g) = Extent(w[at[g]])
        /\ \A e \in entered : \E g \in indexes : w[at[g]] = e
    BY <1>7, <2>1, <2>2
  <2> HIDE DEF entered, Of, Extent, indexes
  <2>4. {Of(g) : g \in indexes} = {Extent(e) : e \in entered}
    BY <2>3
  <2> QED
    BY <2>4 DEF Of, Extent, indexes
<1>9. \A g, h \in DOMAIN groups : g < h => groups[g].start < groups[h].start
  <2> TAKE g, h \in DOMAIN groups
  <2> HAVE g < h
  <2>1. at[g] < at[h]
    BY <1>4, <1>7 DEF Enters
  <2>2. w[at[g]].offset < w[at[h]].offset
    BY <1>2, <1>7, <2>1 DEF Nests, Placed
  <2> QED
    BY <1>7, <2>2
<1>10. /\ T \in Trees /\ groups \in Seq(Entries) /\ T.roots \in Seq(Nat)
       /\ \A g \in 1 .. A : groups[g].children \in Seq(Refs)
  <2>1. T \in Trees /\ groups \in Seq(Entries) /\ T.roots \in Seq(Nat)
    BY <1>5 DEF TreeAt, Trees
  <2>2. \A g \in 1 .. A : groups[g] \in Entries
    BY <1>7, <2>1
  <2> QED
    BY <2>1, <2>2 DEF Entries
<1>11. ASSUME NEW g \in DOMAIN groups
       PROVE  groups[g].parent = Innermost(T, groups[g].start)
  <2>1. InnerAt(w, at, A, at[g], groups[g].parent)
    BY <1>5, <1>7 DEF TreeAt, Grouped
  <2>2. Innermost(T, w[at[g]].offset) = groups[g].parent
    BY <1>1, <1>2, <1>4, <1>5, <1>7, <2>1, InnermostIs
  <2> QED
    BY <1>7, <2>2
<1>12. ASSUME NEW g \in DOMAIN groups
       PROVE  Held(T.roots, g) = OnceIf(groups[g].parent = 0)
  <2>1. HeldIf(T.roots, g, groups[g].parent = 0)
    BY <1>5, <1>7 DEF TreeAt, Rooted
  <2> QED
    BY <1>10, <2>1, HeldIs
<1>13. ASSUME NEW g \in DOMAIN groups, NEW h \in DOMAIN groups
       PROVE  Held(groups[h].children, GroupRef(g)) = OnceIf(h = groups[g].parent)
  <2>1. HeldIf(groups[h].children, GroupRef(g), h = groups[g].parent)
    BY <1>5, <1>7 DEF TreeAt, GroupsFiled
  <2> QED
    BY <1>7, <1>10, <2>1, HeldIs
<1>14. ASSUME NEW g \in DOMAIN groups, NEW pos \in ToSet(WalkRecords(file))
       PROVE  Held(groups[g].children, RecordRef(pos)) = OnceIf(g = Innermost(T, pos))
  <2>1. PICK k \in DOMAIN w : w[k].kind = "record" /\ w[k].offset = pos
    BY <1>6
  <2>2. k \in Nat /\ k <= Len(w) /\ Opening(w, k)
    BY <1>1, <2>1 DEF Opening
  <2>3. PICK p : /\ InnerAt(w, at, A, k, p)
                 /\ \A h \in 1 .. Len(groups) : HeldIf(groups[h].children, RecordRef(w[k].offset), h = p)
    BY <1>5, <2>1, <2>2 DEF TreeAt, RecordsFiled
  <2>4. Innermost(T, w[k].offset) = p
    BY <1>1, <1>2, <1>4, <1>5, <2>2, <2>3, InnermostIs
  <2>5. HeldIf(groups[g].children, RecordRef(pos), g = p)
    BY <1>7, <2>1, <2>3
  <2> QED
    BY <1>7, <1>10, <2>1, <2>4, <2>5, HeldIs
<1>15. ASSUME NEW g \in DOMAIN groups, NEW size \in 1 .. Len(groups[g].children)
       PROVE  Paged(file, T, g, size) = Rows(file, T, g)
  <2>1. groups[g].start \in DOMAIN T.offsets /\ T.offsets[groups[g].start] = g
    BY <1>5, <1>7 DEF TreeAt, Grouped
  <2> QED
    BY <1>7, <1>10, <2>1, PagedIs
<1> HIDE DEF groups, entered
<1>16. /\ groups = T.groups /\ entered = {event \in ToSet(WalkStructure(file)) : event.kind = "start"}
  BY DEF groups, entered, w
<1> QED
  BY <1>8, <1>9, <1>11, <1>12, <1>13, <1>14, <1>15, Zenon DEF TreeAgrees, groups, entered, w, T

\* Whatever a file holds, whoever browses it once it is scanned meets each group
\* and each record once, under the smallest group that holds it, page by page.
THEOREM TreeAlwaysBrowsedOnce ==
    (\E q \in ScanRequests : Asked(q)) /\ [][Scan \/ Elsewhere("scan")]_vars => []BrowsedOnce
<1> DEFINE Inv == request \in ScanRequests /\ BrowsedOnce
<1>1. (\E q \in ScanRequests : Asked(q)) => Inv
  BY DEF Asked, Pending, BrowsedOnce, Answered
<1>2. Inv /\ [Scan \/ Elsewhere("scan")]_vars => Inv'
  <2> SUFFICES ASSUME Inv, [Scan \/ Elsewhere("scan")]_vars
               PROVE  Inv'
    OBVIOUS
  <2>1. CASE Scan
    <3>1. CASE Refuse("scan")
      BY <3>1 DEF Refuse, BrowsedOnce, Answered
    <3>2. CASE ~ScanFails(request.file) /\ Run("scan", ScanOf(request.file))
      <4>1. request' = request /\ request.file \in Files /\ Out' = ScanOf(request.file)
        BY <3>2 DEF Run, Out, ScanRequests
      <4>2. Out'.tree = TreeOf(request.file)
        BY <4>1 DEF ScanOf
      <4>3. TreeAgrees(request.file, Out'.tree)
        BY <3>2, <4>1, <4>2, TreeIsExact
      <4>4. BrowsedOnce'
        BY <4>1, <4>3 DEF BrowsedOnce
      <4> QED
        BY <4>1, <4>4
    <3> QED
      BY <2>1, <3>1, <3>2 DEF Scan
  <2>2. CASE Elsewhere("scan")
    <3>1. request' = request /\ request.op # "scan"
      BY <2>2 DEF Elsewhere, Run, Refuse
    <3> QED
      BY <3>1 DEF BrowsedOnce, Answered
  <2>3. CASE UNCHANGED vars
    BY <2>3 DEF vars, BrowsedOnce, Answered, Out
  <2> QED
    BY <2>1, <2>2, <2>3
<1>3. Inv => BrowsedOnce
  OBVIOUS
<1> HIDE DEF Inv
<1> QED
  BY <1>1, <1>2, <1>3, PTL

-----------------------------------------------------------------------------
(* Reference graphs.                                                       *)

\* A sequence that holds nothing twice.
Once(s) == \A i, j \in DOMAIN s : s[i] = s[j] => i = j

\* What is picked holds what the indices lead to, and nothing twice if they
\* lead to different elements.
LEMMA PickedHolds ==
    ASSUME NEW T, NEW s \in Seq(T), NEW I \in SUBSET DOMAIN s
    PROVE  /\ Picked(s, I) \in Seq(T)
           /\ ToSet(Picked(s, I)) = {s[i] : i \in I}
           /\ (\A i, j \in I : s[i] = s[j] => i = j) => Once(Picked(s, I))
<1> DEFINE r == Rising(I)
           p == Picked(s, I)
           k == Cardinality(I)
<1>1. /\ k \in Nat /\ Picks(r, I) /\ p = [n \in 1 .. k |-> s[r[n]]] /\ p \in Seq(T) /\ Len(p) = k
  BY PickedIs
<1>2. /\ r \in [1 .. k -> I] /\ I = {r[n] : n \in 1 .. k}
      /\ \A m, n \in 1 .. k : m < n => r[m] < r[n]
  BY <1>1 DEF Picks
<1> HIDE DEF r, p, k
<1>3. DOMAIN p = 1 .. k
  BY <1>1
<1>4. ToSet(p) = {s[i] : i \in I}
  BY <1>1, <1>2, <1>3 DEF ToSet
<1>5. ASSUME \A i, j \in I : s[i] = s[j] => i = j
      PROVE  Once(p)
  <2> SUFFICES ASSUME NEW m \in 1 .. k, NEW n \in 1 .. k, p[m] = p[n]
               PROVE  m = n
    BY <1>3 DEF Once
  <2>1. r[m] \in I /\ r[n] \in I /\ s[r[m]] = s[r[n]]
    BY <1>1, <1>2
  <2>2. r[m] = r[n]
    BY <1>5, <2>1
  <2>3. I \in SUBSET Nat
    OBVIOUS
  <2>4. ~(r[m] < r[n]) /\ ~(r[n] < r[m])
    BY <2>1, <2>2, <2>3
  <2> QED
    BY <1>1, <1>2, <2>4
<1> QED
  BY <1>1, <1>4, <1>5 DEF p

\* A reference graph: every FormID is indexed once, and none is the null one.
IsGraph(db) ==
    /\ db.order \in Seq(Nat) /\ Once(db.order) /\ NoForm \notin Defined(db)
    /\ \A id \in Forms(db) : db.body[id] \in Seq(Nat)

\* Those that name one form.
Naming(db, id) == NextTo(db, {id})

\* The referencers of a form are the records that name it, each once.
LEMMA ReferencersAre ==
    ASSUME NEW db, IsGraph(db), NEW id
    PROVE  /\ ReferencersOf(db, id) \in Seq(Forms(db))
           /\ ToSet(ReferencersOf(db, id)) = Naming(db, id)
           /\ Once(ReferencersOf(db, id))
<1> DEFINE names == {i \in DOMAIN db.order : db.order[i] # id /\ id \in ToSet(db.body[db.order[i]])}
           I == IF id \in Defined(db) THEN names ELSE {}
<1>1. db.order \in Seq(Nat) /\ Once(db.order)
  BY DEF IsGraph
<1>2. db.order \in Seq(Forms(db))
  BY <1>1 DEF Forms, ToSet
<1>3. I \in SUBSET DOMAIN db.order /\ (\A i, j \in I : db.order[i] = db.order[j] => i = j)
  BY <1>1 DEF Once
<1>4. ReferencersOf(db, id) = Picked(db.order, I)
  BY Zenon DEF ReferencersOf
<1>5. {db.order[i] : i \in I} = Naming(db, id)
  <2>1. CASE id \in Defined(db)
    <3>1. {db.order[i] : i \in names} = {r \in Forms(db) : r # id /\ id \in ToSet(db.body[r])}
      BY Zenon DEF Forms, ToSet
    <3>2. Naming(db, id) = {r \in Forms(db) : r # id /\ id \in ToSet(db.body[r])}
      BY <2>1 DEF Naming, NextTo
    <3> QED
      BY <2>1, <3>1, <3>2
  <2>2. CASE id \notin Defined(db)
    BY <2>2 DEF Naming, NextTo
  <2> QED
    BY <2>1, <2>2
<1> HIDE DEF I
<1>6. /\ Picked(db.order, I) \in Seq(Forms(db))
      /\ ToSet(Picked(db.order, I)) = {db.order[i] : i \in I}
      /\ Once(Picked(db.order, I))
  <2> HIDE DEF names
  <2> QED
    BY <1>2, <1>3, PickedHolds
<1> QED
  BY <1>4, <1>5, <1>6


-----------------------------------------------------------------------------
(* Distances.                                                              *)

\* What is within n hops of the seeds, for n up to max.
Levels(db, W, S, max) ==
    /\ W \in [0 .. max -> SUBSET (S \cup Forms(db))] /\ W[0] = S
    /\ \A n \in 1 .. max : W[n] = W[n - 1] \cup NextTo(db, W[n - 1])

LEMMA WithinIs ==
    ASSUME NEW db, NEW S, NEW max \in Nat
    PROVE  Levels(db, Within(db, S, max), S, max)
<1> DEFINE Sets == SUBSET (S \cup Forms(db))
           More(s) == s \cup NextTo(db, s)
           Is(f) == f = [n \in 0 .. max |-> IF n = 0 THEN S ELSE More(f[n - 1])]
           within == CHOOSE f : Is(f)
           step == [x \in Sets \X (1 .. max) |-> More(x[1])]
<1>1. Within(db, S, max) = within
  BY Zenon DEF Within
<1>2. S \in Sets /\ \A s \in Sets : More(s) \in Sets
  BY DEF NextTo
<1> HIDE DEF More, Sets
<1>3. Is(within)
  <2>1. step \in [Sets \X (1 .. max) -> Sets]
    BY <1>2
  <2> HIDE DEF step
  <2>2. PICK f : Iterates(f, max, Sets, S, step)
    BY <1>2, <2>1, Iteration
  <2>3. \A n \in 1 .. max : f[n] = More(f[n - 1])
    <3>1. \A n \in 1 .. max : f[n - 1] \in Sets /\ f[n] = step[<<f[n - 1], n>>]
      BY <2>2 DEF Iterates
    <3> QED
      BY <3>1 DEF step
  <2>4. f = [n \in 0 .. max |-> IF n = 0 THEN S ELSE More(f[n - 1])] /\ f \in [0 .. max -> Sets]
    BY <2>2, <2>3 DEF Iterates
  <2> QED
    BY <2>4
<1> HIDE DEF within
<1>4. within[0] = S /\ \A n \in 1 .. max : within[n] = More(within[n - 1])
  BY <1>3
<1> DEFINE bad == {n \in 0 .. max : within[n] \notin Sets}
<1>5. bad = {}
  <2> SUFFICES ASSUME bad # {} PROVE FALSE
    OBVIOUS
  <2>1. PICK m \in bad : \A n \in bad : m <= n
    <3>1. bad \in SUBSET Nat
      OBVIOUS
    <3> HIDE DEF bad
    <3> QED
      BY <3>1, LeastOf
  <2>2. m \in 1 .. max /\ m - 1 \in 0 .. max /\ m - 1 \notin bad
    BY <1>2, <1>4, <2>1
  <2> QED
    BY <1>2, <1>4, <2>1, <2>2
<1>6. within \in [0 .. max -> Sets]
  BY <1>3, <1>5
<1> QED
  BY <1>1, <1>4, <1>6 DEF Levels, More, Sets

\* Levels grow, and one is the first that a form is in.
LEMMA LevelsGrow ==
    ASSUME NEW db, NEW S, NEW max \in Nat, NEW W, Levels(db, W, S, max)
    PROVE  /\ \A m, n \in 0 .. max : m <= n => W[m] \subseteq W[n]
           /\ \A n \in 0 .. max : \A id \in W[n] : \E m \in 0 .. n : AtHops(W, m, id)
<1> DEFINE Good(n) == \A m \in 0 .. n : W[m] \subseteq W[n]
           bad == {n \in 0 .. max : ~Good(n)}
<1>1. bad = {}
  <2> SUFFICES ASSUME bad # {} PROVE FALSE
    OBVIOUS
  <2>1. PICK m \in bad : \A n \in bad : m <= n
    <3>1. bad \in SUBSET Nat
      OBVIOUS
    <3> HIDE DEF bad
    <3> QED
      BY <3>1, LeastOf
  <2>2. m \in 1 .. max /\ m - 1 \in 0 .. max /\ Good(m - 1)
    BY <2>1
  <2>3. W[m - 1] \subseteq W[m]
    BY <2>2 DEF Levels
  <2>4. Good(m)
    <3> SUFFICES ASSUME NEW k \in 0 .. m PROVE W[k] \subseteq W[m]
      OBVIOUS
    <3>1. k = m \/ k \in 0 .. m - 1
      BY <2>2
    <3> QED
      BY <2>2, <2>3, <3>1
  <2> QED
    BY <2>1, <2>4
<1>2. \A m, n \in 0 .. max : m <= n => W[m] \subseteq W[n]
  <2> SUFFICES ASSUME NEW m \in 0 .. max, NEW n \in 0 .. max, m <= n PROVE W[m] \subseteq W[n]
    OBVIOUS
  <2>1. Good(n) /\ m \in 0 .. n
    BY <1>1
  <2> QED
    BY <2>1
<1>3. ASSUME NEW n \in 0 .. max, NEW id \in W[n]
      PROVE  \E m \in 0 .. n : AtHops(W, m, id)
  <2> DEFINE in == {m \in 0 .. n : id \in W[m]}
  <2>1. in \in SUBSET Nat /\ n \in in
    OBVIOUS
  <2>2. PICK m \in in : \A k \in in : m <= k
    <3> HIDE DEF in
    <3> QED
      BY <2>1, LeastOf
  <2>3. m = 0 \/ id \notin W[m - 1]
    <3> SUFFICES ASSUME m # 0, id \in W[m - 1] PROVE FALSE
      OBVIOUS
    <3>1. m - 1 \in in
      BY <2>2
    <3> QED
      BY <2>2, <3>1
  <2> QED
    BY <2>2, <2>3 DEF AtHops
<1> QED
  BY <1>2, <1>3

\* What names a form is at most one hop further.
LEMMA OneBehind ==
    ASSUME NEW db, NEW S, NEW max \in Nat, NEW W, Levels(db, W, S, max), NEW id,
           NEW n \in 1 .. max, NEW before \in W[n - 1], id \in Naming(db, before)
    PROVE  id \in W[n]
<1>1. W[n] = W[n - 1] \cup NextTo(db, W[n - 1])
  BY DEF Levels
<1>2. NextTo(db, {before}) \subseteq NextTo(db, W[n - 1])
  BY DEF NextTo
<1> QED
  BY <1>1, <1>2 DEF Naming

\* A form is at one distance only.
LEMMA OneDistance ==
    ASSUME NEW db, NEW S, NEW max \in Nat, NEW W, Levels(db, W, S, max), NEW id,
           NEW m \in 0 .. max, NEW n \in 0 .. max, AtHops(W, m, id), AtHops(W, n, id)
    PROVE  m = n
<1>1. ASSUME NEW i \in 0 .. max, NEW j \in 0 .. max, AtHops(W, i, id), AtHops(W, j, id), i < j
      PROVE  FALSE
  <2>1. j - 1 \in 0 .. max /\ i <= j - 1 /\ id \in W[i] /\ id \notin W[j - 1]
    BY <1>1 DEF AtHops
  <2> QED
    BY <2>1, LevelsGrow
<1>2. ~(m < n) /\ ~(n < m)
  BY <1>1
<1> QED
  BY <1>2

\* It names one of the distance before.
LEMMA OneBefore ==
    ASSUME NEW db, NEW S, NEW max \in Nat, NEW W, Levels(db, W, S, max), NEW id,
           NEW n \in 1 .. max, AtHops(W, n, id)
    PROVE  \E before : AtHops(W, n - 1, before) /\ id \in Naming(db, before)
<1>1. n - 1 \in 0 .. max /\ n # 0 /\ W[n] = W[n - 1] \cup NextTo(db, W[n - 1])
  BY DEF Levels
<1>2. id \in NextTo(db, W[n - 1])
  BY <1>1 DEF AtHops
<1>3. PICK before \in W[n - 1] : id \in NextTo(db, {before})
  BY <1>2 DEF NextTo
<1>4. PICK m \in 0 .. n - 1 : AtHops(W, m, before)
  BY <1>1, LevelsGrow
<1>5. m = n - 1
  <2> SUFFICES ASSUME m # n - 1 PROVE FALSE
    OBVIOUS
  <2>1. m + 1 \in 1 .. max /\ (m + 1) - 1 = m /\ m + 1 <= n - 1 /\ m + 1 \in 0 .. max
    BY <1>1, <1>4
  <2>2. before \in W[(m + 1) - 1]
    BY <1>4, <2>1 DEF AtHops
  <2>3. id \in W[m + 1]
    BY <1>3, <2>1, <2>2, OneBehind DEF Naming
  <2>4. W[m + 1] \subseteq W[n - 1]
    BY <1>1, <2>1, LevelsGrow
  <2> QED
    BY <1>1, <2>3, <2>4 DEF AtHops
<1> QED
  BY <1>3, <1>4, <1>5 DEF Naming

-----------------------------------------------------------------------------
(* Steps of the walk.                                                      *)

Spots == [node : Nat, tags : SUBSET Nat, path : Seq(Nat)]
RefRows == [id : Nat, depth : Nat, path : Seq(Nat), tags : SUBSET Nat]
WalkStates == [seen : SUBSET Nat, queued : Seq(Spots), carriers : Seq(RefRows), rows : Seq(RefRows), frontier : Nat]

\* t is s and behind it the elements of X, each once.
Adds(s, t, X) ==
    /\ Len(s) <= Len(t) /\ \A i \in 1 .. Len(s) : t[i] = s[i]
    /\ \A i \in Len(s) + 1 .. Len(t) : t[i] \in X
    /\ \A x \in X : \E i \in Len(s) + 1 .. Len(t) : t[i] = x
    /\ \A i, j \in Len(s) + 1 .. Len(t) : t[i] = t[j] => i = j

LEMMA JoinedIs ==
    ASSUME NEW T, NEW s \in Seq(T), NEW t \in Seq(T), Once(t)
    PROVE  s \o t \in Seq(T) /\ Adds(s, s \o t, ToSet(t))
<1> DEFINE m == Len(s)
           k == Len(t)
           all == s \o t
<1>1. /\ m \in Nat /\ k \in Nat /\ all \in Seq(T) /\ Len(all) = m + k /\ DOMAIN t = 1 .. k
      /\ \A i \in 1 .. m : all[i] = s[i]
      /\ \A i \in 1 .. k : all[m + i] = t[i]
  OBVIOUS
<1> HIDE DEF all, m, k
<1>2. \A i \in m + 1 .. m + k : i - m \in 1 .. k /\ m + (i - m) = i
  BY <1>1
<1>3. \A i \in m + 1 .. m + k : all[i] = t[i - m] /\ i - m \in 1 .. k
  BY <1>1, <1>2
<1>4. \A j \in 1 .. k : m + j \in m + 1 .. m + k /\ all[m + j] = t[j]
  <2>1. ASSUME NEW j \in 1 .. k PROVE m + j \in m + 1 .. m + k
    <3>1. m \in Nat /\ k \in Nat
      BY <1>1
    <3> QED
      BY <3>1
  <2> QED
    BY <1>1, <2>1
<1>5. ASSUME NEW i \in m + 1 .. m + k, NEW j \in m + 1 .. m + k, all[i] = all[j]
      PROVE  i = j
  <2>1. i - m \in DOMAIN t /\ j - m \in DOMAIN t /\ t[i - m] = t[j - m]
    BY <1>1, <1>3, <1>5
  <2>2. i - m = j - m
    BY <2>1 DEF Once
  <2> QED
    BY <1>1, <2>2
<1>6. m <= m + k
  BY <1>1
<1>7. \A i \in m + 1 .. m + k : all[i] \in ToSet(t)
  BY <1>1, <1>3 DEF ToSet
<1>8. \A x \in ToSet(t) : \E i \in m + 1 .. m + k : all[i] = x
  BY <1>1, <1>4 DEF ToSet
<1>9. Adds(s, all, ToSet(t))
  BY <1>1, <1>5, <1>6, <1>7, <1>8 DEF Adds, m
<1> QED
  BY <1>1, <1>9 DEF all

\* The images of what a sequence holds once are held once.
LEMMA AddsIs ==
    ASSUME NEW T, NEW s \in Seq(T), NEW U, NEW p \in Seq(U), Once(p),
           NEW f \in [U -> T], \A x, y \in U : f[x] = f[y] => x = y
    PROVE  /\ s \o [i \in DOMAIN p |-> f[p[i]]] \in Seq(T)
           /\ Adds(s, s \o [i \in DOMAIN p |-> f[p[i]]], {f[x] : x \in ToSet(p)})
<1> DEFINE k == Len(p)
           t == [i \in DOMAIN p |-> f[p[i]]]
<1>1. k \in Nat /\ DOMAIN p = 1 .. k /\ \A i \in 1 .. k : p[i] \in U /\ f[p[i]] \in T
  OBVIOUS
<1>2. t \in [1 .. k -> T]
  BY <1>1
<1>3. t \in Seq(T)
  <2> HIDE DEF k, t
  <2> QED
    BY <1>1, <1>2
<1>4. Once(t)
  BY <1>1 DEF Once
<1>5. ToSet(t) = {f[x] : x \in ToSet(p)}
  BY <1>1 DEF ToSet
<1> HIDE DEF t
<1>6. s \o t \in Seq(T) /\ Adds(s, s \o t, ToSet(t))
  BY <1>3, <1>4, JoinedIs
<1> QED
  BY <1>5, <1>6 DEF t

\* What a step makes of a referencer.
Hop(emit, item) == Len(item.path) + 1 - (IF emit THEN 1 ELSE 0)
NewRow(emit, item, id) == [id |-> id, depth |-> Hop(emit, item), path |-> item.path, tags |-> item.tags]
NewSpot(item, id) == [node |-> id, tags |-> item.tags, path |-> Append(item.path, id)]
Fresh(db, walk, item) == Naming(db, item.node) \ walk.seen
Merged(db, emit, walk, item) == MergeTags(walk.rows, Naming(db, item.node), Hop(emit, item), item.tags)

Discovers(db, emit, filter, max, walk, item, then) ==
    /\ then \in WalkStates /\ then.carriers = walk.carriers
    /\ then.seen = walk.seen \cup Naming(db, item.node)
    /\ Adds(Merged(db, emit, walk, item), then.rows,
            {NewRow(emit, item, id) : id \in {id \in Fresh(db, walk, item) : TypeMatches(db, filter, id)}})
    /\ IF Hop(emit, item) < max THEN Adds(walk.queued, then.queued, {NewSpot(item, id) : id \in Fresh(db, walk, item)})
       ELSE then.queued = walk.queued

LEMMA DiscoverIs ==
    ASSUME NEW db, IsGraph(db), NEW emit \in BOOLEAN, NEW filter, NEW max \in Nat,
           NEW walk \in WalkStates, NEW item \in Spots
    PROVE  Discovers(db, emit, filter, max, walk, item, Discover(db, emit, filter, max, walk, item))
<1> DEFINE depth == Hop(emit, item)
           found == ReferencersOf(db, item.node)
           F == Forms(db)
           I == {i \in DOMAIN found : found[i] \notin walk.seen}
           new == Picked(found, I)
           J == {i \in DOMAIN new : TypeMatches(db, filter, new[i])}
           listed == Picked(new, J)
           row == [id \in F |-> NewRow(emit, item, id)]
           spot == [id \in F |-> NewSpot(item, id)]
           merged == MergeTags(walk.rows, ToSet(found), depth, item.tags)
           rows == merged \o [i \in DOMAIN listed |-> NewRow(emit, item, listed[i])]
           longer == walk.queued \o [i \in DOMAIN new |-> NewSpot(item, new[i])]
           then == Discover(db, emit, filter, max, walk, item)
<1>1. then = [walk EXCEPT !.seen = walk.seen \cup ToSet(found),
                          !.rows = rows,
                          !.queued = IF depth < max THEN longer ELSE walk.queued,
                          !.frontier = IF depth < max THEN walk.frontier ELSE walk.frontier + Len(new)]
  BY Zenon DEF Discover, Hop, NewRow, NewSpot
<1>2. found \in Seq(F) /\ ToSet(found) = Naming(db, item.node) /\ Once(found)
  BY ReferencersAre
<1>3. F \in SUBSET Nat
  BY DEF Forms, IsGraph, ToSet
<1>4. depth \in Nat
  BY DEF Hop, Spots
<1>5. row \in [F -> RefRows] /\ \A x, y \in F : row[x] = row[y] => x = y
  <2>1. \A x \in F : NewRow(emit, item, x) \in RefRows /\ NewRow(emit, item, x).id = x
    BY <1>3, <1>4 DEF NewRow, RefRows, Spots
  <2> QED
    BY <2>1
<1>6. spot \in [F -> Spots] /\ \A x, y \in F : spot[x] = spot[y] => x = y
  <2>1. \A x \in F : NewSpot(item, x) \in Spots /\ NewSpot(item, x).node = x
    BY <1>3 DEF NewSpot, Spots
  <2> QED
    BY <2>1
<1> HIDE DEF found, F
<1>7. new \in Seq(F) /\ ToSet(new) = Fresh(db, walk, item) /\ Once(new)
  <2>1. I \in SUBSET DOMAIN found /\ \A i, j \in I : found[i] = found[j] => i = j
    BY <1>2 DEF Once
  <2>2. {found[i] : i \in I} = Fresh(db, walk, item)
    BY <1>2 DEF Fresh, ToSet
  <2> HIDE DEF I
  <2>3. Picked(found, I) \in Seq(F) /\ ToSet(Picked(found, I)) = {found[i] : i \in I} /\ Once(Picked(found, I))
    BY <1>2, <2>1, PickedHolds
  <2> QED
    BY <2>2, <2>3
<1> HIDE DEF new
<1>8. listed \in Seq(F) /\ ToSet(listed) = {id \in Fresh(db, walk, item) : TypeMatches(db, filter, id)} /\ Once(listed)
  <2>1. J \in SUBSET DOMAIN new /\ \A i, j \in J : new[i] = new[j] => i = j
    BY <1>7 DEF Once
  <2>2. {new[i] : i \in J} = {id \in Fresh(db, walk, item) : TypeMatches(db, filter, id)}
    BY <1>7, Zenon DEF ToSet
  <2> HIDE DEF J
  <2> QED
    BY <1>7, <2>1, <2>2, PickedHolds
<1> HIDE DEF listed
<1>9. merged = Merged(db, emit, walk, item) /\ merged \in Seq(RefRows)
  <2>1. merged = Merged(db, emit, walk, item)
    BY <1>2 DEF Merged
  <2>2. walk.rows \in Seq(RefRows) /\ Len(walk.rows) \in Nat /\ item.tags \in SUBSET Nat
    BY DEF WalkStates, Spots
  <2> DEFINE R == walk.rows
             one(i) == IF R[i].id \in ToSet(found) /\ R[i].depth = depth
                       THEN [R[i] EXCEPT !.tags = @ \union item.tags] ELSE R[i]
  <2>3. merged = [i \in DOMAIN R |-> one(i)]
    BY Zenon DEF MergeTags
  <2> HIDE DEF R
  <2>4. \A i \in DOMAIN R : one(i) \in RefRows
    <3> TAKE i \in DOMAIN R
    <3>1. R[i] \in RefRows
      BY <2>2 DEF R
    <3>2. [R[i] EXCEPT !.tags = @ \union item.tags] \in RefRows
      BY <2>2, <3>1 DEF RefRows
    <3> QED
      BY <3>1, <3>2
  <2> HIDE DEF one, merged
  <2>5. merged \in [1 .. Len(R) -> RefRows]
    BY <2>2, <2>3, <2>4 DEF R
  <2> QED
    BY <2>1, <2>2, <2>5 DEF R
<1> HIDE DEF merged
<1>10. rows \in Seq(RefRows)
       /\ Adds(merged, rows, {NewRow(emit, item, id) : id \in ToSet(listed)})
  <2>1. /\ merged \o [i \in DOMAIN listed |-> row[listed[i]]] \in Seq(RefRows)
        /\ Adds(merged, merged \o [i \in DOMAIN listed |-> row[listed[i]]], {row[x] : x \in ToSet(listed)})
    <3> HIDE DEF row
    <3> QED
      BY <1>5, <1>8, <1>9, AddsIs
  <2>2. \A i \in DOMAIN listed : listed[i] \in F /\ row[listed[i]] = NewRow(emit, item, listed[i])
    BY <1>8
  <2>3. ToSet(listed) \in SUBSET F
    BY <1>8 DEF ToSet
  <2>4. {row[x] : x \in ToSet(listed)} = {NewRow(emit, item, id) : id \in ToSet(listed)}
    BY <2>3
  <2>5. [i \in DOMAIN listed |-> row[listed[i]]] = [i \in DOMAIN listed |-> NewRow(emit, item, listed[i])]
    <3> HIDE DEF row
    <3> QED
      BY <2>2
  <2> HIDE DEF row
  <2> QED
    BY <2>1, <2>4, <2>5
<1>11. longer \in Seq(Spots) /\ Adds(walk.queued, longer, {NewSpot(item, id) : id \in ToSet(new)})
  <2>1. walk.queued \in Seq(Spots)
    BY DEF WalkStates
  <2>2. /\ walk.queued \o [i \in DOMAIN new |-> spot[new[i]]] \in Seq(Spots)
        /\ Adds(walk.queued, walk.queued \o [i \in DOMAIN new |-> spot[new[i]]], {spot[x] : x \in ToSet(new)})
    <3> DEFINE q == walk.queued
    <3>1. q \in Seq(Spots)
      BY <2>1
    <3> HIDE DEF depth, I, J, row, rows, spot, longer, then, q
    <3>2. /\ q \o [i \in DOMAIN new |-> spot[new[i]]] \in Seq(Spots)
          /\ Adds(q, q \o [i \in DOMAIN new |-> spot[new[i]]], {spot[x] : x \in ToSet(new)})
      BY <1>6, <1>7, <3>1, AddsIs
    <3> QED
      BY <3>2 DEF q
  <2>3. \A i \in DOMAIN new : new[i] \in F /\ spot[new[i]] = NewSpot(item, new[i])
    BY <1>7
  <2>4. ToSet(new) \in SUBSET F
    BY <1>7 DEF ToSet
  <2>5. {spot[x] : x \in ToSet(new)} = {NewSpot(item, id) : id \in ToSet(new)}
    BY <2>4
  <2>6. [i \in DOMAIN new |-> spot[new[i]]] = [i \in DOMAIN new |-> NewSpot(item, new[i])]
    <3> HIDE DEF spot
    <3> QED
      BY <2>3
  <2> HIDE DEF spot
  <2> QED
    BY <2>2, <2>5, <2>6
<1> HIDE DEF rows, longer, depth
<1>12. /\ then.seen = walk.seen \cup Naming(db, item.node) /\ then.rows = rows
       /\ then.queued = (IF depth < max THEN longer ELSE walk.queued)
       /\ then.frontier = (IF depth < max THEN walk.frontier ELSE walk.frontier + Len(new))
       /\ then.carriers = walk.carriers
       /\ then = [seen |-> then.seen, queued |-> then.queued, carriers |-> then.carriers, rows |-> then.rows,
                  frontier |-> then.frontier]
  <2> HIDE DEF then
  <2> QED
    BY <1>1, <1>2 DEF WalkStates
<1>13. then \in WalkStates
  <2>1. /\ walk.seen \in SUBSET Nat /\ walk.queued \in Seq(Spots) /\ walk.carriers \in Seq(RefRows)
        /\ walk.frontier \in Nat
    BY DEF WalkStates
  <2>2. Naming(db, item.node) \in SUBSET Nat
    BY <1>3 DEF Naming, NextTo, F
  <2>3. Len(new) \in Nat
    BY <1>7
  <2> HIDE DEF then
  <2>4. /\ then.seen \in SUBSET Nat /\ then.queued \in Seq(Spots) /\ then.carriers \in Seq(RefRows)
        /\ then.rows \in Seq(RefRows) /\ then.frontier \in Nat
    BY <1>10, <1>11, <1>12, <2>1, <2>2, <2>3
  <2> QED
    BY <1>12, <2>4 DEF WalkStates
<1> HIDE DEF then
<1>14. Discovers(db, emit, filter, max, walk, item, then)
  BY <1>7, <1>8, <1>9, <1>10, <1>11, <1>12, <1>13 DEF Discovers, depth
<1> QED
  BY <1>14 DEF then

-----------------------------------------------------------------------------
(* A breadth-first walk.                                                   *)

\* What a walk c is asked to do: over the graph c.db, from the seeds c.S (their
\* tags in c.tag), for at most c.max hops.  c.W are the levels around the seeds;
\* c.e is 1 if a path holds its seed, and otherwise c.start does; c.base is the
\* length of the queue at the start.
IsJob(c) ==
    /\ IsGraph(c.db) /\ c.e \in 0 .. 1 /\ c.max \in Nat \ {0} /\ Levels(c.db, c.W, c.S, c.max)
    /\ c.S \in SUBSET Nat /\ c.tag \in [c.S -> SUBSET Nat] /\ c.base \in Nat
    /\ c.start \in Seq(c.S) /\ Len(c.start) = 1 - c.e

\* A chain of references from a seed to a form, as it is kept in a path.
Trail(c, path) == c.start \o path
Leads(c, path, id) ==
    LET t == Trail(c, path)
    IN  Len(t) >= 1 /\ t[1] \in c.S /\ t[Len(t)] = id /\ IsChain(c.db, t)

Far(c, spot) == Len(spot.path) - c.e

SpotOk(c, spot) ==
    /\ Far(c, spot) \in 0 .. c.max - 1 /\ AtHops(c.W, Far(c, spot), spot.node)
    /\ Leads(c, spot.path, spot.node)
    /\ c.e = 1 => spot.path[1] \in c.S /\ spot.tags = c.tag[spot.path[1]]

\* Seeds that a record is next to have given it their tags, as far as done.
TagsBy(c, done, id) == UNION {c.tag[s] : s \in {s \in c.S \cap done : id \in Naming(c.db, s)}}

RowOk(c, done, row) ==
    /\ row.id \in Forms(c.db) /\ TypeMatches(c.db, c.filter, row.id)
    /\ row.depth \in 1 .. c.max /\ AtHops(c.W, row.depth, row.id)
    /\ Len(row.path) = row.depth - 1 + c.e
    /\ \E before : Leads(c, row.path, before) /\ row.id \in Naming(c.db, before)
    /\ c.e = 1 => /\ row.path[1] \in c.S /\ c.tag[row.path[1]] \subseteq row.tags
                  /\ row.depth = 1 => row.tags = TagsBy(c, done, row.id)

Done(n, q) == {q[i].node : i \in {i \in DOMAIN q : i <= n}}

QueueOk(c, n, q) ==
    /\ \A i \in DOMAIN q : SpotOk(c, q[i])
    /\ \A i, j \in DOMAIN q : q[i].node = q[j].node => i = j
    /\ \A i, j \in DOMAIN q : i < j => Far(c, q[i]) <= Far(c, q[j])
    /\ \A i, j \in DOMAIN q : n <= i => Far(c, q[j]) <= Far(c, q[i]) + 1
    /\ c.base <= Len(q) /\ \A i \in DOMAIN q : i > c.base => q[i].node \in Forms(c.db)

\* What a walk has seen is known how far from the seeds, and where it is kept.
KeptAt(c, w, k, id) ==
    /\ AtHops(c.W, k, id)
    /\ k < c.max => \E i \in DOMAIN w.queued : w.queued[i].node = id
    /\ k > 0 /\ TypeMatches(c.db, c.filter, id) => \E i \in DOMAIN w.rows : w.rows[i].id = id

SeenOk(c, n, w) ==
    /\ c.S \subseteq w.seen
    /\ \A i \in DOMAIN w.queued : /\ w.queued[i].node \in w.seen
                                  /\ i <= n => Naming(c.db, w.queued[i].node) \subseteq w.seen
    /\ \A id \in w.seen : \E k \in 0 .. c.max : KeptAt(c, w, k, id)

RowsOk(c, done, w) ==
    /\ \A i \in DOMAIN w.rows : RowOk(c, done, w.rows[i]) /\ w.rows[i].id \in w.seen
    /\ \A i, j \in DOMAIN w.rows : w.rows[i].id = w.rows[j].id => i = j

Walked(c, n, w) ==
    /\ w \in WalkStates /\ QueueOk(c, n, w.queued) /\ SeenOk(c, n, w)
    /\ RowsOk(c, Done(n, w.queued), w)

\* While all that is still queued is at least K hops away, everything that is
\* at most K hops away has been seen.
LEMMA SeenWithin ==
    ASSUME NEW c, IsJob(c), NEW n \in Nat, NEW w, Walked(c, n, w), NEW K \in 0 .. c.max,
           \A i \in DOMAIN w.queued : i > n => Far(c, w.queued[i]) >= K
    PROVE  \A k \in 0 .. K : \A id : AtHops(c.W, k, id) => id \in w.seen
<1> DEFINE Good(k) == \A id : AtHops(c.W, k, id) => id \in w.seen
           bad == {k \in 0 .. K : ~Good(k)}
           q == w.queued
<1>1. c.max \in Nat /\ K \in Nat /\ K <= c.max /\ Levels(c.db, c.W, c.S, c.max)
  BY DEF IsJob
<1>2. q \in Seq(Spots) /\ DOMAIN q \in SUBSET Nat
  BY DEF Walked, WalkStates
<1>3. /\ \A id \in w.seen : \E k \in 0 .. c.max : KeptAt(c, w, k, id)
      /\ \A i \in DOMAIN q : i <= n => Naming(c.db, q[i].node) \subseteq w.seen
  BY DEF Walked, SeenOk
<1>4. Good(0)
  <2>1. c.S \subseteq w.seen /\ c.W[0] = c.S
    BY <1>1 DEF Walked, SeenOk, Levels
  <2> QED
    BY <2>1 DEF AtHops
<1>5. ASSUME NEW k \in 1 .. K, Good(k - 1) PROVE Good(k)
  <2> SUFFICES ASSUME NEW id, AtHops(c.W, k, id) PROVE id \in w.seen
    OBVIOUS
  <2>1. k \in 1 .. c.max /\ k - 1 \in 0 .. c.max
    BY <1>1
  <2>2. PICK before : AtHops(c.W, k - 1, before) /\ id \in Naming(c.db, before)
    BY <1>1, <2>1, OneBefore
  <2>3. before \in w.seen
    BY <1>5, <2>2
  <2>4. PICK l \in 0 .. c.max : KeptAt(c, w, l, before)
    BY <1>3, <2>3
  <2>5. l = k - 1
    <3>1. AtHops(c.W, l, before)
      BY <2>4 DEF KeptAt
    <3> QED
      BY <1>1, <2>1, <2>2, <3>1, OneDistance
  <2>6. PICK i \in DOMAIN q : q[i].node = before
    <3>1. l < c.max
      BY <1>1, <2>1, <2>5
    <3> QED
      BY <2>4, <3>1 DEF KeptAt
  <2>7. Far(c, q[i]) = k - 1
    <3>1. Far(c, q[i]) \in 0 .. c.max - 1 /\ AtHops(c.W, Far(c, q[i]), before)
      BY <2>6 DEF Walked, QueueOk, SpotOk
    <3>2. Far(c, q[i]) \in 0 .. c.max
      BY <1>1, <3>1
    <3> HIDE DEF q
    <3> QED
      BY <1>1, <2>1, <2>2, <3>1, <3>2, OneDistance
  <2>8. i <= n
    BY <1>1, <1>2, <2>7
  <2> QED
    BY <1>3, <2>2, <2>6, <2>8
<1> HIDE DEF Good
<1>6. bad = {}
  <2> SUFFICES ASSUME bad # {} PROVE FALSE
    OBVIOUS
  <2>1. PICK m \in bad : \A k \in bad : m <= k
    <3>1. bad \in SUBSET Nat
      BY <1>1
    <3> HIDE DEF bad
    <3> QED
      BY <3>1, LeastOf
  <2>2. m \in 1 .. K /\ m - 1 \in 0 .. K /\ m - 1 \notin bad
    BY <1>1, <1>4, <2>1
  <2> QED
    BY <1>5, <2>1, <2>2
<1> QED
  BY <1>6 DEF Good

\* What is within some hops is that many away, or fewer.
LEMMA SomeHopsAway ==
    ASSUME NEW db, NEW S, NEW max \in Nat, NEW W, Levels(db, W, S, max), NEW n \in 0 .. max, NEW id \in W[n]
    PROVE  \E m \in 0 .. n : AtHops(W, m, id)
BY LevelsGrow

\* The next of the queue, and what it leads to that is new.
LEMMA NewIsNext ==
    ASSUME NEW c, IsJob(c), NEW n \in Nat, NEW w, Walked(c, n, w), n + 1 \in DOMAIN w.queued,
           NEW id \in Naming(c.db, w.queued[n + 1].node), id \notin w.seen
    PROVE  /\ Far(c, w.queued[n + 1]) + 1 \in 1 .. c.max
           /\ AtHops(c.W, Far(c, w.queued[n + 1]) + 1, id)
           /\ id \in Forms(c.db) /\ id \notin c.S
<1> DEFINE q == w.queued
           item == q[n + 1]
           K == Far(c, item)
<1>1. c.max \in Nat /\ Levels(c.db, c.W, c.S, c.max)
  BY DEF IsJob
<1>2. q \in Seq(Spots) /\ DOMAIN q \in SUBSET Nat
  BY DEF Walked, WalkStates
<1>3. K \in 0 .. c.max - 1 /\ AtHops(c.W, K, item.node)
  BY DEF Walked, QueueOk, SpotOk
<1>4. \A i \in DOMAIN q : i > n => Far(c, q[i]) >= K
  <2> TAKE i \in DOMAIN q
  <2> HAVE i > n
  <2>1. i = n + 1 \/ n + 1 < i
    BY <1>2
  <2>2. n + 1 < i => Far(c, item) <= Far(c, q[i])
    BY DEF Walked, QueueOk
  <2>3. Far(c, q[i]) \in 0 .. c.max - 1
    BY DEF Walked, QueueOk, SpotOk
  <2> HIDE DEF q
  <2> QED
    BY <1>1, <1>3, <2>1, <2>2, <2>3
<1>5. \A k \in 0 .. K : \A x : AtHops(c.W, k, x) => x \in w.seen
  <2> HIDE DEF K
  <2>1. K \in 0 .. c.max
    BY <1>1, <1>3
  <2> QED
    BY <1>4, <2>1, SeenWithin
<1> HIDE DEF K
<1>6. K + 1 \in 1 .. c.max /\ (K + 1) - 1 = K /\ K \in 0 .. c.max
  BY <1>1, <1>3
<1>7. id \in c.W[K + 1]
  <2>1. item.node \in c.W[(K + 1) - 1]
    BY <1>3, <1>6 DEF AtHops
  <2> HIDE DEF item
  <2> QED
    BY <1>1, <1>6, <2>1, OneBehind DEF item
<1>8. id \notin c.W[K]
  <2> SUFFICES ASSUME id \in c.W[K] PROVE FALSE
    OBVIOUS
  <2>1. \E k \in 0 .. K : AtHops(c.W, k, id)
    BY <1>1, <1>6, SomeHopsAway, Zenon
  <2>2. PICK k \in 0 .. K : AtHops(c.W, k, id)
    BY <2>1
  <2> QED
    BY <1>5, <2>2
<1>9. id \in Forms(c.db) /\ id \notin c.S
  <2>1. c.S \subseteq w.seen
    BY DEF Walked, SeenOk
  <2> QED
    BY <2>1 DEF Naming, NextTo
<1> QED
  BY <1>6, <1>7, <1>8, <1>9 DEF AtHops, K, item

\* One step of a walk.
StepOf(c, n, w, then) ==
    /\ IsJob(c) /\ n \in Nat /\ Walked(c, n, w) /\ n + 1 \in DOMAIN w.queued
    /\ Discovers(c.db, c.e = 1, c.filter, c.max, w, w.queued[n + 1], then)

\* An element behind a sequence is behind what that is behind.
LEMMA AppendJoins ==
    ASSUME NEW T, NEW s \in Seq(T), NEW p \in Seq(T), NEW x \in T
    PROVE  s \o p \in Seq(T) /\ s \o Append(p, x) = Append(s \o p, x)
<1> DEFINE a == s \o Append(p, x)
           b == Append(s \o p, x)
<1>1. /\ a \in Seq(T) /\ b \in Seq(T) /\ s \o p \in Seq(T) /\ Len(s) \in Nat /\ Len(p) \in Nat
      /\ Len(a) = Len(s) + Len(p) + 1 /\ Len(b) = Len(s) + Len(p) + 1
  OBVIOUS
<1>2. \A i \in 1 .. Len(s) + Len(p) + 1 : a[i] = b[i]
  OBVIOUS
<1> HIDE DEF a, b
<1>3. a = [i \in 1 .. Len(a) |-> a[i]] /\ b = [i \in 1 .. Len(b) |-> b[i]]
  BY <1>1
<1>4. a = b
  BY <1>1, <1>2, <1>3
<1> QED
  BY <1>1, <1>4 DEF a, b

\* Who names the end of a chain makes it longer.
LEMMA LeadsOn ==
    ASSUME NEW c, IsJob(c), NEW path \in Seq(Nat), NEW node, Leads(c, path, node),
           NEW id \in Nat, id \in Naming(c.db, node)
    PROVE  /\ Append(path, id) \in Seq(Nat) /\ Len(Append(path, id)) = Len(path) + 1
           /\ Leads(c, Append(path, id), id)
<1> DEFINE t == Trail(c, path)
           u == Trail(c, Append(path, id))
           k == Len(t)
<1>1. c.start \in Seq(Nat) /\ c.S \in SUBSET Nat
  BY DEF IsJob
<1>2. t \in Seq(Nat) /\ k \in Nat /\ u = Append(t, id)
  <2> DEFINE s == c.start
  <2>1. s \in Seq(Nat)
    BY <1>1
  <2> HIDE DEF s, t, u
  <2>2. s \o path \in Seq(Nat) /\ s \o Append(path, id) = Append(s \o path, id)
    BY <2>1, AppendJoins
  <2> QED
    BY <2>2 DEF Trail, s, t, u
<1>3. /\ k >= 1 /\ t[1] \in c.S /\ t[k] = node
      /\ \A i \in 1 .. k - 1 : t[i + 1] \in Forms(c.db) /\ t[i] \in ToSet(c.db.body[t[i + 1]])
  <2> HIDE DEF t
  <2> QED
    BY DEF Leads, IsChain, t
<1> HIDE DEF t, u
<1>4. Len(u) = k + 1 /\ u[k + 1] = id /\ \A i \in 1 .. k : u[i] = t[i]
  BY <1>2
<1>5. id \in Forms(c.db) /\ node \in ToSet(c.db.body[id])
  BY DEF Naming, NextTo
<1> HIDE DEF k
<1>6. \A i \in 1 .. k : u[i + 1] \in Forms(c.db) /\ u[i] \in ToSet(c.db.body[u[i + 1]])
  <2> TAKE i \in 1 .. k
  <2>1. CASE i = k
    BY <1>2, <1>3, <1>4, <1>5, <2>1
  <2>2. CASE i # k
    <3>1. i \in 1 .. k - 1 /\ i + 1 \in 1 .. k
      BY <1>2, <2>2
    <3> QED
      BY <1>3, <1>4, <3>1
  <2> QED
    BY <2>1, <2>2
<1>7. (k + 1) - 1 = k /\ 1 \in 1 .. k /\ k + 1 >= 1
  BY <1>2, <1>3
<1>8. Leads(c, Append(path, id), id)
  <2>1. /\ Len(u) >= 1 /\ u[1] \in c.S /\ u[Len(u)] = id
        /\ \A i \in 1 .. Len(u) - 1 : u[i + 1] \in Forms(c.db) /\ u[i] \in ToSet(c.db.body[u[i + 1]])
    BY <1>3, <1>4, <1>6, <1>7
  <2> QED
    BY <2>1 DEF Leads, IsChain, u
<1> QED
  BY <1>8

\* What is known of an item taken off the queue, and of what it leads to.
LEMMA NextItem ==
    ASSUME NEW c, NEW n, NEW w, NEW then, StepOf(c, n, w, then)
    PROVE  LET item == w.queued[n + 1]
               K == Far(c, item)
           IN  /\ item \in Spots /\ K \in Nat /\ Hop(c.e = 1, item) = K + 1 /\ Len(item.path) = K + c.e
               /\ SpotOk(c, item) /\ item.node \in w.seen
               /\ \A id \in Fresh(c.db, w, item) :
                    /\ id \in Nat /\ id \in Forms(c.db) /\ id \notin c.S /\ id \notin w.seen
                    /\ id \in Naming(c.db, item.node)
                    /\ K + 1 \in 1 .. c.max /\ AtHops(c.W, K + 1, id)
<1> DEFINE item == w.queued[n + 1]
           K == Far(c, item)
<1>1. IsJob(c) /\ n \in Nat /\ Walked(c, n, w) /\ n + 1 \in DOMAIN w.queued
  BY DEF StepOf
<1>2. item \in Spots
  BY <1>1 DEF Walked, WalkStates
<1>3. SpotOk(c, item) /\ item.node \in w.seen
  BY <1>1 DEF Walked, QueueOk, SeenOk
<1>4. c.max \in Nat /\ c.e \in 0 .. 1
  BY <1>1 DEF IsJob
<1> HIDE DEF item
<1>5. Len(item.path) \in Nat
  BY <1>2 DEF Spots
<1>6. K \in Nat
  BY <1>3, <1>4 DEF SpotOk
<1>7. Hop(c.e = 1, item) = K + 1 /\ Len(item.path) = K + c.e
  <2>1. K = Len(item.path) - c.e
    BY DEF Far
  <2>2. Hop(c.e = 1, item) = Len(item.path) + 1 - (IF c.e = 1 THEN 1 ELSE 0)
    BY Zenon DEF Hop
  <2>3. CASE c.e = 0
    BY <1>5, <2>1, <2>2, <2>3
  <2>4. CASE c.e = 1
    BY <1>5, <2>1, <2>2, <2>4
  <2> QED
    BY <1>4, <2>3, <2>4
<1>8. Forms(c.db) \in SUBSET Nat
  BY <1>1 DEF IsJob, IsGraph, Forms, ToSet
<1> HIDE DEF K
<1>9. \A id \in Fresh(c.db, w, item) :
        /\ id \in Nat /\ id \in Forms(c.db) /\ id \notin c.S /\ id \notin w.seen
        /\ id \in Naming(c.db, item.node)
        /\ K + 1 \in 1 .. c.max /\ AtHops(c.W, K + 1, id)
  <2> TAKE id \in Fresh(c.db, w, item)
  <2>1. id \in Naming(c.db, item.node) /\ id \notin w.seen
    BY DEF Fresh
  <2>2. /\ K + 1 \in 1 .. c.max /\ AtHops(c.W, K + 1, id) /\ id \in Forms(c.db) /\ id \notin c.S
    BY <1>1, <2>1, NewIsNext DEF K, item
  <2> QED
    BY <1>8, <2>1, <2>2
<1> QED
  BY <1>2, <1>3, <1>6, <1>7, <1>9 DEF K, item

\* How a step makes the queue longer.
Grows(c, n, w, then) ==
    LET item == w.queued[n + 1]
        q == w.queued
        t == then.queued
        new == Fresh(c.db, w, item)
    IN  /\ \A i \in DOMAIN q : i \in DOMAIN t /\ t[i] = q[i]
        /\ \A i \in DOMAIN t \ DOMAIN q : i > Len(q) /\ \E id \in new : t[i] = NewSpot(item, id)
        /\ \A i, j \in DOMAIN t \ DOMAIN q : t[i] = t[j] => i = j
        /\ DOMAIN t # DOMAIN q => Far(c, item) + 1 < c.max
        /\ Far(c, item) + 1 < c.max => \A id \in new : \E i \in DOMAIN t : t[i] = NewSpot(item, id)
        /\ Len(q) <= Len(t)

LEMMA QueueGrows ==
    ASSUME NEW c, NEW n, NEW w, NEW then, StepOf(c, n, w, then)
    PROVE  Grows(c, n, w, then)
<1> DEFINE item == w.queued[n + 1]
           q == w.queued
           t == then.queued
           new == Fresh(c.db, w, item)
           K == Far(c, item)
<1>1. q \in Seq(Spots) /\ t \in Seq(Spots)
  BY DEF StepOf, Walked, Discovers, WalkStates
<1>2. Hop(c.e = 1, item) = K + 1
  BY NextItem
<1>3. IF K + 1 < c.max THEN Adds(q, t, {NewSpot(item, id) : id \in new}) ELSE t = q
  BY <1>2 DEF StepOf, Discovers
<1> HIDE DEF q, t, item, new, K
<1>4. /\ Len(q) \in Nat /\ DOMAIN q = 1 .. Len(q) /\ Len(t) \in Nat /\ DOMAIN t = 1 .. Len(t)
  BY <1>1
<1>5. CASE K + 1 < c.max
  <2>1. Adds(q, t, {NewSpot(item, id) : id \in new})
    BY <1>3, <1>5
  <2>2. \A i \in DOMAIN q : i \in DOMAIN t /\ t[i] = q[i]
    BY <1>4, <2>1 DEF Adds
  <2>3. \A i \in DOMAIN t \ DOMAIN q : i > Len(q) /\ i \in Len(q) + 1 .. Len(t)
    BY <1>4
  <2>4. \A i \in Len(q) + 1 .. Len(t) : \E id \in new : t[i] = NewSpot(item, id)
    BY <2>1 DEF Adds
  <2>5. \A i, j \in Len(q) + 1 .. Len(t) : t[i] = t[j] => i = j
    BY <2>1 DEF Adds
  <2>6. \A id \in new : \E i \in DOMAIN t : t[i] = NewSpot(item, id)
    <3> TAKE id \in new
    <3>1. PICK i \in Len(q) + 1 .. Len(t) : t[i] = NewSpot(item, id)
      BY <2>1 DEF Adds
    <3>2. i \in DOMAIN t
      BY <1>4
    <3> QED
      BY <3>1, <3>2
  <2>7. Len(q) <= Len(t)
    BY <2>1 DEF Adds
  <2> QED
    BY <1>5, <2>2, <2>3, <2>4, <2>5, <2>6, <2>7 DEF Grows, q, t, item, new, K
<1>6. CASE ~(K + 1 < c.max)
  <2>1. t = q
    BY <1>3, <1>6
  <2>2. /\ \A i \in DOMAIN q : i \in DOMAIN t /\ t[i] = q[i]
        /\ DOMAIN t = DOMAIN q /\ Len(q) <= Len(t)
    BY <1>4, <2>1
  <2> QED
    BY <1>6, <2>2 DEF Grows, q, t, item, new, K
<1> QED
  BY <1>5, <1>6

\* What a spot that a step makes is.
LEMMA NewSpotOk ==
    ASSUME NEW c, NEW n, NEW w, NEW then, StepOf(c, n, w, then),
           Far(c, w.queued[n + 1]) + 1 < c.max, NEW id \in Fresh(c.db, w, w.queued[n + 1])
    PROVE  /\ SpotOk(c, NewSpot(w.queued[n + 1], id))
           /\ Far(c, NewSpot(w.queued[n + 1], id)) = Far(c, w.queued[n + 1]) + 1
           /\ NewSpot(w.queued[n + 1], id).node = id
<1> DEFINE item == w.queued[n + 1]
           K == Far(c, item)
           spot == NewSpot(item, id)
<1>1. /\ item \in Spots /\ K \in Nat /\ Len(item.path) = K + c.e /\ SpotOk(c, item)
      /\ id \in Nat /\ id \in Naming(c.db, item.node) /\ AtHops(c.W, K + 1, id)
  BY NextItem
<1>2. IsJob(c) /\ c.max \in Nat /\ c.e \in 0 .. 1
  BY DEF StepOf, IsJob
<1> HIDE DEF item, K
<1>3. spot.node = id /\ spot.tags = item.tags /\ spot.path = Append(item.path, id)
  BY DEF NewSpot
<1> HIDE DEF spot
<1>4. item.path \in Seq(Nat)
  BY <1>1 DEF Spots
<1>5. Leads(c, item.path, item.node)
  BY <1>1 DEF SpotOk
<1>6. Len(spot.path) = Len(item.path) + 1 /\ Leads(c, spot.path, id)
  BY <1>1, <1>2, <1>3, <1>4, <1>5, LeadsOn
<1>7. Far(c, spot) = K + 1
  BY <1>1, <1>2, <1>6 DEF Far
<1>8. c.e = 1 => spot.path[1] \in c.S /\ spot.tags = c.tag[spot.path[1]]
  <2> SUFFICES ASSUME c.e = 1 PROVE spot.path[1] \in c.S /\ spot.tags = c.tag[spot.path[1]]
    OBVIOUS
  <2>1. item.path[1] \in c.S /\ item.tags = c.tag[item.path[1]]
    BY <1>1 DEF SpotOk
  <2>2. Len(item.path) >= 1
    BY <1>1
  <2>3. spot.path[1] = item.path[1]
    BY <1>3, <1>4, <2>2
  <2> QED
    BY <1>3, <2>1, <2>3
<1>9. K + 1 \in 0 .. c.max - 1
  BY <1>1, <1>2 DEF K, item
<1>10. SpotOk(c, spot)
  BY <1>1, <1>3, <1>6, <1>7, <1>8, <1>9 DEF SpotOk
<1> QED
  BY <1>3, <1>7, <1>10 DEF spot, item, K

\* The queue after a step.
LEMMA QueueStep ==
    ASSUME NEW c, NEW n, NEW w, NEW then, StepOf(c, n, w, then)
    PROVE  QueueOk(c, n + 1, then.queued)
<1> DEFINE item == w.queued[n + 1]
           q == w.queued
           t == then.queued
           new == Fresh(c.db, w, item)
           K == Far(c, item)
<1>1. IsJob(c) /\ n \in Nat /\ QueueOk(c, n, q) /\ n + 1 \in DOMAIN q
  BY DEF StepOf, Walked
<1>2. q \in Seq(Spots) /\ t \in Seq(Spots)
  BY DEF StepOf, Walked, Discovers, WalkStates
<1>3. /\ \A i \in DOMAIN q : i \in DOMAIN t /\ t[i] = q[i]
      /\ \A i \in DOMAIN t \ DOMAIN q : i > Len(q) /\ \E id \in new : t[i] = NewSpot(item, id)
      /\ \A i, j \in DOMAIN t \ DOMAIN q : t[i] = t[j] => i = j
      /\ DOMAIN t # DOMAIN q => K + 1 < c.max
      /\ Len(q) <= Len(t)
  <2>1. Grows(c, n, w, then)
    BY QueueGrows
  <2> QED
    BY <2>1, Zenon DEF Grows
<1>4. \A id \in new : id \in Forms(c.db) /\ id \notin w.seen
  BY NextItem
<1>5. \A id \in new : K + 1 < c.max =>
        SpotOk(c, NewSpot(item, id)) /\ Far(c, NewSpot(item, id)) = K + 1 /\ NewSpot(item, id).node = id
  BY NewSpotOk
<1>6. \A i \in DOMAIN q : q[i].node \in w.seen
  BY DEF StepOf, Walked, SeenOk
<1>7. K \in Nat /\ c.max \in Nat /\ c.base \in Nat
  BY <1>1, NextItem DEF IsJob
<1>8. /\ \A i \in DOMAIN q : SpotOk(c, q[i]) /\ Far(c, q[i]) \in 0 .. c.max - 1
      /\ \A i, j \in DOMAIN q : q[i].node = q[j].node => i = j
      /\ \A i, j \in DOMAIN q : i < j => Far(c, q[i]) <= Far(c, q[j])
      /\ \A i, j \in DOMAIN q : n <= i => Far(c, q[j]) <= Far(c, q[i]) + 1
      /\ c.base <= Len(q) /\ \A i \in DOMAIN q : i > c.base => q[i].node \in Forms(c.db)
  BY <1>1 DEF QueueOk, SpotOk
<1>9. item = q[n + 1]
  OBVIOUS
<1> HIDE DEF item, q, t, new
<1>10. /\ Len(q) \in Nat /\ DOMAIN q = 1 .. Len(q) /\ Len(t) \in Nat /\ DOMAIN t = 1 .. Len(t)
  BY <1>2
<1>11. \A i \in DOMAIN t \ DOMAIN q :
         i > Len(q) /\ SpotOk(c, t[i]) /\ Far(c, t[i]) = K + 1 /\ t[i].node \in new
  <2> TAKE i \in DOMAIN t \ DOMAIN q
  <2>1. PICK id \in new : t[i] = NewSpot(item, id)
    BY <1>3
  <2>2. K + 1 < c.max /\ i > Len(q)
    BY <1>3
  <2> QED
    BY <1>5, <2>1, <2>2
<1>12. \A i \in DOMAIN q : Far(c, q[i]) <= K + 1 /\ (n + 1 <= i => Far(c, q[i]) >= K) /\ Far(c, q[i]) \in Nat
  <2> TAKE i \in DOMAIN q
  <2>1. Far(c, q[n + 1]) = K
    BY <1>9
  <2>2. n <= n + 1 /\ n + 1 \in DOMAIN q
    BY <1>1
  <2>3. Far(c, q[i]) <= K + 1
    BY <1>8, <2>1, <2>2
  <2>4. n + 1 <= i => i = n + 1 \/ n + 1 < i
    BY <1>1, <1>10
  <2>5. Far(c, q[i]) \in Nat
    BY <1>7, <1>8
  <2>6. n + 1 < i => K <= Far(c, q[i])
    BY <1>8, <2>1, <2>2
  <2> QED
    BY <1>7, <2>1, <2>3, <2>4, <2>5, <2>6
<1> HIDE DEF K
<1>13. \A i \in DOMAIN t : SpotOk(c, t[i])
  BY <1>3, <1>8, <1>11
<1>14. ASSUME NEW i \in DOMAIN t, NEW j \in DOMAIN t, t[i].node = t[j].node PROVE i = j
  <2>1. CASE i \in DOMAIN q /\ j \in DOMAIN q
    BY <1>3, <1>8, <1>14, <2>1
  <2>2. CASE i \in DOMAIN q /\ j \notin DOMAIN q
    BY <1>3, <1>4, <1>6, <1>11, <1>14, <2>2
  <2>3. CASE i \notin DOMAIN q /\ j \in DOMAIN q
    BY <1>3, <1>4, <1>6, <1>11, <1>14, <2>3
  <2>4. CASE i \notin DOMAIN q /\ j \notin DOMAIN q
    <3>1. PICK x \in new : t[i] = NewSpot(item, x)
      BY <1>3, <2>4
    <3>2. PICK y \in new : t[j] = NewSpot(item, y)
      BY <1>3, <2>4
    <3>3. NewSpot(item, x).node = x /\ NewSpot(item, y).node = y
      BY DEF NewSpot
    <3> QED
      BY <1>3, <1>14, <2>4, <3>1, <3>2, <3>3
  <2> QED
    BY <2>1, <2>2, <2>3, <2>4
<1>15. ASSUME NEW i \in DOMAIN t, NEW j \in DOMAIN t, i < j PROVE Far(c, t[i]) <= Far(c, t[j])
  <2>1. CASE i \in DOMAIN q /\ j \in DOMAIN q
    BY <1>3, <1>8, <1>15, <2>1
  <2>2. CASE i \in DOMAIN q /\ j \notin DOMAIN q
    BY <1>3, <1>11, <1>12, <2>2
  <2>3. CASE i \notin DOMAIN q /\ j \in DOMAIN q
    BY <1>10, <1>11, <1>15, <2>3
  <2>4. CASE i \notin DOMAIN q /\ j \notin DOMAIN q
    BY <1>7, <1>11, <2>4
  <2> QED
    BY <2>1, <2>2, <2>3, <2>4
<1>16. ASSUME NEW i \in DOMAIN t, NEW j \in DOMAIN t, n + 1 <= i PROVE Far(c, t[j]) <= Far(c, t[i]) + 1
  <2>1. Far(c, t[j]) <= K + 1 /\ Far(c, t[j]) \in Nat
    <3>1. CASE j \in DOMAIN q
      BY <1>3, <1>12, <3>1
    <3>2. CASE j \notin DOMAIN q
      BY <1>7, <1>11, <3>2
    <3> QED
      BY <3>1, <3>2
  <2>2. Far(c, t[i]) >= K /\ Far(c, t[i]) \in Nat
    <3>1. CASE i \in DOMAIN q
      BY <1>3, <1>12, <1>16, <3>1
    <3>2. CASE i \notin DOMAIN q
      BY <1>7, <1>11, <3>2
    <3> QED
      BY <3>1, <3>2
  <2> QED
    BY <1>7, <2>1, <2>2
<1>17. c.base <= Len(t)
  <2>1. c.base \in Nat /\ Len(q) \in Nat /\ Len(t) \in Nat /\ c.base <= Len(q) /\ Len(q) <= Len(t)
    BY <1>3, <1>7, <1>8, <1>10
  <2> QED
    BY <2>1
<1>18. \A i \in DOMAIN t : i > c.base => t[i].node \in Forms(c.db)
  BY <1>3, <1>4, <1>8, <1>11
<1> QED
  BY <1>13, <1>14, <1>15, <1>16, <1>17, <1>18 DEF QueueOk, t

\* How a step makes the rows more.
Collects(c, n, w, then) ==
    LET item == w.queued[n + 1]
        r == w.rows
        s == then.rows
        met(row) == row.id \in Naming(c.db, item.node) /\ row.depth = Far(c, item) + 1
        listed == {id \in Fresh(c.db, w, item) : TypeMatches(c.db, c.filter, id)}
    IN  /\ \A i \in DOMAIN r : /\ i \in DOMAIN s /\ s[i].id = r[i].id /\ s[i].depth = r[i].depth /\ s[i].path = r[i].path
                               /\ s[i].tags = IF met(r[i]) THEN r[i].tags \cup item.tags ELSE r[i].tags
        /\ \A i \in DOMAIN s \ DOMAIN r : \E id \in listed : s[i] = NewRow(c.e = 1, item, id)
        /\ \A i, j \in DOMAIN s \ DOMAIN r : s[i] = s[j] => i = j
        /\ \A id \in listed : \E i \in DOMAIN s : s[i] = NewRow(c.e = 1, item, id)

LEMMA RowsCollect ==
    ASSUME NEW c, NEW n, NEW w, NEW then, StepOf(c, n, w, then)
    PROVE  Collects(c, n, w, then)
<1> DEFINE item == w.queued[n + 1]
           r == w.rows
           s == then.rows
           K == Far(c, item)
           met(row) == row.id \in Naming(c.db, item.node) /\ row.depth = K + 1
           listed == {id \in Fresh(c.db, w, item) : TypeMatches(c.db, c.filter, id)}
           merged == Merged(c.db, c.e = 1, w, item)
<1>1. r \in Seq(RefRows) /\ s \in Seq(RefRows)
  BY DEF StepOf, Walked, Discovers, WalkStates
<1>2. Hop(c.e = 1, item) = K + 1
  BY NextItem
<1>3. Adds(merged, s, {NewRow(c.e = 1, item, id) : id \in listed})
  BY DEF StepOf, Discovers
<1>4. merged = [i \in DOMAIN r |-> IF r[i].id \in Naming(c.db, item.node) /\ r[i].depth = Hop(c.e = 1, item)
                                    THEN [r[i] EXCEPT !.tags = r[i].tags \cup item.tags] ELSE r[i]]
  BY Zenon DEF Merged, MergeTags
<1> HIDE DEF r, s, item, merged, K, listed
<1>5. /\ Len(r) \in Nat /\ DOMAIN r = 1 .. Len(r) /\ Len(s) \in Nat /\ DOMAIN s = 1 .. Len(s)
  BY <1>1
<1>6. DOMAIN merged = 1 .. Len(r) /\ Len(merged) = Len(r)
  BY <1>4, <1>5
<1>7. ASSUME NEW i \in DOMAIN r
      PROVE  /\ merged[i].id = r[i].id /\ merged[i].depth = r[i].depth /\ merged[i].path = r[i].path
             /\ merged[i].tags = IF met(r[i]) THEN r[i].tags \cup item.tags ELSE r[i].tags
  <2>1. r[i] \in RefRows
    BY <1>1
  <2> DEFINE row == r[i]
  <2>2. merged[i] = IF met(row) THEN [row EXCEPT !.tags = row.tags \cup item.tags] ELSE row
    BY <1>2, <1>4
  <2>3. row = [id |-> row.id, depth |-> row.depth, path |-> row.path, tags |-> row.tags]
    BY <2>1 DEF RefRows
  <2> HIDE DEF row, met
  <2>4. CASE met(row)
    BY <2>2, <2>3, <2>4 DEF row
  <2>5. CASE ~met(row)
    BY <2>2, <2>5 DEF row
  <2> QED
    BY <2>4, <2>5 DEF row
<1>8. \A i \in DOMAIN r : i \in DOMAIN s /\ s[i] = merged[i]
  BY <1>3, <1>5, <1>6 DEF Adds
<1>9. \A i \in DOMAIN s \ DOMAIN r : i \in Len(merged) + 1 .. Len(s)
  BY <1>5, <1>6
<1>10. \A i \in Len(merged) + 1 .. Len(s) : \E id \in listed : s[i] = NewRow(c.e = 1, item, id)
  BY <1>3 DEF Adds
<1>11. \A i, j \in Len(merged) + 1 .. Len(s) : s[i] = s[j] => i = j
  BY <1>3 DEF Adds
<1>12. \A id \in listed : \E i \in DOMAIN s : s[i] = NewRow(c.e = 1, item, id)
  <2> TAKE id \in listed
  <2>1. PICK i \in Len(merged) + 1 .. Len(s) : s[i] = NewRow(c.e = 1, item, id)
    BY <1>3 DEF Adds
  <2>2. i \in DOMAIN s
    BY <1>5, <1>6
  <2> QED
    BY <2>1, <2>2
<1> HIDE DEF met
<1>13. \A i \in DOMAIN r : /\ i \in DOMAIN s /\ s[i].id = r[i].id /\ s[i].depth = r[i].depth /\ s[i].path = r[i].path
                           /\ s[i].tags = IF met(r[i]) THEN r[i].tags \cup item.tags ELSE r[i].tags
  BY <1>7, <1>8
<1>14. (\A i \in DOMAIN s \ DOMAIN r : \E id \in listed : s[i] = NewRow(c.e = 1, item, id))
       /\ (\A i, j \in DOMAIN s \ DOMAIN r : s[i] = s[j] => i = j)
  BY <1>9, <1>10, <1>11
<1> QED
  BY <1>12, <1>13, <1>14 DEF Collects, met, r, s, item, K, listed

\* What is seen after a step.
LEMMA SeenStep ==
    ASSUME NEW c, NEW n, NEW w, NEW then, StepOf(c, n, w, then)
    PROVE  SeenOk(c, n + 1, then)
<1> DEFINE item == w.queued[n + 1]
           q == w.queued
           t == then.queued
           new == Fresh(c.db, w, item)
           K == Far(c, item)
<1>1. /\ n \in Nat /\ n + 1 \in DOMAIN q /\ then.seen = w.seen \cup Naming(c.db, item.node)
      /\ c.max \in Nat
  BY DEF StepOf, Discovers, IsJob
<1>2. /\ c.S \subseteq w.seen
      /\ \A i \in DOMAIN q : q[i].node \in w.seen /\ (i <= n => Naming(c.db, q[i].node) \subseteq w.seen)
      /\ \A id \in w.seen : \E k \in 0 .. c.max : KeptAt(c, w, k, id)
  BY DEF StepOf, Walked, SeenOk
<1>3. /\ \A i \in DOMAIN q : i \in DOMAIN t /\ t[i] = q[i]
      /\ \A i \in DOMAIN t \ DOMAIN q : i > Len(q) /\ \E id \in new : t[i] = NewSpot(item, id)
      /\ K + 1 < c.max => \A id \in new : \E i \in DOMAIN t : t[i] = NewSpot(item, id)
  <2>1. Grows(c, n, w, then)
    BY QueueGrows
  <2> QED
    BY <2>1, Zenon DEF Grows
<1>4. /\ \A i \in DOMAIN w.rows : i \in DOMAIN then.rows /\ then.rows[i].id = w.rows[i].id
      /\ \A id \in new : TypeMatches(c.db, c.filter, id) => \E i \in DOMAIN then.rows : then.rows[i] = NewRow(c.e = 1, item, id)
  <2>1. Collects(c, n, w, then)
    BY RowsCollect
  <2>2. \A i \in DOMAIN w.rows : i \in DOMAIN then.rows /\ then.rows[i].id = w.rows[i].id
    BY <2>1 DEF Collects
  <2>3. \A id \in {id \in new : TypeMatches(c.db, c.filter, id)} :
           \E i \in DOMAIN then.rows : then.rows[i] = NewRow(c.e = 1, item, id)
    BY <2>1, Zenon DEF Collects
  <2> QED
    BY <2>2, <2>3
<1>5. \A id \in new : K + 1 \in 1 .. c.max /\ AtHops(c.W, K + 1, id)
  BY NextItem
<1>6. w.queued \in Seq(Spots) /\ t \in Seq(Spots)
  BY DEF StepOf, Walked, Discovers, WalkStates
<1>7. new = Naming(c.db, item.node) \ w.seen /\ item = q[n + 1]
  BY DEF Fresh
<1>8. \A id : NewSpot(item, id).node = id /\ NewRow(c.e = 1, item, id).id = id
  BY DEF NewSpot, NewRow
<1> HIDE DEF item, q, t, new, K
<1>9. Len(q) \in Nat /\ DOMAIN q = 1 .. Len(q) /\ DOMAIN t \in SUBSET Nat
  BY <1>6 DEF q
<1>10. ASSUME NEW i \in DOMAIN t
       PROVE  t[i].node \in then.seen /\ (i <= n + 1 => Naming(c.db, t[i].node) \subseteq then.seen)
  <2>1. CASE i \in DOMAIN q
    <3>1. t[i] = q[i]
      BY <1>3, <2>1
    <3>2. i <= n + 1 => i <= n \/ i = n + 1
      BY <1>1, <1>9, <2>1
    <3> QED
      BY <1>1, <1>2, <1>7, <2>1, <3>1, <3>2
  <2>2. CASE i \notin DOMAIN q
    <3>1. ~(i <= n + 1)
      BY <1>1, <1>3, <1>9, <2>2
    <3>2. PICK id \in new : t[i] = NewSpot(item, id)
      BY <1>3, <2>2
    <3> QED
      BY <1>1, <1>7, <1>8, <3>1, <3>2
  <2> QED
    BY <2>1, <2>2
<1>11. ASSUME NEW id \in then.seen
       PROVE  \E k \in 0 .. c.max : KeptAt(c, then, k, id)
  <2>1. CASE id \in w.seen
    <3>1. PICK k \in 0 .. c.max : KeptAt(c, w, k, id)
      BY <1>2, <2>1
    <3>2. AtHops(c.W, k, id)
      BY <3>1 DEF KeptAt
    <3>3. k < c.max => \E i \in DOMAIN t : t[i].node = id
      <4> HAVE k < c.max
      <4>1. PICK i \in DOMAIN q : q[i].node = id
        BY <3>1 DEF KeptAt, q
      <4> QED
        BY <1>3, <4>1
    <3>4. k > 0 /\ TypeMatches(c.db, c.filter, id) => \E i \in DOMAIN then.rows : then.rows[i].id = id
      <4> HAVE k > 0 /\ TypeMatches(c.db, c.filter, id)
      <4>1. PICK i \in DOMAIN w.rows : w.rows[i].id = id
        BY <3>1 DEF KeptAt
      <4> QED
        BY <1>4, <4>1
    <3>5. KeptAt(c, then, k, id)
      BY <3>2, <3>3, <3>4 DEF KeptAt, t
    <3> QED
      BY <3>5
  <2>2. CASE id \notin w.seen
    <3>1. id \in new
      BY <1>1, <1>7, <2>2
    <3>2. K + 1 \in 1 .. c.max /\ AtHops(c.W, K + 1, id)
      BY <1>5, <3>1
    <3>3. K + 1 < c.max => \E i \in DOMAIN t : t[i].node = id
      <4> HAVE K + 1 < c.max
      <4>1. PICK i \in DOMAIN t : t[i] = NewSpot(item, id)
        BY <1>3, <3>1
      <4> QED
        BY <1>8, <4>1
    <3>4. TypeMatches(c.db, c.filter, id) => \E i \in DOMAIN then.rows : then.rows[i].id = id
      BY <1>4, <1>8, <3>1
    <3>5. KeptAt(c, then, K + 1, id)
      BY <3>2, <3>3, <3>4 DEF KeptAt, t
    <3> QED
      BY <1>1, <3>2, <3>5
  <2> QED
    BY <2>1, <2>2
<1> QED
  BY <1>1, <1>2, <1>10, <1>11 DEF SeenOk, t

\* What is done after a step.
LEMMA DoneGrows ==
    ASSUME NEW c, NEW n, NEW w, NEW then, StepOf(c, n, w, then)
    PROVE  Done(n + 1, then.queued) = Done(n, w.queued) \cup {w.queued[n + 1].node}
<1> DEFINE item == w.queued[n + 1]
           q == w.queued
           t == then.queued
<1>1. n \in Nat /\ n + 1 \in DOMAIN q
  BY DEF StepOf
<1>2. q \in Seq(Spots) /\ t \in Seq(Spots)
  BY DEF StepOf, Walked, Discovers, WalkStates
<1>3. /\ \A i \in DOMAIN q : i \in DOMAIN t /\ t[i] = q[i]
      /\ \A i \in DOMAIN t \ DOMAIN q : i > Len(q)
  <2>1. Grows(c, n, w, then)
    BY QueueGrows
  <2> QED
    BY <2>1, Zenon DEF Grows
<1>4. item = q[n + 1]
  OBVIOUS
<1> HIDE DEF item, q, t
<1>5. /\ Len(q) \in Nat /\ DOMAIN q = 1 .. Len(q) /\ DOMAIN t \in SUBSET Nat
  BY <1>2
<1>6. {i \in DOMAIN t : i <= n + 1} = {i \in DOMAIN q : i <= n} \cup {n + 1}
  BY <1>1, <1>3, <1>5
<1>7. \A i \in {i \in DOMAIN t : i <= n + 1} : t[i] = q[i]
  BY <1>1, <1>3, <1>6
<1>8. Done(n + 1, t) = Done(n, q) \cup {item.node}
  BY <1>1, <1>4, <1>6, <1>7 DEF Done
<1> QED
  BY <1>8 DEF item, q, t

LEMMA OneRise ==
    ASSUME NEW db, NEW S, NEW max \in Nat, NEW W, Levels(db, W, S, max),
           NEW m \in 0 .. max, NEW n \in 0 .. max, m <= n
    PROVE  W[m] \subseteq W[n]
BY LevelsGrow

\* The tags of a seed taken off the queue, if it is one.
LEMMA SeedOfItem ==
    ASSUME NEW c, NEW n, NEW w, NEW then, StepOf(c, n, w, then), c.e = 1
    PROVE  LET item == w.queued[n + 1]
           IN  /\ Far(c, item) = 0 => item.node \in c.S /\ item.tags = c.tag[item.node]
               /\ Far(c, item) # 0 => item.node \notin c.S
<1> DEFINE item == w.queued[n + 1]
           K == Far(c, item)
<1>1. /\ item \in Spots /\ K \in Nat /\ Len(item.path) = K + c.e /\ SpotOk(c, item)
  BY NextItem
<1>2. IsJob(c) /\ c.max \in Nat /\ Levels(c.db, c.W, c.S, c.max) /\ c.start \in Seq(c.S) /\ Len(c.start) = 0
  BY DEF StepOf, IsJob
<1> HIDE DEF item, K
<1>3. /\ K \in 0 .. c.max - 1 /\ AtHops(c.W, K, item.node) /\ Leads(c, item.path, item.node)
      /\ item.path[1] \in c.S /\ item.tags = c.tag[item.path[1]]
  BY <1>1 DEF SpotOk, K
<1>4. c.W[0] = c.S
  BY <1>2 DEF Levels
<1>5. CASE K = 0
  <2>1. Len(item.path) = 1 /\ item.path \in Seq(Nat)
    BY <1>1, <1>5 DEF Spots
  <2>2. c.start = <<>>
    BY <1>2
  <2>3. Trail(c, item.path) = item.path
    BY <2>1, <2>2 DEF Trail
  <2>4. item.path[1] = item.node
    BY <1>3, <2>1, <2>3 DEF Leads
  <2> QED
    BY <1>3, <1>5, <2>4 DEF item, K
<1>6. CASE K # 0
  <2>1. item.node \notin c.W[K - 1]
    BY <1>3, <1>6 DEF AtHops
  <2>2. c.W[0] \subseteq c.W[K - 1]
    <3> DEFINE L == K - 1
    <3>1. 0 \in 0 .. c.max /\ L \in 0 .. c.max /\ 0 <= L
      BY <1>1, <1>2, <1>3, <1>6
    <3> HIDE DEF L
    <3>2. c.W[0] \subseteq c.W[L]
      BY <1>2, <3>1, OneRise
    <3> QED
      BY <3>2 DEF L
  <2> QED
    BY <1>4, <1>6, <2>1, <2>2 DEF item, K
<1> QED
  BY <1>5, <1>6

\* The tags that a further seed adds.
LEMMA TagsMore ==
    ASSUME NEW c, NEW done, NEW node, NEW id
    PROVE  TagsBy(c, done \cup {node}, id) =
             TagsBy(c, done, id) \cup (IF node \in c.S /\ id \in Naming(c.db, node) THEN c.tag[node] ELSE {})
<1> DEFINE A == {s \in c.S \cap done : id \in Naming(c.db, s)}
           B == {s \in c.S \cap (done \cup {node}) : id \in Naming(c.db, s)}
<1>1. B = A \cup (IF node \in c.S /\ id \in Naming(c.db, node) THEN {node} ELSE {})
  OBVIOUS
<1> HIDE DEF A, B
<1>2. {c.tag[s] : s \in B} = {c.tag[s] : s \in A} \cup
        (IF node \in c.S /\ id \in Naming(c.db, node) THEN {c.tag[node]} ELSE {})
  BY <1>1
<1>3. TagsBy(c, done, id) = UNION {c.tag[s] : s \in A}
      /\ TagsBy(c, done \cup {node}, id) = UNION {c.tag[s] : s \in B}
  BY DEF TagsBy, A, B
<1> QED
  BY <1>2, <1>3

\* A row that was there before a step.
LEMMA OldRowOk ==
    ASSUME NEW c, NEW n, NEW w, NEW then, StepOf(c, n, w, then), NEW i \in DOMAIN w.rows
    PROVE  i \in DOMAIN then.rows /\ RowOk(c, Done(n + 1, then.queued), then.rows[i])
<1> DEFINE item == w.queued[n + 1]
           done == Done(n, w.queued)
           more == Done(n + 1, then.queued)
           old == w.rows[i]
           row == then.rows[i]
           K == Far(c, item)
<1>1. RowOk(c, done, old)
  BY DEF StepOf, Walked, RowsOk
<1>2. /\ i \in DOMAIN then.rows /\ row.id = old.id /\ row.depth = old.depth /\ row.path = old.path
      /\ row.tags = IF old.id \in Naming(c.db, item.node) /\ old.depth = K + 1 THEN old.tags \cup item.tags ELSE old.tags
  <2>1. Collects(c, n, w, then)
    BY RowsCollect
  <2> QED
    BY <2>1 DEF Collects
<1>3. more = done \cup {item.node}
  BY DoneGrows
<1>4. K \in Nat
  BY NextItem
<1>5. c.e = 1 => /\ K = 0 => item.node \in c.S /\ item.tags = c.tag[item.node]
                 /\ K # 0 => item.node \notin c.S
  BY SeedOfItem
<1> HIDE DEF item, done, more, old, row, K
<1>6. TagsBy(c, more, row.id) =
        TagsBy(c, done, row.id) \cup (IF item.node \in c.S /\ row.id \in Naming(c.db, item.node) THEN c.tag[item.node] ELSE {})
  BY <1>3, TagsMore
<1>7. c.e = 1 => c.tag[old.path[1]] \subseteq row.tags
  BY <1>1, <1>2 DEF RowOk
<1>8. c.e = 1 /\ row.depth = 1 => row.tags = TagsBy(c, more, row.id)
  <2> SUFFICES ASSUME c.e = 1, row.depth = 1 PROVE row.tags = TagsBy(c, more, row.id)
    OBVIOUS
  <2>1. old.tags = TagsBy(c, done, row.id)
    BY <1>1, <1>2 DEF RowOk
  <2>2. (old.depth = K + 1) <=> K = 0
    BY <1>2, <1>4
  <2>3. (old.depth = K + 1) <=> item.node \in c.S
    BY <1>5, <2>2
  <2>4. item.node \in c.S => item.tags = c.tag[item.node]
    BY <1>5
  <2> QED
    BY <1>2, <1>6, <2>1, <2>3, <2>4
<1>9. RowOk(c, more, row)
  BY <1>1, <1>2, <1>7, <1>8 DEF RowOk
<1> QED
  BY <1>2, <1>9 DEF more, row

\* A row that a step makes.
LEMMA NewRowOk ==
    ASSUME NEW c, NEW n, NEW w, NEW then, StepOf(c, n, w, then),
           NEW id \in Fresh(c.db, w, w.queued[n + 1]), TypeMatches(c.db, c.filter, id)
    PROVE  RowOk(c, Done(n + 1, then.queued), NewRow(c.e = 1, w.queued[n + 1], id))
<1> DEFINE item == w.queued[n + 1]
           done == Done(n, w.queued)
           more == Done(n + 1, then.queued)
           row == NewRow(c.e = 1, item, id)
           K == Far(c, item)
<1>1. /\ Hop(c.e = 1, item) = K + 1 /\ K \in Nat /\ Len(item.path) = K + c.e /\ SpotOk(c, item)
      /\ id \in Forms(c.db) /\ id \in Naming(c.db, item.node) /\ id \notin w.seen
      /\ K + 1 \in 1 .. c.max /\ AtHops(c.W, K + 1, id)
  <2>1. /\ K \in Nat /\ Hop(c.e = 1, item) = K + 1 /\ Len(item.path) = K + c.e
        /\ SpotOk(c, item)
    BY NextItem
  <2>2. \A x \in Fresh(c.db, w, item) :
          /\ x \in Forms(c.db) /\ x \in Naming(c.db, item.node) /\ x \notin w.seen
          /\ K + 1 \in 1 .. c.max /\ AtHops(c.W, K + 1, x)
    BY NextItem
  <2> HIDE DEF K
  <2> QED
    BY <2>1, <2>2
<1>2. row.id = id /\ row.depth = K + 1 /\ row.path = item.path /\ row.tags = item.tags
  BY <1>1 DEF NewRow
<1>3. more = done \cup {item.node}
  BY DoneGrows
<1>4. c.e = 1 => /\ K = 0 => item.node \in c.S /\ item.tags = c.tag[item.node]
                 /\ K # 0 => item.node \notin c.S
  BY SeedOfItem
<1>5. c.e \in 0 .. 1
  BY DEF StepOf, IsJob
<1>6. \A x \in done : Naming(c.db, x) \subseteq w.seen
  BY DEF StepOf, Walked, SeenOk, Done
<1> HIDE DEF item, done, more, row, K
<1>7. Leads(c, item.path, item.node)
  BY <1>1 DEF SpotOk
<1>8. TagsBy(c, more, id) =
        TagsBy(c, done, id) \cup (IF item.node \in c.S /\ id \in Naming(c.db, item.node) THEN c.tag[item.node] ELSE {})
  BY <1>3, TagsMore
<1>9. TagsBy(c, done, id) = {}
  BY <1>1, <1>6 DEF TagsBy
<1>10. c.e = 1 => /\ row.path[1] \in c.S /\ c.tag[row.path[1]] \subseteq row.tags
                  /\ row.depth = 1 => row.tags = TagsBy(c, more, row.id)
  <2> SUFFICES ASSUME c.e = 1
               PROVE  /\ row.path[1] \in c.S /\ c.tag[row.path[1]] \subseteq row.tags
                      /\ row.depth = 1 => row.tags = TagsBy(c, more, row.id)
    OBVIOUS
  <2>1. item.path[1] \in c.S /\ item.tags = c.tag[item.path[1]]
    BY <1>1 DEF SpotOk
  <2>2. row.depth = 1 => K = 0
    BY <1>1, <1>2
  <2> QED
    BY <1>1, <1>2, <1>4, <1>8, <1>9, <2>1, <2>2
<1>11. Len(row.path) = row.depth - 1 + c.e
  <2>1. (K + 1) - 1 = K
    BY <1>1
  <2> QED
    BY <1>1, <1>2, <2>1
<1>12. RowOk(c, more, row)
  BY <1>1, <1>2, <1>7, <1>10, <1>11 DEF RowOk
<1> QED
  BY <1>12 DEF more, row, item

\* The rows after a step.
LEMMA RowsStep ==
    ASSUME NEW c, NEW n, NEW w, NEW then, StepOf(c, n, w, then)
    PROVE  RowsOk(c, Done(n + 1, then.queued), then)
<1> DEFINE item == w.queued[n + 1]
           more == Done(n + 1, then.queued)
           new == Fresh(c.db, w, item)
           r == w.rows
           s == then.rows
           listed == {id \in new : TypeMatches(c.db, c.filter, id)}
<1>1. then.seen = w.seen \cup Naming(c.db, item.node)
  BY DEF StepOf, Discovers
<1>2. /\ \A i \in DOMAIN r : r[i].id \in w.seen
      /\ \A i, j \in DOMAIN r : r[i].id = r[j].id => i = j
  BY DEF StepOf, Walked, RowsOk
<1>3. /\ \A i \in DOMAIN r : i \in DOMAIN s /\ s[i].id = r[i].id
      /\ \A i \in DOMAIN s \ DOMAIN r : \E id \in listed : s[i] = NewRow(c.e = 1, item, id)
      /\ \A i, j \in DOMAIN s \ DOMAIN r : s[i] = s[j] => i = j
  <2>1. Collects(c, n, w, then)
    BY RowsCollect
  <2> QED
    BY <2>1, Zenon DEF Collects
<1>4. \A i \in DOMAIN r : RowOk(c, more, s[i])
  BY OldRowOk
<1>5. \A id \in listed : RowOk(c, more, NewRow(c.e = 1, item, id))
  BY NewRowOk
<1>6. \A id : NewRow(c.e = 1, item, id).id = id
  BY DEF NewRow
<1>7. \A id \in listed : id \in Naming(c.db, item.node) /\ id \notin w.seen
  BY DEF Fresh
<1> HIDE DEF item, more, new, r, s, listed
<1>8. \A i \in DOMAIN s : RowOk(c, more, s[i]) /\ s[i].id \in then.seen
  <2> TAKE i \in DOMAIN s
  <2>1. CASE i \in DOMAIN r
    BY <1>1, <1>2, <1>3, <1>4, <2>1
  <2>2. CASE i \notin DOMAIN r
    <3>1. PICK id \in listed : s[i] = NewRow(c.e = 1, item, id)
      BY <1>3, <2>2
    <3> QED
      BY <1>1, <1>5, <1>6, <1>7, <3>1
  <2> QED
    BY <2>1, <2>2
<1>9. ASSUME NEW i \in DOMAIN s, NEW j \in DOMAIN s, s[i].id = s[j].id PROVE i = j
  <2>1. CASE i \in DOMAIN r /\ j \in DOMAIN r
    BY <1>2, <1>3, <1>9, <2>1
  <2>2. CASE i \in DOMAIN r /\ j \notin DOMAIN r
    <3>1. PICK y \in listed : s[j] = NewRow(c.e = 1, item, y)
      BY <1>3, <2>2
    <3> QED
      BY <1>2, <1>3, <1>6, <1>7, <1>9, <2>2, <3>1
  <2>3. CASE i \notin DOMAIN r /\ j \in DOMAIN r
    <3>1. PICK x \in listed : s[i] = NewRow(c.e = 1, item, x)
      BY <1>3, <2>3
    <3> QED
      BY <1>2, <1>3, <1>6, <1>7, <1>9, <2>3, <3>1
  <2>4. CASE i \notin DOMAIN r /\ j \notin DOMAIN r
    <3>1. PICK x \in listed : s[i] = NewRow(c.e = 1, item, x)
      BY <1>3, <2>4
    <3>2. PICK y \in listed : s[j] = NewRow(c.e = 1, item, y)
      BY <1>3, <2>4
    <3> QED
      BY <1>3, <1>6, <1>9, <2>4, <3>1, <3>2
  <2> QED
    BY <2>1, <2>2, <2>3, <2>4
<1> QED
  BY <1>8, <1>9 DEF RowsOk, more, s

\* A step keeps what is true of a walk.
LEMMA WalkStep ==
    ASSUME NEW c, NEW n, NEW w, NEW then, StepOf(c, n, w, then)
    PROVE  Walked(c, n + 1, then)
<1>1. then \in WalkStates
  BY DEF StepOf, Discovers
<1> QED
  BY <1>1, QueueStep, SeenStep, RowsStep DEF Walked

\* A sequence holds no more than its length.
LEMMA FewAre ==
    ASSUME NEW T, NEW s \in Seq(T)
    PROVE  IsFiniteSet(ToSet(s)) /\ Cardinality(ToSet(s)) \in Nat /\ Cardinality(ToSet(s)) <= Len(s)
<1> DEFINE k == Len(s)
           A == ToSet(s)
<1>1. k \in Nat /\ DOMAIN s = 1 .. k /\ A = {s[i] : i \in 1 .. k}
  BY DEF ToSet
<1>2. s \in Surjection(1 .. k, A)
  <2>1. s \in [1 .. k -> A]
    BY <1>1
  <2> HIDE DEF k, A
  <2> QED
    BY <1>1, <2>1 DEF Surjection
<1> HIDE DEF k, A
<1>3. IsFiniteSet(1 .. k) /\ Cardinality(1 .. k) = k
  <2>1. IsFiniteSet(1 .. k) /\ Cardinality(1 .. k) = IF 1 > k THEN 0 ELSE k - 1 + 1
    BY <1>1, FS_Interval
  <2> QED
    BY <1>1, <2>1
<1>4. IsFiniteSet(A) /\ Cardinality(A) <= Cardinality(1 .. k)
  BY <1>2, <1>3, FS_Surjection
<1>5. Cardinality(A) \in Nat
  BY <1>4, FS_CardinalityType
<1> QED
  BY <1>3, <1>4, <1>5 DEF k, A

\* No record is queued twice.
LEMMA QueueIsShort ==
    ASSUME NEW c, IsJob(c), NEW n, NEW w, Walked(c, n, w)
    PROVE  Len(w.queued) \in Nat /\ Len(w.queued) <= c.base + Len(c.db.order)
<1> DEFINE q == w.queued
           B == c.base + 1 .. Len(q)
           F == Forms(c.db)
           f == [i \in B |-> q[i].node]
           k == Len(q)
           b == c.base
           m == Len(c.db.order)
<1>1. q \in Seq(Spots)
  BY DEF Walked, WalkStates
<1>2. b \in Nat /\ c.db.order \in Seq(Nat) /\ m \in Nat
  BY DEF IsJob, IsGraph
<1>3. k \in Nat /\ DOMAIN q = 1 .. k
  BY <1>1
<1>4. /\ \A i, j \in DOMAIN q : q[i].node = q[j].node => i = j
      /\ \A i \in DOMAIN q : i > c.base => q[i].node \in F
  BY DEF Walked, QueueOk
<1>5. IsFiniteSet(F) /\ Cardinality(F) \in Nat /\ Cardinality(F) <= m
  BY <1>2, FewAre DEF Forms
<1> HIDE DEF q, F, k, b, m
<1>6. f \in Injection(b + 1 .. k, F)
  <2>1. B = b + 1 .. k
    BY DEF b, k
  <2>2. \A i \in B : i \in DOMAIN q /\ i > b
    <3> HIDE DEF B
    <3> QED
      BY <1>2, <1>3, <2>1
  <2>3. f \in [B -> F]
    BY <1>4, <2>2 DEF b
  <2>4. \A i, j \in B : f[i] = f[j] => i = j
    BY <1>4, <2>2
  <2> HIDE DEF f, B
  <2> QED
    BY <2>1, <2>3, <2>4 DEF Injection, IsInjective
<1>7. Cardinality(b + 1 .. k) <= Cardinality(F)
  BY <1>5, <1>6, FS_Injection
<1>8. Cardinality(b + 1 .. k) = IF b + 1 > k THEN 0 ELSE k - (b + 1) + 1
  BY <1>2, <1>3, FS_Interval
<1>9. k <= b + m
  BY <1>2, <1>3, <1>5, <1>7, <1>8
<1> QED
  BY <1>3, <1>9 DEF q, k, b, m

\* A walk that has nothing left to do stays as it is.
LEMMA WalkRests ==
    ASSUME NEW c, NEW n \in Nat, NEW w, Walked(c, n, w), n >= Len(w.queued)
    PROVE  Walked(c, n + 1, w)
<1> DEFINE q == w.queued
<1>1. q \in Seq(Spots)
  BY DEF Walked, WalkStates
<1>2. \A i \in DOMAIN q : i \in Nat /\ i <= n /\ i <= n + 1
  BY <1>1
<1>3. Done(n + 1, q) = Done(n, q)
  BY <1>2 DEF Done
<1>4. QueueOk(c, n, q) /\ SeenOk(c, n, w)
  BY DEF Walked
<1>5. \A i \in DOMAIN q : n + 1 <= i => n <= i
  BY <1>2
<1>6. QueueOk(c, n + 1, q)
  <2> HIDE DEF q
  <2> QED
    BY <1>4, <1>5 DEF QueueOk
<1>7. SeenOk(c, n + 1, w)
  BY <1>2, <1>4 DEF SeenOk
<1> QED
  BY <1>3, <1>6, <1>7 DEF Walked

\* A walk, from its start until nothing is left to do.
LEMMA DrainIs ==
    ASSUME NEW c, IsJob(c), NEW start, Walked(c, 0, start), c.base = Len(start.queued)
    PROVE  LET w == Drain(c.db, c.e = 1, c.filter, c.max, start)
           IN  \E n \in Nat : Walked(c, n, w) /\ n >= Len(w.queued) /\ w.carriers = start.carriers
<1> DEFINE db == c.db
           emit == c.e = 1
           steps == Len(start.queued) + Len(db.order)
           More(so, n) == IF n <= Len(so.queued) THEN Discover(db, emit, c.filter, c.max, so, so.queued[n]) ELSE so
           Is(f) == f = [n \in 0 .. steps |-> IF n = 0 THEN start ELSE More(f[n - 1], n)]
           walk == CHOOSE f : Is(f)
           step == [x \in WalkStates \X (1 .. steps) |-> More(x[1], x[2])]
<1>1. Drain(db, emit, c.filter, c.max, start) = walk[steps]
  BY Zenon DEF Drain
<1>2. start \in WalkStates /\ start.queued \in Seq(Spots)
  BY DEF Walked, WalkStates
<1>3. steps \in Nat
  <2>1. db.order \in Seq(Nat)
    BY DEF IsJob, IsGraph
  <2> HIDE DEF db
  <2>2. Len(db.order) \in Nat
    BY <2>1
  <2>3. Len(start.queued) \in Nat
    BY <1>2
  <2> DEFINE a == Len(start.queued)
             b == Len(db.order)
  <2>4. a \in Nat /\ b \in Nat /\ steps = a + b
    BY <2>2, <2>3
  <2> HIDE DEF a, b, steps
  <2> QED
    BY <2>4
<1>4. IsGraph(db) /\ emit \in BOOLEAN /\ c.max \in Nat
  BY DEF IsJob
<1>5. ASSUME NEW so \in WalkStates, NEW n \in Nat, n >= 1
      PROVE  /\ More(so, n) \in WalkStates
             /\ n <= Len(so.queued) =>
                  so.queued[n] \in Spots /\ Discovers(db, emit, c.filter, c.max, so, so.queued[n], More(so, n))
  <2>1. CASE n <= Len(so.queued)
    <3>1. so.queued \in Seq(Spots)
      BY DEF WalkStates
    <3>2. n \in DOMAIN so.queued
      BY <1>5, <2>1, <3>1
    <3>3. so.queued[n] \in Spots
      BY <3>1, <3>2
    <3> DEFINE then == Discover(db, emit, c.filter, c.max, so, so.queued[n])
    <3>4. Discovers(db, emit, c.filter, c.max, so, so.queued[n], then)
      <4> HIDE DEF db, emit, then
      <4> QED
        BY <1>4, <3>3, DiscoverIs DEF then
    <3>5. More(so, n) = then
      BY <2>1
    <3>6. then \in WalkStates
      BY <3>4 DEF Discovers
    <3> HIDE DEF then, More, db, emit
    <3> QED
      BY <3>3, <3>4, <3>5, <3>6
  <2>2. CASE ~(n <= Len(so.queued))
    <3>1. More(so, n) = so
      BY <2>2
    <3> HIDE DEF More
    <3> QED
      BY <2>2, <3>1
  <2> QED
    BY <2>1, <2>2
<1>6. \A so, n : ~(n <= Len(so.queued)) => More(so, n) = so
  OBVIOUS
<1> HIDE DEF More, db, emit, steps
<1>7. Is(walk)
  <2>1. step \in [WalkStates \X (1 .. steps) -> WalkStates]
    BY <1>3, <1>5
  <2> HIDE DEF step
  <2>2. PICK f : Iterates(f, steps, WalkStates, start, step)
    BY <1>2, <1>3, <2>1, Iteration
  <2>3. \A n \in 1 .. steps : f[n] = More(f[n - 1], n)
    <3>1. \A n \in 1 .. steps : f[n - 1] \in WalkStates /\ f[n] = step[<<f[n - 1], n>>]
      BY <1>3, <2>2 DEF Iterates
    <3> QED
      BY <3>1 DEF step
  <2>4. f = [n \in 0 .. steps |-> IF n = 0 THEN start ELSE More(f[n - 1], n)]
    BY <1>3, <2>2, <2>3 DEF Iterates
  <2> QED
    BY <2>4
<1> HIDE DEF walk
<1>8. walk[0] = start /\ \A n \in 1 .. steps : walk[n] = More(walk[n - 1], n)
  BY <1>3, <1>7
<1> DEFINE Good(n) == Walked(c, n, walk[n]) /\ walk[n].carriers = start.carriers
           bad == {n \in 0 .. steps : ~Good(n)}
<1>9. ASSUME NEW n \in 1 .. steps, Good(n - 1) PROVE Good(n)
  <2> DEFINE so == walk[n - 1]
             then == walk[n]
             k == n - 1
  <2>1. k \in Nat /\ n = k + 1 /\ n \in Nat /\ n >= 1
    BY <1>3
  <2>2. then = More(so, n)
    BY <1>8
  <2>3. Walked(c, k, so) /\ so.carriers = start.carriers /\ so \in WalkStates
    BY <1>9 DEF Walked
  <2> HIDE DEF k, so, then
  <2>4. CASE n <= Len(so.queued)
    <3>1. Discovers(db, emit, c.filter, c.max, so, so.queued[n], then)
      BY <1>5, <2>1, <2>2, <2>3, <2>4
    <3>2. n \in DOMAIN so.queued
      <4>1. so.queued \in Seq(Spots)
        BY <2>3 DEF WalkStates
      <4> QED
        BY <2>1, <2>4, <4>1
    <3>3. StepOf(c, k, so, then)
      BY <2>1, <2>3, <3>1, <3>2 DEF StepOf, db, emit
    <3>4. Walked(c, n, then) /\ then.carriers = so.carriers
      BY <2>1, <3>1, <3>3, WalkStep DEF Discovers
    <3> QED
      BY <2>3, <3>4 DEF then
  <2>5. CASE ~(n <= Len(so.queued))
    <3>1. then = so
      BY <1>6, <2>2, <2>5
    <3>2. k >= Len(so.queued)
      <4>1. so.queued \in Seq(Spots) /\ Len(so.queued) \in Nat
        BY <2>3 DEF WalkStates
      <4> QED
        BY <2>1, <2>5, <4>1
    <3>3. Walked(c, k + 1, so)
      BY <2>1, <2>3, <3>2, WalkRests
    <3> QED
      BY <2>1, <2>3, <3>1, <3>3 DEF then
  <2> QED
    BY <2>4, <2>5
<1> HIDE DEF Good
<1>10. Good(0)
  BY <1>8 DEF Good
<1>11. bad = {}
  <2> SUFFICES ASSUME bad # {} PROVE FALSE
    OBVIOUS
  <2>1. PICK m \in bad : \A n \in bad : m <= n
    <3>1. bad \in SUBSET Nat
      BY <1>3
    <3> HIDE DEF bad
    <3> QED
      BY <3>1, LeastOf
  <2>2. m \in 1 .. steps /\ m - 1 \in 0 .. steps /\ m - 1 \notin bad
    BY <1>3, <1>10, <2>1
  <2> QED
    BY <1>9, <2>1, <2>2
<1>12. Good(steps)
  BY <1>3, <1>11
<1>13. Len(walk[steps].queued) <= steps
  <2>1. Walked(c, steps, walk[steps])
    BY <1>12 DEF Good
  <2>2. Len(walk[steps].queued) <= c.base + Len(c.db.order)
    BY <2>1, QueueIsShort
  <2> QED
    BY <2>2 DEF steps, db
<1>14. Len(walk[steps].queued) \in Nat
  BY <1>12, QueueIsShort DEF Good
<1>15. steps >= Len(walk[steps].queued)
  BY <1>3, <1>13, <1>14
<1> QED
  BY <1>1, <1>3, <1>12, <1>15 DEF Good, db, emit

\* What a finished walk lists: every form of the type that is one hop or more
\* away, within the hops, once.
Wanted(c) == {id \in Forms(c.db) : TypeMatches(c.db, c.filter, id) /\ \E k \in 1 .. c.max : AtHops(c.W, k, id)}
Lists(c, rows) ==
    /\ rows \in Seq(RefRows) /\ {rows[i].id : i \in DOMAIN rows} = Wanted(c)
    /\ \A i \in DOMAIN rows : RowOk(c, c.S, rows[i])
    /\ \A i, j \in DOMAIN rows : rows[i].id = rows[j].id => i = j

LEMMA WalkIsExact ==
    ASSUME NEW c, IsJob(c), NEW n \in Nat, NEW w, Walked(c, n, w), n >= Len(w.queued)
    PROVE  Lists(c, w.rows)
<1> DEFINE q == w.queued
           rows == w.rows
           done == Done(n, q)
<1>1. q \in Seq(Spots) /\ rows \in Seq(RefRows)
  BY DEF Walked, WalkStates
<1>2. c.max \in Nat /\ c.max >= 1 /\ Levels(c.db, c.W, c.S, c.max)
  BY DEF IsJob
<1>3. \A i \in DOMAIN q : i <= n
  BY <1>1
<1>4. /\ c.S \subseteq w.seen
      /\ \A id \in w.seen : \E k \in 0 .. c.max : KeptAt(c, w, k, id)
  BY DEF Walked, SeenOk
<1>5. /\ \A i \in DOMAIN rows : RowOk(c, done, rows[i])
      /\ \A i, j \in DOMAIN rows : rows[i].id = rows[j].id => i = j
  BY DEF Walked, RowsOk
<1>6. \A k \in 0 .. c.max : \A id : AtHops(c.W, k, id) => id \in w.seen
  <2>1. \A i \in DOMAIN q : i > n => Far(c, q[i]) >= c.max
    <3>1. \A i \in DOMAIN q : i \in Nat
      BY <1>1
    <3> HIDE DEF q
    <3>2. \A i \in DOMAIN q : ~(i > n)
      BY <1>3, <3>1
    <3> QED
      BY <3>2
  <2>2. c.max \in 0 .. c.max
    BY <1>2
  <2> QED
    BY <2>1, <2>2, SeenWithin
<1> HIDE DEF q, rows, done
<1>7. ASSUME NEW k \in 0 .. c.max, NEW id, AtHops(c.W, k, id)
      PROVE  KeptAt(c, w, k, id)
  <2>1. PICK l \in 0 .. c.max : KeptAt(c, w, l, id)
    BY <1>4, <1>6, <1>7
  <2>2. AtHops(c.W, l, id)
    BY <2>1 DEF KeptAt
  <2>3. l = k
    BY <1>2, <1>7, <2>2, OneDistance
  <2> QED
    BY <2>1, <2>3
<1>8. c.S \subseteq done
  <2> SUFFICES ASSUME NEW id \in c.S PROVE id \in done
    OBVIOUS
  <2>1. 0 \in 0 .. c.max /\ AtHops(c.W, 0, id) /\ 0 < c.max
    BY <1>2 DEF AtHops, Levels
  <2>2. KeptAt(c, w, 0, id)
    BY <1>7, <2>1
  <2>3. PICK i \in DOMAIN q : q[i].node = id
    BY <2>1, <2>2 DEF KeptAt, q
  <2> QED
    BY <1>3, <2>3 DEF done, Done
<1>9. \A i \in DOMAIN rows : RowOk(c, c.S, rows[i])
  <2> TAKE i \in DOMAIN rows
  <2>1. RowOk(c, done, rows[i])
    BY <1>5
  <2>2. TagsBy(c, done, rows[i].id) = TagsBy(c, c.S, rows[i].id)
    <3>1. c.S \cap done = c.S \cap c.S
      BY <1>8
    <3> QED
      BY <3>1 DEF TagsBy
  <2> QED
    BY <2>1, <2>2 DEF RowOk
<1>10. ASSUME NEW i \in DOMAIN rows PROVE rows[i].id \in Wanted(c)
  <2>1. RowOk(c, done, rows[i])
    BY <1>5
  <2> QED
    BY <2>1 DEF RowOk, Wanted
<1>11. ASSUME NEW id \in Wanted(c) PROVE \E i \in DOMAIN rows : rows[i].id = id
  <2>1. TypeMatches(c.db, c.filter, id)
    BY DEF Wanted
  <2>2. PICK k \in 1 .. c.max : AtHops(c.W, k, id)
    BY DEF Wanted
  <2>3. k \in 0 .. c.max /\ k > 0
    BY <1>2
  <2>4. KeptAt(c, w, k, id)
    BY <1>7, <2>2, <2>3
  <2> QED
    BY <2>1, <2>3, <2>4 DEF KeptAt, rows
<1>12. {rows[i].id : i \in DOMAIN rows} = Wanted(c)
  BY <1>10, <1>11
<1> QED
  BY <1>1, <1>5, <1>9, <1>12 DEF Lists, rows

\* A finite set of numbers has a greatest.
LEMMA GreatestIs ==
    ASSUME NEW S \in SUBSET Nat, IsFiniteSet(S), S # {}
    PROVE  Max(S) \in S /\ \A x \in S : x <= Max(S)
<1> DEFINE key == [x \in S |-> x]
           s == Sorted(S, key)
           k == Cardinality(S)
<1>1. key \in [S -> Nat] /\ \A x, y \in S : key[x] = key[y] => x = y
  OBVIOUS
<1>2. Sorts(s, S, key)
  <2> HIDE DEF key
  <2> QED
    BY <1>1, SortedIs
<1>3. k \in Nat /\ k # 0
  BY FS_CardinalityType, FS_EmptySet
<1> HIDE DEF s, k
<1>4. s \in [1 .. k -> S] /\ S = {s[i] : i \in 1 .. k} /\ \A i, j \in 1 .. k : i < j => key[s[i]] < key[s[j]]
  BY <1>2 DEF Sorts, Ascends, k
<1>5. k \in 1 .. k
  BY <1>3
<1>6. s[k] \in S /\ \A x \in S : x <= s[k]
  <2>1. ASSUME NEW x \in S PROVE x <= s[k]
    <3>1. PICK i \in 1 .. k : s[i] = x
      BY <1>4
    <3>2. i = k \/ i < k
      BY <1>3
    <3>3. i < k => x < s[k]
      BY <1>4, <1>5, <3>1
    <3>4. x \in Nat /\ s[k] \in Nat
      BY <1>4, <1>5
    <3> QED
      BY <3>1, <3>2, <3>3, <3>4
  <2> QED
    BY <1>4, <1>5, <2>1
<1>7. Max(S) = s[k]
  BY <1>6, MaxIs
<1> QED
  BY <1>6, <1>7

\* Two numbers below a width are told apart by their places.
LEMMA PlacesDiffer ==
    ASSUME NEW w \in Nat, NEW a \in Nat, NEW b \in Nat, NEW c \in Nat, NEW d \in Nat,
           b < w, d < w, a * w + b = c * w + d
    PROVE  a = c /\ b = d
<1>1. ASSUME NEW x \in Nat, NEW y \in Nat, x < y
      PROVE  x * w + w <= y * w
  <2>1. PICK z \in Nat : y = x + 1 + z
    <3>1. y - x - 1 \in Nat /\ y = x + 1 + (y - x - 1)
      BY <1>1
    <3> QED
      BY <3>1
  <2>2. y * w = x * w + w + z * w
    BY <2>1
  <2>3. z * w \in Nat /\ x * w \in Nat
    OBVIOUS
  <2> QED
    BY <2>2, <2>3
<1>2. a * w \in Nat /\ c * w \in Nat
  OBVIOUS
<1>3. ~(a < c)
  BY <1>1, <1>2
<1>4. ~(c < a)
  BY <1>1, <1>2
<1>5. a = c
  BY <1>3, <1>4
<1> QED
  BY <1>2, <1>5

\* A set sorted by two keys is held once each.
LEMMA TwoSortedIs ==
    ASSUME NEW S, IsFiniteSet(S), NEW first \in [S -> Nat], NEW second \in [S -> Nat],
           \A x, y \in S : first[x] = first[y] /\ second[x] = second[y] => x = y
    PROVE  LET s == SortedByTwo(S, first, second)
           IN  s \in Seq(S) /\ Len(s) = Cardinality(S) /\ ToSet(s) = S /\ Once(s)
<1> DEFINE seconds == {second[x] : x \in S}
           width == 1 + Max(seconds)
           key == [x \in S |-> first[x] * width + second[x]]
           s == Sorted(S, key)
           k == Cardinality(S)
<1>1. SortedByTwo(S, first, second) = s
  BY Zenon DEF SortedByTwo
<1>2. S # {} => width \in Nat /\ \A x \in S : second[x] < width
  <2> SUFFICES ASSUME S # {} PROVE width \in Nat /\ \A x \in S : second[x] < width
    OBVIOUS
  <2>1. seconds \in SUBSET Nat /\ seconds # {}
    OBVIOUS
  <2>2. IsFiniteSet(seconds)
    <3>1. second \in Surjection(S, seconds)
      BY DEF Surjection
    <3> QED
      BY <3>1, FS_Surjection
  <2>3. \A x \in S : second[x] \in seconds
    OBVIOUS
  <2> HIDE DEF seconds
  <2>4. Max(seconds) \in seconds /\ \A x \in seconds : x <= Max(seconds)
    BY <2>1, <2>2, GreatestIs
  <2>5. Max(seconds) \in Nat
    BY <2>1, <2>4
  <2> QED
    BY <2>3, <2>4, <2>5
<1> HIDE DEF width
<1>3. key \in [S -> Nat] /\ \A x, y \in S : key[x] = key[y] => x = y
  <2>1. \A x \in S : width \in Nat /\ first[x] \in Nat /\ second[x] \in Nat /\ second[x] < width
    BY <1>2
  <2>2. ASSUME NEW x \in S PROVE key[x] \in Nat
    <3>1. first[x] * width \in Nat
      BY <2>1
    <3> QED
      BY <2>1, <3>1
  <2>3. ASSUME NEW x \in S, NEW y \in S, key[x] = key[y] PROVE x = y
    <3>1. first[x] * width + second[x] = first[y] * width + second[y]
      BY <2>3
    <3>2. first[x] = first[y] /\ second[x] = second[y]
      BY <2>1, <3>1, PlacesDiffer
    <3> QED
      BY <3>2
  <2>4. key \in [S -> Nat]
    BY <2>2
  <2> QED
    BY <2>3, <2>4
<1> HIDE DEF key
<1>4. Sorts(s, S, key)
  BY <1>3, SortedIs
<1>5. k \in Nat
  BY FS_CardinalityType
<1> HIDE DEF s, k
<1>6. s \in [1 .. k -> S] /\ S = {s[i] : i \in 1 .. k} /\ \A i, j \in 1 .. k : i < j => key[s[i]] < key[s[j]]
  BY <1>4 DEF Sorts, Ascends, k
<1>7. s \in Seq(S) /\ Len(s) = k /\ ToSet(s) = S
  <2>1. s \in [1 .. k -> S] /\ DOMAIN s = 1 .. k
    BY <1>6
  <2>2. s \in Seq(S) /\ Len(s) = k
    BY <1>5, <2>1
  <2>3. ToSet(s) = S
    BY <1>6, <2>1 DEF ToSet
  <2> QED
    BY <2>2, <2>3
<1>8. ASSUME NEW i \in 1 .. k, NEW j \in 1 .. k, s[i] = s[j] PROVE i = j
  <2>1. key[s[i]] = key[s[j]] /\ key[s[i]] \in Nat
    BY <1>3, <1>6, <1>8
  <2>2. /\ i < j => key[s[i]] < key[s[j]]
        /\ j < i => key[s[j]] < key[s[i]]
    BY <1>6
  <2> DEFINE a == key[s[i]]
             b == key[s[j]]
  <2> HIDE DEF a, b
  <2>3. a = b /\ a \in Nat /\ (i < j => a < b) /\ (j < i => b < a)
    BY <2>1, <2>2 DEF a, b
  <2>4. ~(i < j) /\ ~(j < i)
    BY <2>3
  <2> QED
    BY <1>5, <2>4
<1>9. Once(s)
  BY <1>6, <1>8 DEF Once
<1> QED
  BY <1>1, <1>7, <1>9 DEF s, k

\* Seeds of a set of forms, one for each, with their tags.
Seeds == [id : Nat, tags : SUBSET Nat]
SeedsOf(seeds, S, tag) ==
    /\ seeds \in Seq(Seeds) /\ {seeds[i].id : i \in DOMAIN seeds} = S
    /\ \A i \in DOMAIN seeds : seeds[i].tags = tag[seeds[i].id]
    /\ \A i, j \in DOMAIN seeds : seeds[i].id = seeds[j].id => i = j

\* Some of them are picked.
LEMMA SeedsPicked ==
    ASSUME NEW seeds, NEW S, NEW tag, SeedsOf(seeds, S, tag), NEW I \in SUBSET DOMAIN seeds
    PROVE  SeedsOf(Picked(seeds, I), {seeds[i].id : i \in I}, tag)
<1> DEFINE p == Picked(seeds, I)
<1>1. /\ seeds \in Seq(Seeds) /\ {seeds[i].id : i \in DOMAIN seeds} = S
      /\ \A i \in DOMAIN seeds : seeds[i].tags = tag[seeds[i].id]
      /\ \A i, j \in DOMAIN seeds : seeds[i].id = seeds[j].id => i = j
  BY DEF SeedsOf
<1>2. \A i, j \in I : seeds[i] = seeds[j] => i = j
  BY <1>1
<1>3. p \in Seq(Seeds) /\ ToSet(p) = {seeds[i] : i \in I} /\ Once(p)
  BY <1>1, <1>2, PickedHolds
<1> HIDE DEF p
<1>4. \A n \in DOMAIN p : \E i \in I : p[n] = seeds[i]
  BY <1>3 DEF ToSet
<1>5. \A i \in I : \E n \in DOMAIN p : p[n] = seeds[i]
  BY <1>3 DEF ToSet
<1>6. {p[n].id : n \in DOMAIN p} = {seeds[i].id : i \in I}
  BY <1>4, <1>5
<1>7. \A n \in DOMAIN p : p[n].tags = tag[p[n].id]
  BY <1>1, <1>4
<1>8. ASSUME NEW m \in DOMAIN p, NEW n \in DOMAIN p, p[m].id = p[n].id
      PROVE  m = n
  <2>1. PICK i \in I : p[m] = seeds[i]
    BY <1>4
  <2>2. PICK j \in I : p[n] = seeds[j]
    BY <1>4
  <2>3. p[m] = p[n]
    BY <1>1, <1>8, <2>1, <2>2
  <2> QED
    BY <1>3, <2>3 DEF Once
<1> QED
  BY <1>3, <1>6, <1>7, <1>8 DEF SeedsOf, p

LEMMA DedupIs ==
    ASSUME NEW seeds, NEW S, NEW tag, SeedsOf(seeds, S, tag)
    PROVE  SeedsOf(DedupSeeds(seeds), S, tag)
<1> DEFINE I == {i \in DOMAIN seeds : \A j \in 1..(i - 1) : seeds[j].id # seeds[i].id}
<1>1. DedupSeeds(seeds) = Picked(seeds, I)
  BY DEF DedupSeeds
<1>2. /\ seeds \in Seq(Seeds) /\ {seeds[i].id : i \in DOMAIN seeds} = S
      /\ \A i, j \in DOMAIN seeds : seeds[i].id = seeds[j].id => i = j
  BY DEF SeedsOf
<1>3. I = DOMAIN seeds
  <2> SUFFICES ASSUME NEW i \in DOMAIN seeds, NEW j \in 1 .. i - 1 PROVE seeds[j].id # seeds[i].id
    OBVIOUS
  <2>1. j \in DOMAIN seeds /\ j # i
    BY <1>2
  <2> QED
    BY <1>2, <2>1
<1> HIDE DEF I
<1>4. SeedsOf(Picked(seeds, DOMAIN seeds), {seeds[i].id : i \in DOMAIN seeds}, tag)
  BY SeedsPicked
<1> QED
  BY <1>1, <1>2, <1>3, <1>4

\* A walk starts at its seeds.  With carriers, the seeds are rows themselves.
CarrierRows(c, rows) ==
    /\ rows \in Seq(RefRows)
    /\ {rows[i].id : i \in DOMAIN rows} = {id \in c.S : c.e = 1 /\ TypeMatches(c.db, c.filter, id)}
    /\ \A i \in DOMAIN rows : rows[i].depth = 0 /\ rows[i].path = <<>> /\ rows[i].tags = c.tag[rows[i].id]
    /\ \A i, j \in DOMAIN rows : rows[i].id = rows[j].id => i = j

Starts(c, seeds) == StartWalk(c.db, seeds, c.e = 1, c.filter)

LEMMA StartIs ==
    ASSUME NEW c, IsJob(c), NEW seeds, SeedsOf(seeds, c.S, c.tag), c.base = Len(Starts(c, seeds).queued),
           c.e = 1 => c.S \subseteq Forms(c.db), c.e = 0 => c.S = {c.start[1]}
    PROVE  Walked(c, 0, Starts(c, seeds)) /\ CarrierRows(c, Starts(c, seeds).carriers)
<1> DEFINE db == c.db
           emit == c.e = 1
           K == {i \in DOMAIN seeds : emit => seeds[i].id \in Forms(db)}
           known == Picked(seeds, K)
           J == {i \in DOMAIN known : emit /\ TypeMatches(db, c.filter, known[i].id)}
           carriers == Picked(known, J)
           w == Starts(c, seeds)
           path(i) == IF emit THEN <<known[i].id>> ELSE <<>>
           spot(i) == [node |-> known[i].id, tags |-> known[i].tags, path |-> path(i)]
           row(i) == [id |-> carriers[i].id, depth |-> 0, path |-> <<>>, tags |-> carriers[i].tags]
<1>1. w = [seen |-> {seed.id : seed \in ToSet(seeds)}, queued |-> [i \in DOMAIN known |-> spot(i)],
           carriers |-> [i \in DOMAIN carriers |-> row(i)], rows |-> <<>>, frontier |-> 0]
  BY Zenon DEF Starts, StartWalk
<1>2. /\ seeds \in Seq(Seeds) /\ {seeds[i].id : i \in DOMAIN seeds} = c.S
  BY DEF SeedsOf
<1>3. SeedsOf(known, c.S, c.tag)
  <2>1. K = DOMAIN seeds
    BY <1>2
  <2> HIDE DEF K
  <2>2. SeedsOf(Picked(seeds, DOMAIN seeds), {seeds[i].id : i \in DOMAIN seeds}, c.tag)
    BY SeedsPicked
  <2> QED
    BY <1>2, <2>1, <2>2
<1> HIDE DEF known
<1>4. SeedsOf(carriers, {known[i].id : i \in J}, c.tag)
  <2>1. J \in SUBSET DOMAIN known
    OBVIOUS
  <2> HIDE DEF J
  <2> QED
    BY <1>3, <2>1, SeedsPicked
<1>5. {known[i].id : i \in J} = {id \in c.S : emit /\ TypeMatches(db, c.filter, id)}
  <2>1. {known[i].id : i \in DOMAIN known} = c.S
    BY <1>3 DEF SeedsOf
  <2> HIDE DEF emit, db
  <2> QED
    BY <2>1
<1> HIDE DEF J, carriers
<1>6. /\ known \in Seq(Seeds) /\ {known[i].id : i \in DOMAIN known} = c.S
      /\ \A i \in DOMAIN known : known[i].tags = c.tag[known[i].id]
      /\ \A i, j \in DOMAIN known : known[i].id = known[j].id => i = j
  BY <1>3 DEF SeedsOf
<1>7. /\ carriers \in Seq(Seeds) /\ {carriers[i].id : i \in DOMAIN carriers} = {id \in c.S : emit /\ TypeMatches(db, c.filter, id)}
      /\ \A i \in DOMAIN carriers : carriers[i].tags = c.tag[carriers[i].id]
      /\ \A i, j \in DOMAIN carriers : carriers[i].id = carriers[j].id => i = j
  BY <1>4, <1>5 DEF SeedsOf
<1>8. \A i \in DOMAIN known : known[i] \in Seeds /\ known[i].id \in Nat /\ known[i].tags \in SUBSET Nat /\ known[i].id \in c.S
  <2> TAKE i \in DOMAIN known
  <2>1. known[i] \in Seeds /\ known[i].id \in c.S
    BY <1>6
  <2> QED
    BY <2>1 DEF Seeds
<1>9. \A i \in DOMAIN known : path(i) \in Seq(Nat) /\ Len(path(i)) = c.e
  <2> TAKE i \in DOMAIN known
  <2>1. c.e = 1 \/ c.e = 0
    BY DEF IsJob
  <2>2. CASE c.e = 1
    BY <1>8, <2>2
  <2>3. CASE c.e = 0
    BY <2>3
  <2> QED
    BY <2>1, <2>2, <2>3, Zenon
<1>10. \A i \in DOMAIN known : emit => path(i)[1] = known[i].id
  OBVIOUS
<1>11. \A i \in DOMAIN known : c.start \o path(i) = <<known[i].id>>
  <2> TAKE i \in DOMAIN known
  <2>1. c.start \in Seq(c.S) /\ Len(c.start) = 1 - c.e /\ c.e \in 0 .. 1
    BY DEF IsJob
  <2>2. CASE c.e = 1
    <3>1. c.start = <<>> /\ path(i) = <<known[i].id>>
      BY <2>1, <2>2
    <3> HIDE DEF path
    <3> QED
      BY <3>1
  <2>3. CASE c.e = 0
    <3>1. Len(c.start) = 1 /\ path(i) = <<>> /\ c.start[1] = known[i].id
      BY <1>8, <2>1, <2>3
    <3>2. c.start = <<known[i].id>>
      BY <2>1, <3>1
    <3> HIDE DEF path
    <3> QED
      BY <3>1, <3>2
  <2>4. c.e = 1 \/ c.e = 0
    BY <2>1
  <2> QED
    BY <2>2, <2>3, <2>4, Zenon
<1>12. \A i \in DOMAIN known : spot(i).node = known[i].id /\ spot(i).tags = known[i].tags /\ spot(i).path = path(i) /\ spot(i) \in Spots
  BY <1>8, <1>9 DEF Spots
<1>13. \A i \in DOMAIN carriers :
          row(i).id = carriers[i].id /\ row(i).depth = 0 /\ row(i).path = <<>> /\ row(i).tags = carriers[i].tags /\ row(i) \in RefRows
  <2> TAKE i \in DOMAIN carriers
  <2>1. carriers[i].id \in Nat /\ carriers[i].tags \in SUBSET Nat
    <3>1. carriers[i] \in Seeds
      BY <1>7
    <3> QED
      BY <3>1 DEF Seeds
  <2>2. <<>> \in Seq(Nat)
    OBVIOUS
  <2> QED
    BY <2>1, <2>2 DEF RefRows
<1> HIDE DEF path, spot, row, w, K, emit, db
<1>14. /\ w.seen = {seed.id : seed \in ToSet(seeds)} /\ w.queued = [i \in DOMAIN known |-> spot(i)]
       /\ w.carriers = [i \in DOMAIN carriers |-> row(i)] /\ w.rows = <<>> /\ w.frontier = 0
  BY <1>1
<1>15. w.seen = c.S
  BY <1>2, <1>14 DEF ToSet
<1>16. w.queued \in Seq(Spots) /\ DOMAIN w.queued = DOMAIN known /\ \A i \in DOMAIN known : w.queued[i] = spot(i)
  <2>1. Len(known) \in Nat /\ DOMAIN known = 1 .. Len(known)
    BY <1>6
  <2>2. w.queued \in [1 .. Len(known) -> Spots]
    BY <1>12, <1>14, <2>1
  <2> QED
    BY <1>14, <2>1, <2>2
<1>17. w.carriers \in Seq(RefRows) /\ DOMAIN w.carriers = DOMAIN carriers /\ \A i \in DOMAIN carriers : w.carriers[i] = row(i)
  <2>1. Len(carriers) \in Nat /\ DOMAIN carriers = 1 .. Len(carriers)
    BY <1>7
  <2>2. w.carriers \in [1 .. Len(carriers) -> RefRows]
    BY <1>13, <1>14, <2>1
  <2> QED
    BY <1>14, <2>1, <2>2
<1>18. w \in WalkStates
  <2>1. c.S \in SUBSET Nat
    BY DEF IsJob
  <2>2. w = [seen |-> w.seen, queued |-> w.queued, carriers |-> w.carriers, rows |-> w.rows, frontier |-> w.frontier]
    BY <1>1
  <2>3. w.rows \in Seq(RefRows) /\ w.frontier \in Nat
    BY <1>14
  <2> QED
    BY <1>15, <1>16, <1>17, <2>1, <2>2, <2>3 DEF WalkStates
<1>19. CarrierRows(c, w.carriers)
  <2> DEFINE r == w.carriers
  <2>1. \A i \in DOMAIN r : /\ r[i].id = carriers[i].id /\ r[i].depth = 0 /\ r[i].path = <<>>
                            /\ r[i].tags = carriers[i].tags
    BY <1>13, <1>17
  <2>2. DOMAIN r = DOMAIN carriers /\ r \in Seq(RefRows)
    BY <1>17
  <2> HIDE DEF r
  <2>3. {r[i].id : i \in DOMAIN r} = {id \in c.S : emit /\ TypeMatches(db, c.filter, id)}
    BY <1>7, <2>1, <2>2
  <2>4. \A i, j \in DOMAIN r : r[i].id = r[j].id => i = j
    BY <1>7, <2>1, <2>2
  <2>5. \A i \in DOMAIN r : r[i].depth = 0 /\ r[i].path = <<>> /\ r[i].tags = c.tag[r[i].id]
    BY <1>7, <2>1, <2>2
  <2> QED
    BY <2>2, <2>3, <2>4, <2>5 DEF CarrierRows, emit, db, r
<1>20. ASSUME NEW i \in DOMAIN known
       PROVE  SpotOk(c, w.queued[i]) /\ Far(c, w.queued[i]) = 0
  <2> DEFINE s == w.queued[i]
  <2>1. s.node = known[i].id /\ s.tags = c.tag[s.node] /\ s.path = path(i) /\ s.node \in c.S
    BY <1>6, <1>8, <1>12, <1>16
  <2>2. c.max \in Nat /\ c.max >= 1 /\ c.W[0] = c.S /\ c.e \in 0 .. 1
    BY DEF IsJob, Levels
  <2> HIDE DEF s
  <2>3. Far(c, s) = 0
    BY <1>9, <2>1, <2>2 DEF Far
  <2>4. Far(c, s) \in 0 .. c.max - 1 /\ AtHops(c.W, Far(c, s), s.node)
    BY <2>1, <2>2, <2>3 DEF AtHops
  <2>5. Leads(c, s.path, s.node)
    <3> DEFINE t == Trail(c, s.path)
    <3>1. t = <<s.node>>
      BY <1>11, <2>1 DEF Trail
    <3> HIDE DEF t
    <3>2. Len(t) = 1 /\ t[1] = s.node
      BY <3>1
    <3>3. IsChain(c.db, t)
      BY <3>2 DEF IsChain
    <3> QED
      BY <2>1, <3>2, <3>3 DEF Leads, t
  <2>6. c.e = 1 => s.path[1] \in c.S /\ s.tags = c.tag[s.path[1]]
    BY <1>10, <2>1 DEF emit
  <2> QED
    BY <2>3, <2>4, <2>5, <2>6 DEF SpotOk, s
<1>21. QueueOk(c, 0, w.queued)
  <2>1. \A i, j \in DOMAIN w.queued : w.queued[i].node = w.queued[j].node => i = j
    BY <1>6, <1>12, <1>16
  <2>2. \A i \in DOMAIN w.queued : SpotOk(c, w.queued[i]) /\ Far(c, w.queued[i]) = 0
    BY <1>16, <1>20
  <2>3. c.base \in Nat /\ c.base = Len(w.queued)
    BY DEF IsJob, w
  <2>4. \A i \in DOMAIN w.queued : ~(i > c.base)
    BY <1>16, <2>3
  <2>5. \A i, j \in DOMAIN w.queued : Far(c, w.queued[i]) <= Far(c, w.queued[j]) /\ Far(c, w.queued[j]) <= Far(c, w.queued[i]) + 1
    BY <2>2
  <2>6. c.base <= Len(w.queued)
    BY <2>3
  <2> QED
    BY <2>1, <2>2, <2>4, <2>5, <2>6 DEF QueueOk
<1>22. SeenOk(c, 0, w)
  <2>1. c.max \in Nat /\ 0 \in 0 .. c.max /\ c.W[0] = c.S
    BY DEF IsJob, Levels
  <2>2. \A i \in DOMAIN w.queued : w.queued[i].node \in w.seen /\ ~(i <= 0)
    <3>1. \A i \in DOMAIN w.queued : ~(i <= 0)
      BY <1>16
    <3> QED
      BY <1>8, <1>12, <1>15, <1>16, <3>1
  <2>3. ASSUME NEW id \in w.seen PROVE KeptAt(c, w, 0, id)
    <3>1. AtHops(c.W, 0, id)
      BY <1>15, <2>1 DEF AtHops
    <3>2. PICK i \in DOMAIN known : known[i].id = id
      BY <1>6, <1>15
    <3>3. i \in DOMAIN w.queued /\ w.queued[i].node = id
      BY <1>12, <1>16, <3>2
    <3> QED
      BY <3>1, <3>3 DEF KeptAt
  <2> QED
    BY <1>15, <2>1, <2>2, <2>3 DEF SeenOk
<1>23. RowsOk(c, Done(0, w.queued), w)
  BY <1>14 DEF RowsOk
<1> QED
  BY <1>18, <1>19, <1>21, <1>22, <1>23 DEF Walked, w

-----------------------------------------------------------------------------
(* Lists of references.                                                    *)

\* A request for one: every carrier of the sample is an indexed record, and
\* the sample lists it once.
Carriers == [id : Nat, effects : Seq([id : Nat, name : STRING])]
IsRefRequest(q) ==
    /\ IsGraph(q.db) /\ q.depth \in Nat /\ q.cap \in Nat \ {0} /\ q.limit \in Nat
    /\ q.named \in Nat /\ (q.sel.by = "formid" => q.sel.id \in Nat)
    /\ q.sample \in Seq(Carriers) /\ \A i \in DOMAIN q.sample : q.sample[i].id \in Forms(q.db)
    /\ \A i, j \in DOMAIN q.sample : q.sample[i].id = q.sample[j].id => i = j

TagOf(q) == [id \in Origins(q) |-> IF ByCarrier(q.sel, q.named) THEN TagsOf(q, id) ELSE {}]

\* The effects of a carrier that a spec matches are those that are asked for.
LEMMA AskedIs ==
    ASSUME NEW sel, SpecOf(sel).by # "refused", NEW effect
    PROVE  SpecMatches(SpecOf(sel), effect) <=> AskedFor(sel, effect)
<1> DEFINE token == sel.token
           property == sel.by = "omod_property"
           hex == token.kind = "hex"
           digits == token.kind = "digits"
           scoped == token.scoped
<1>1. SpecOf(sel) = CASE hex -> [by |-> "refused"]
                      [] digits /\ property /\ ~scoped -> [by |-> "refused"]
                      [] digits /\ (~property \/ scoped) -> [by |-> "id", id |-> token.id]
                      [] OTHER -> [by |-> "name", names |-> token.names]
  BY Zenon DEF SpecOf, ParseSpec
<1>2. AskedFor(sel, effect) = IF digits THEN effect.id = token.id ELSE effect.name \in token.names
  BY DEF AskedFor
<1>3. digits => ~hex
  OBVIOUS
<1> HIDE DEF hex, digits, property, scoped, token
<1>4. ~hex /\ ~(digits /\ property /\ ~scoped)
  BY <1>1, <1>3
<1>5. CASE digits
  <2>1. SpecOf(sel) = [by |-> "id", id |-> token.id]
    BY <1>1, <1>4, <1>5
  <2>2. SpecOf(sel).by = "id" /\ SpecOf(sel).id = token.id
    BY <2>1
  <2>3. SpecMatches(SpecOf(sel), effect) <=> effect.id = token.id
    BY <2>2 DEF SpecMatches
  <2> QED
    BY <1>2, <1>5, <2>3
<1>6. CASE ~digits
  <2>1. SpecOf(sel) = [by |-> "name", names |-> token.names]
    BY <1>1, <1>4, <1>6
  <2>2. SpecOf(sel).by # "id" /\ SpecOf(sel).names = token.names
    BY <2>1
  <2>3. SpecMatches(SpecOf(sel), effect) <=> effect.name \in token.names
    BY <2>2 DEF SpecMatches
  <2> QED
    BY <1>2, <1>6, <2>3
<1> QED
  BY <1>5, <1>6

\* One seed for each carrier that has what is asked for.
LEMMA CarriersAre ==
    ASSUME NEW q, IsRefRequest(q), ByCarrier(q.sel, q.named), SpecOf(q.sel).by # "refused"
    PROVE  SeedsOf(CarriersOf(q.sel, q.sample), Origins(q), TagOf(q))
<1> DEFINE spec == SpecOf(q.sel)
           A == ToSet(q.sample)
           Tags(c) == MatchedTags(spec, c)
           seed(c) == [id |-> c.id, tags |-> Tags(c)]
           B == {c \in A : Tags(c) # {}}
           seeds == {seed(c) : c \in B}
           first == [s \in seeds |-> Min(s.tags)]
           second == [s \in seeds |-> s.id]
           out == CarriersOf(q.sel, q.sample)
<1>1. out = SortedByTwo(seeds, first, second)
  BY Zenon DEF CarriersOf, CarrierSeeds
<1>2. /\ q.sample \in Seq(Carriers)
      /\ \A i, j \in DOMAIN q.sample : q.sample[i].id = q.sample[j].id => i = j
  BY DEF IsRefRequest
<1>3. \A c \in A : c \in Carriers
  BY <1>2 DEF ToSet
<1>4. \A c, d \in A : c.id = d.id => c = d
  BY <1>2 DEF ToSet
<1>5. \A c \in A : Tags(c) \in SUBSET Nat /\ c.id \in Nat
  <2> TAKE c \in A
  <2>1. c.id \in Nat /\ c.effects \in Seq([id : Nat, name : STRING])
    BY <1>3 DEF Carriers
  <2> DEFINE es == c.effects
             E == [id : Nat, name : STRING]
  <2>2. es \in Seq(E)
    BY <2>1
  <2> HIDE DEF es, E
  <2>3. \A e \in ToSet(es) : e \in E
    BY <2>2 DEF ToSet
  <2>4. \A e \in ToSet(es) : e.id \in Nat
    BY <2>3 DEF E
  <2> QED
    BY <2>1, <2>4 DEF MatchedTags, es
<1>6. \A c \in A : Tags(c) = TagsOf(q, c.id)
  <2> TAKE c \in A
  <2>1. {d \in A : d.id = c.id} = {c}
    BY <1>4
  <2>2. TagsOf(q, c.id) = UNION {{e.id : e \in {e \in ToSet(d.effects) : AskedFor(q.sel, e)}} : d \in {d \in A : d.id = c.id}}
    BY Zenon DEF TagsOf
  <2>3. TagsOf(q, c.id) = {e.id : e \in {e \in ToSet(c.effects) : AskedFor(q.sel, e)}}
    BY <2>1, <2>2
  <2>4. \A e : SpecMatches(spec, e) <=> AskedFor(q.sel, e)
    BY AskedIs
  <2>5. {e \in ToSet(c.effects) : AskedFor(q.sel, e)} = {e \in ToSet(c.effects) : SpecMatches(spec, e)}
    BY <2>4
  <2> QED
    BY <2>3, <2>5 DEF MatchedTags
<1>7. Origins(q) = {c.id : c \in B}
  <2>1. Origins(q) = {c.id : c \in {c \in A : TagsOf(q, c.id) # {}}}
    BY Zenon DEF Origins
  <2> HIDE DEF Tags, A
  <2> QED
    BY <1>6, <2>1
<1> HIDE DEF A, Tags, B
<1>8. \A c \in B : c \in A /\ Tags(c) # {}
  BY DEF B
<1>9. \A s \in seeds : \E c \in B : s = seed(c) /\ s.id = c.id /\ s.tags = Tags(c)
  OBVIOUS
<1>10. \A c \in B : seed(c) \in seeds /\ seed(c).id = c.id /\ seed(c).tags = Tags(c) /\ seed(c) \in Seeds
  BY <1>5, <1>8 DEF Seeds
<1>11. IsFiniteSet(seeds)
  <2>1. IsFiniteSet(A)
    BY <1>2, FewAre DEF A
  <2>2. IsFiniteSet(B)
    BY <2>1, FS_Subset DEF B
  <2> DEFINE f == [c \in B |-> seed(c)]
  <2>3. f \in Surjection(B, seeds)
    BY DEF Surjection
  <2> HIDE DEF f, seed
  <2> QED
    BY <2>2, <2>3, FS_Surjection
<1> HIDE DEF seed, seeds
<1>12. \A s, t \in seeds : s.id = t.id => s = t
  BY <1>4, <1>8, <1>9
<1>13. first \in [seeds -> Nat] /\ second \in [seeds -> Nat]
  <2>1. ASSUME NEW s \in seeds PROVE Min(s.tags) \in Nat /\ s.id \in Nat
    <3>1. s.tags \in SUBSET Nat /\ s.tags # {} /\ s.id \in Nat
      BY <1>5, <1>8, <1>9
    <3>2. PICK m \in s.tags : \A n \in s.tags : m <= n
      BY <3>1, LeastOf
    <3>3. Min(s.tags) \in s.tags
      BY <3>2 DEF Min
    <3> QED
      BY <3>1, <3>3
  <2> QED
    BY <2>1
<1>14. \A s, t \in seeds : first[s] = first[t] /\ second[s] = second[t] => s = t
  BY <1>12
<1> HIDE DEF first, second, out
<1>15. out \in Seq(seeds) /\ ToSet(out) = seeds /\ Once(out)
  BY <1>1, <1>11, <1>13, <1>14, TwoSortedIs
<1>16. \A i \in DOMAIN out : out[i] \in seeds
  BY <1>15
<1>17. \A s \in seeds : \E i \in DOMAIN out : out[i] = s
  BY <1>15 DEF ToSet
<1>18. {out[i].id : i \in DOMAIN out} = Origins(q)
  <2>1. \A i \in DOMAIN out : out[i].id \in Origins(q)
    BY <1>7, <1>9, <1>16
  <2>2. \A id \in Origins(q) : \E i \in DOMAIN out : out[i].id = id
    BY <1>7, <1>10, <1>17
  <2> QED
    BY <2>1, <2>2
<1>19. ASSUME NEW i \in DOMAIN out PROVE out[i].tags = TagOf(q)[out[i].id]
  <2>1. PICK c \in B : out[i].id = c.id /\ out[i].tags = Tags(c)
    BY <1>9, <1>16
  <2>2. c.id \in Origins(q)
    BY <1>7
  <2> QED
    BY <1>6, <1>8, <2>1, <2>2 DEF TagOf
<1>20. \A i, j \in DOMAIN out : out[i].id = out[j].id => i = j
  BY <1>12, <1>15, <1>16 DEF Once
<1>21. out \in Seq(Seeds)
  <2>1. seeds \in SUBSET Seeds
    BY <1>9, <1>10
  <2> QED
    BY <1>15, <2>1
<1> QED
  BY <1>18, <1>19, <1>20, <1>21 DEF SeedsOf, out

\* The seeds of a request that is not refused.
LEMMA ResolvedAre ==
    ASSUME NEW q, IsRefRequest(q), ~RefSeedsFail(q.sel, q.named, q.sample)
    PROVE  /\ SeedsOf(ResolveRefSeeds(q.sel, q.named, q.sample), Origins(q), TagOf(q))
           /\ IF ByCarrier(q.sel, q.named) THEN Origins(q) \subseteq Forms(q.db)
              ELSE \E s \in Nat : Origins(q) = {s}
<1> DEFINE seeds == ResolveRefSeeds(q.sel, q.named, q.sample)
           emit == ByCarrier(q.sel, q.named)
<1>1. CASE emit
  <2>1. SpecOf(q.sel).by # "refused"
    <3> SUFFICES ASSUME SpecOf(q.sel).by = "refused" PROVE FALSE
      OBVIOUS
    <3>1. CarriersOf(q.sel, q.sample) = <<>>
      BY Zenon DEF CarriersOf
    <3> QED
      BY <1>1, <3>1 DEF RefSeedsFail
  <2>2. SeedsOf(CarriersOf(q.sel, q.sample), Origins(q), TagOf(q))
    BY <1>1, <2>1, CarriersAre
  <2>3. seeds = CarriersOf(q.sel, q.sample)
    BY <1>1 DEF ResolveRefSeeds
  <2>4. Origins(q) \subseteq Forms(q.db)
    <3>1. \A c \in ToSet(q.sample) : c.id \in Forms(q.db)
      BY DEF IsRefRequest, ToSet
    <3>2. Origins(q) = {c.id : c \in {c \in ToSet(q.sample) : TagsOf(q, c.id) # {}}}
      BY <1>1 DEF Origins
    <3> QED
      BY <3>1, <3>2
  <2> QED
    BY <1>1, <2>2, <2>3, <2>4
<1>2. CASE ~emit
  <2> DEFINE s == IF q.sel.by = "formid" THEN q.sel.id ELSE q.named
             seed == [id |-> s, tags |-> {}]
  <2>1. s \in Nat
    BY DEF IsRefRequest
  <2>2. seeds = <<seed>> /\ Origins(q) = {s}
    BY <1>2 DEF ResolveRefSeeds, Origins
  <2>3. TagOf(q)[s] = {}
    BY <1>2, <2>2 DEF TagOf
  <2> HIDE DEF s, seeds
  <2>4. seed \in Seeds /\ seed.id = s /\ seed.tags = {}
    BY <2>1 DEF Seeds
  <2> HIDE DEF seed
  <2>5. seeds \in Seq(Seeds) /\ DOMAIN seeds = {1} /\ seeds[1] = seed
    BY <2>2, <2>4
  <2>6. SeedsOf(seeds, Origins(q), TagOf(q))
    <3>1. {seeds[i].id : i \in DOMAIN seeds} = Origins(q)
      BY <2>2, <2>4, <2>5
    <3>2. \A i \in DOMAIN seeds : seeds[i].tags = TagOf(q)[seeds[i].id]
      BY <2>3, <2>4, <2>5
    <3>3. \A i, j \in DOMAIN seeds : i = j
      BY <2>5
    <3> QED
      BY <2>5, <3>1, <3>2, <3>3 DEF SeedsOf
  <2> QED
    BY <1>2, <2>1, <2>2, <2>6 DEF seeds
<1> QED
  BY <1>1, <1>2

\* The walk that such a request asks for.
SeedsFor(q) == DedupSeeds(ResolveRefSeeds(q.sel, q.named, q.sample))
StartFor(q) == StartWalk(q.db, SeedsFor(q), ByCarrier(q.sel, q.named), q.filter)
HopsOf(q) == MaxHops(q.db, q.depth, q.cap)
JobOf(q) ==
    [db |-> q.db, e |-> IF ByCarrier(q.sel, q.named) THEN 1 ELSE 0, max |-> HopsOf(q), S |-> Origins(q),
     W |-> Within(q.db, Origins(q), HopsOf(q)), tag |-> TagOf(q), base |-> Len(StartFor(q).queued),
     start |-> IF ByCarrier(q.sel, q.named) THEN <<>> ELSE <<CHOOSE id \in Origins(q) : TRUE>>,
     filter |-> q.filter]

LEMMA EmitIs ==
    ASSUME NEW q
    PROVE  (JobOf(q).e = 1) = ByCarrier(q.sel, q.named)
<1> DEFINE e == IF ByCarrier(q.sel, q.named) THEN 1 ELSE 0
<1>1. JobOf(q).e = e
  BY DEF JobOf
<1>2. (e = 1) <=> ByCarrier(q.sel, q.named)
  OBVIOUS
<1>3. (e = 1) \in BOOLEAN /\ ByCarrier(q.sel, q.named) \in BOOLEAN
  BY DEF ByCarrier
<1> HIDE DEF e
<1> QED
  BY <1>1, <1>2, <1>3

LEMMA HopsAre ==
    ASSUME NEW q, IsRefRequest(q)
    PROVE  HopsOf(q) \in Nat \ {0}
<1>1. /\ q.depth \in Nat /\ q.cap \in Nat \ {0} /\ q.db.order \in Seq(Nat)
  BY DEF IsRefRequest, IsGraph
<1>2. Len(q.db.order) \in Nat
  BY <1>1
<1> DEFINE n == Len(q.db.order)
<1> HIDE DEF n
<1>3. HopsOf(q) = IF q.depth = 0 THEN n + 1 ELSE IF q.depth > q.cap THEN q.cap ELSE q.depth
  BY Zenon DEF HopsOf, MaxHops, n
<1> QED
  BY <1>1, <1>2, <1>3 DEF n

LEMMA JobIs ==
    ASSUME NEW q, IsRefRequest(q), ~RefSeedsFail(q.sel, q.named, q.sample)
    PROVE  /\ IsJob(JobOf(q)) /\ SeedsOf(SeedsFor(q), JobOf(q).S, JobOf(q).tag)
           /\ JobOf(q).base = Len(Starts(JobOf(q), SeedsFor(q)).queued)
           /\ JobOf(q).e = 1 => JobOf(q).S \subseteq Forms(JobOf(q).db)
           /\ JobOf(q).e = 0 => JobOf(q).S = {JobOf(q).start[1]}
<1> DEFINE c == JobOf(q)
           emit == ByCarrier(q.sel, q.named)
           O == Origins(q)
           T == TagOf(q)
           M == HopsOf(q)
           sample == ResolveRefSeeds(q.sel, q.named, q.sample)
           seeds == SeedsFor(q)
<1>1. /\ c.db = q.db /\ c.max = M /\ c.S = O /\ c.W = Within(q.db, O, M) /\ c.tag = T
      /\ c.base = Len(StartFor(q).queued) /\ c.filter = q.filter
      /\ c.e = (IF emit THEN 1 ELSE 0)
      /\ c.start = (IF emit THEN <<>> ELSE <<CHOOSE id \in O : TRUE>>)
  BY Zenon DEF JobOf
<1>2. SeedsOf(seeds, O, T)
  <2>1. SeedsOf(sample, O, T)
    BY ResolvedAre
  <2> HIDE DEF sample, O, T
  <2> QED
    BY <2>1, DedupIs DEF SeedsFor, sample
<1>3. IF emit THEN O \subseteq Forms(q.db) ELSE \E s \in Nat : O = {s}
  BY ResolvedAre
<1>4. M \in Nat \ {0}
  BY HopsAre
<1>5. c.base = Len(Starts(c, seeds).queued)
  <2>1. (c.e = 1) = emit
    BY EmitIs
  <2> HIDE DEF c
  <2> QED
    BY <1>1, <2>1 DEF Starts, StartFor, emit
<1> HIDE DEF c, emit, O, T, M, seeds
<1>6. /\ seeds \in Seq(Seeds) /\ {seeds[i].id : i \in DOMAIN seeds} = O
      /\ \A i \in DOMAIN seeds : seeds[i].tags = T[seeds[i].id]
  BY <1>2 DEF SeedsOf
<1>7. \A i \in DOMAIN seeds : seeds[i].id \in Nat /\ seeds[i].tags \in SUBSET Nat
  <2> TAKE i \in DOMAIN seeds
  <2>1. seeds[i] \in Seeds
    BY <1>6
  <2> QED
    BY <2>1 DEF Seeds
<1>8. O \in SUBSET Nat
  BY <1>6, <1>7
<1>9. T \in [O -> SUBSET Nat]
  <2>1. \A id \in O : T[id] \in SUBSET Nat
    BY <1>6, <1>7
  <2>2. T = [id \in O |-> T[id]]
    BY DEF T, TagOf, O
  <2> QED
    BY <2>1, <2>2
<1>10. c.start \in Seq(O) /\ Len(c.start) = 1 - c.e /\ (c.e = 0 => O = {c.start[1]}) /\ c.e \in 0 .. 1
  <2>1. CASE emit
    <3>1. c.start = <<>> /\ c.e = 1
      BY <1>1, <2>1
    <3> QED
      BY <3>1
  <2>2. CASE ~emit
    <3>1. PICK s \in Nat : O = {s}
      BY <1>3, <2>2
    <3>2. c.start = <<s>> /\ c.e = 0
      <4>1. (CHOOSE id \in O : TRUE) \in O
        BY <3>1
      <4>2. (CHOOSE id \in O : TRUE) = s
        BY <3>1, <4>1
      <4> QED
        BY <1>1, <2>2, <4>2
    <3> QED
      BY <3>1, <3>2
  <2> QED
    BY <2>1, <2>2
<1>11. Levels(q.db, c.W, O, M)
  BY <1>1, <1>4, WithinIs
<1>12. c.base \in Nat
  <2>1. c.e = 1 \/ c.e = 0
    BY <1>10
  <2>2. Len(Starts(c, seeds).queued) \in Nat
    <3> DEFINE known == Picked(seeds, {i \in DOMAIN seeds : c.e = 1 => seeds[i].id \in Forms(c.db)})
               spot(i) == [node |-> known[i].id, tags |-> known[i].tags, path |-> IF c.e = 1 THEN <<known[i].id>> ELSE <<>>]
    <3>1. Starts(c, seeds).queued = [i \in DOMAIN known |-> spot(i)]
      BY Zenon DEF Starts, StartWalk
    <3> DEFINE I == {i \in DOMAIN seeds : c.e = 1 => seeds[i].id \in Forms(c.db)}
    <3>2. known \in Seq(Seeds)
      <4>1. I \in SUBSET DOMAIN seeds
        OBVIOUS
      <4> HIDE DEF I
      <4>2. Picked(seeds, I) \in Seq(Seeds)
        BY <1>6, <4>1, PickedIs
      <4> QED
        BY <4>2 DEF I
    <3> HIDE DEF known, spot
    <3>3. Len(known) \in Nat /\ DOMAIN known = 1 .. Len(known)
      BY <3>2
    <3>4. [i \in DOMAIN known |-> spot(i)] \in Seq({spot(i) : i \in DOMAIN known})
      BY <3>3
    <3> QED
      BY <3>1, <3>4
  <2> QED
    BY <1>5, <2>2
<1>13. IsJob(c)
  <2>1. IsGraph(q.db)
    BY DEF IsRefRequest
  <2> QED
    BY <1>1, <1>4, <1>8, <1>9, <1>10, <1>11, <1>12, <2>1 DEF IsJob
<1>14. c.e = 1 => O \subseteq Forms(q.db)
  BY <1>1, <1>3
<1> QED
  BY <1>1, <1>2, <1>5, <1>10, <1>13, <1>14 DEF c, seeds

\* The records that a list holds, and what each row says.
Listable(c) ==
    {id \in Forms(c.db) : TypeMatches(c.db, c.filter, id) /\ \E k \in 1 - c.e .. c.max : AtHops(c.W, k, id)}
ChainOf(c, row) == c.start \o row.path \o <<row.id>>
RowExact(c, row) ==
    /\ row.id \in Listable(c) /\ AtHops(c.W, row.depth, row.id)
    /\ ChainOf(c, row)[1] \in c.S /\ Len(ChainOf(c, row)) = row.depth + 1 /\ IsChain(c.db, ChainOf(c, row))
    /\ c.e = 1 => /\ row.depth = 0 => row.id \in c.S /\ row.tags = c.tag[row.id]
                  /\ row.depth = 1 => row.tags = UNION {c.tag[s] : s \in {s \in c.S : s \in ToSet(c.db.body[row.id])}}
                  /\ row.depth # 0 => row.path[1] \in c.S /\ c.tag[row.path[1]] \subseteq row.tags

\* Lengths and ends of what is put together.
LEMMA LongerBy ==
    ASSUME NEW T, NEW s \in Seq(T), NEW p \in Seq(T)
    PROVE  Len(s \o p) = Len(s) + Len(p)
OBVIOUS

LEMMA EndIs ==
    ASSUME NEW T, NEW s \in Seq(T), NEW x \in T
    PROVE  Append(s, x) = s \o <<x>> /\ Len(Append(s, x)) = Len(s) + 1
<1> DEFINE a == Append(s, x)
           b == s \o <<x>>
<1>1. /\ a \in Seq(T) /\ b \in Seq(T) /\ Len(s) \in Nat /\ Len(a) = Len(s) + 1 /\ Len(b) = Len(s) + 1
  OBVIOUS
<1>2. \A i \in 1 .. Len(s) + 1 : a[i] = b[i]
  OBVIOUS
<1> HIDE DEF a, b
<1>3. a = [i \in 1 .. Len(a) |-> a[i]] /\ b = [i \in 1 .. Len(b) |-> b[i]]
  BY <1>1
<1>4. a = b
  BY <1>1, <1>2, <1>3
<1> QED
  BY <1>1, <1>4 DEF a, b

LEMMA CarrierExact ==
    ASSUME NEW c, IsJob(c), c.e = 1 => c.S \subseteq Forms(c.db),
           NEW rows, CarrierRows(c, rows), NEW i \in DOMAIN rows
    PROVE  RowExact(c, rows[i])
<1> DEFINE row == rows[i]
           all == ChainOf(c, row)
<1>1. /\ rows \in Seq(RefRows) /\ row.depth = 0 /\ row.path = <<>> /\ row.tags = c.tag[row.id]
      /\ row.id \in {id \in c.S : c.e = 1 /\ TypeMatches(c.db, c.filter, id)}
  BY DEF CarrierRows
<1>2. /\ c.e \in 0 .. 1 /\ c.max \in Nat /\ c.W[0] = c.S /\ c.start \in Seq(c.S) /\ Len(c.start) = 1 - c.e
      /\ c.S \in SUBSET Nat
  BY DEF IsJob, Levels
<1> HIDE DEF row
<1>3. row.id \in c.S /\ c.e = 1 /\ TypeMatches(c.db, c.filter, row.id)
  BY <1>1
<1>4. AtHops(c.W, 0, row.id)
  BY <1>2, <1>3 DEF AtHops
<1>5. row.id \in Listable(c)
  <2>1. 0 \in 1 - c.e .. c.max /\ row.id \in Forms(c.db)
    BY <1>2, <1>3
  <2> QED
    BY <1>3, <1>4, <2>1 DEF Listable
<1>6. all = <<row.id>>
  <2>1. c.start = <<>>
    BY <1>2, <1>3
  <2>2. <<row.id>> \in Seq(Nat) /\ <<>> \o <<>> = <<>>
    BY <1>2, <1>3
  <2> QED
    BY <1>1, <2>1, <2>2 DEF ChainOf
<1> HIDE DEF all
<1>7. all[1] \in c.S /\ Len(all) = 0 + 1 /\ IsChain(c.db, all)
  <2>1. all[1] = row.id /\ Len(all) = 1
    BY <1>6
  <2> QED
    BY <1>3, <2>1 DEF IsChain
<1>8. RowExact(c, row)
  BY <1>1, <1>3, <1>4, <1>5, <1>7 DEF RowExact, all
<1> QED
  BY <1>8 DEF row

LEMMA ReferrerExact ==
    ASSUME NEW c, IsJob(c), c.e = 1 => c.S \subseteq Forms(c.db), NEW row \in RefRows, RowOk(c, c.S, row)
    PROVE  RowExact(c, row)
<1> DEFINE all == ChainOf(c, row)
           t == Trail(c, row.path)
           D == row.depth
<1>1. /\ c.e \in 0 .. 1 /\ c.max \in Nat /\ c.W[0] = c.S /\ c.start \in Seq(c.S) /\ Len(c.start) = 1 - c.e
      /\ c.S \in SUBSET Nat /\ Levels(c.db, c.W, c.S, c.max)
  BY DEF IsJob, Levels
<1>2. row.id \in Nat /\ row.path \in Seq(Nat) /\ D \in Nat
  BY DEF RefRows
<1>3. /\ row.id \in Forms(c.db) /\ TypeMatches(c.db, c.filter, row.id)
      /\ D \in 1 .. c.max /\ AtHops(c.W, D, row.id) /\ Len(row.path) = D - 1 + c.e
  BY DEF RowOk
<1>4. PICK before : Leads(c, row.path, before) /\ row.id \in Naming(c.db, before)
  BY DEF RowOk
<1> HIDE DEF D
<1>5. row.id \in Listable(c)
  <2>1. D \in 1 - c.e .. c.max
    BY <1>1, <1>3
  <2> QED
    BY <1>3, <2>1 DEF Listable
<1>6. /\ Append(row.path, row.id) \in Seq(Nat) /\ Len(Append(row.path, row.id)) = Len(row.path) + 1
      /\ Leads(c, Append(row.path, row.id), row.id)
  BY <1>2, <1>4, LeadsOn
<1>7. all = Trail(c, Append(row.path, row.id)) /\ t \in Seq(Nat) /\ Len(t) = D
  <2> DEFINE s == c.start
             p == row.path
             x == row.id
  <2>1. s \in Seq(Nat) /\ Len(s) = 1 - c.e /\ p \in Seq(Nat) /\ x \in Nat /\ Len(p) = D - 1 + c.e
    BY <1>1, <1>2, <1>3
  <2>2. all = s \o p \o <<x>> /\ t = s \o p /\ Trail(c, Append(row.path, row.id)) = s \o Append(p, x)
    BY Zenon DEF ChainOf, Trail
  <2> HIDE DEF s, p, x, all, t
  <2>3. s \o p \in Seq(Nat) /\ s \o Append(p, x) = Append(s \o p, x)
    BY <2>1, AppendJoins
  <2>4. Append(s \o p, x) = s \o p \o <<x>>
    BY <2>1, <2>3, EndIs
  <2>5. Len(s \o p) = D
    <3>1. Len(s \o p) = Len(s) + Len(p)
      BY <2>1, LongerBy
    <3>2. D \in Nat /\ c.e \in 0 .. 1
      BY <1>1, <1>2 DEF D
    <3> QED
      BY <2>1, <3>1, <3>2
  <2> QED
    BY <2>2, <2>3, <2>4, <2>5
<1>8. all[1] \in c.S /\ IsChain(c.db, all)
  BY <1>6, <1>7 DEF Leads
<1>9. Len(all) = D + 1
  <2> DEFINE s == c.start
             p == row.path
             x == row.id
  <2>1. s \in Seq(Nat) /\ p \in Seq(Nat) /\ x \in Nat
    BY <1>1, <1>2
  <2> HIDE DEF s, p, x, all, t
  <2>2. s \o p \in Seq(Nat) /\ s \o Append(p, x) = Append(s \o p, x)
    BY <2>1, AppendJoins
  <2>3. all = Append(t, x)
    BY <1>7, <2>2 DEF Trail, s, p, x, t
  <2>4. Len(Append(t, x)) = Len(t) + 1
    BY <1>7, <2>1, EndIs
  <2> QED
    BY <1>7, <2>3, <2>4
<1>10. c.e = 1 /\ D = 1 => row.tags = UNION {c.tag[s] : s \in {s \in c.S : s \in ToSet(c.db.body[row.id])}}
  <2> SUFFICES ASSUME c.e = 1, D = 1
               PROVE  row.tags = UNION {c.tag[s] : s \in {s \in c.S : s \in ToSet(c.db.body[row.id])}}
    OBVIOUS
  <2>1. row.tags = TagsBy(c, c.S, row.id)
    BY DEF RowOk, D
  <2>2. row.id \notin c.S
    <3>1. row.id \notin c.W[D - 1] /\ D - 1 = 0
      BY <1>3 DEF AtHops
    <3> QED
      BY <1>1, <3>1
  <2>3. {s \in c.S \cap c.S : row.id \in Naming(c.db, s)} = {s \in c.S : s \in ToSet(c.db.body[row.id])}
    <3>1. ASSUME NEW s \in c.S PROVE row.id \in Naming(c.db, s) <=> s \in ToSet(c.db.body[row.id])
      <4>1. s \in Defined(c.db) /\ s # row.id
        BY <2>2 DEF Defined
      <4> QED
        BY <1>3, <4>1 DEF Naming, NextTo
    <3> QED
      BY <3>1
  <2> QED
    BY <2>1, <2>3 DEF TagsBy
<1>11. c.e = 1 => row.path[1] \in c.S /\ c.tag[row.path[1]] \subseteq row.tags
  BY DEF RowOk
<1>12. D # 0
  BY <1>3
<1> HIDE DEF all
<1> QED
  BY <1>3, <1>5, <1>8, <1>9, <1>10, <1>11, <1>12 DEF RowExact, all, D

\* All the rows of a finished walk, in whatever order.
LEMMA AllExact ==
    ASSUME NEW c, IsJob(c), c.e = 1 => c.S \subseteq Forms(c.db),
           NEW carriers, CarrierRows(c, carriers), NEW rows, Lists(c, rows),
           NEW sorted \in Seq(ToSet(rows)), ToSet(sorted) = ToSet(rows), Once(sorted)
    PROVE  LET all == carriers \o sorted
           IN  /\ all \in Seq(RefRows) /\ {all[i].id : i \in DOMAIN all} = Listable(c)
               /\ \A i \in DOMAIN all : RowExact(c, all[i])
               /\ \A i, j \in DOMAIN all : all[i].id = all[j].id => i = j
<1> DEFINE all == carriers \o sorted
           m == Len(carriers)
           k == Len(sorted)
<1>1. /\ rows \in Seq(RefRows) /\ {rows[i].id : i \in DOMAIN rows} = Wanted(c)
      /\ \A i \in DOMAIN rows : RowOk(c, c.S, rows[i])
      /\ \A i, j \in DOMAIN rows : rows[i].id = rows[j].id => i = j
  BY DEF Lists
<1>2. /\ carriers \in Seq(RefRows)
      /\ {carriers[i].id : i \in DOMAIN carriers} = {id \in c.S : c.e = 1 /\ TypeMatches(c.db, c.filter, id)}
      /\ \A i, j \in DOMAIN carriers : carriers[i].id = carriers[j].id => i = j
  BY DEF CarrierRows
<1>3. sorted \in Seq(RefRows)
  <2>1. ToSet(rows) \in SUBSET RefRows
    BY <1>1 DEF ToSet
  <2> QED
    BY <2>1
<1>4. \A i \in DOMAIN carriers : RowExact(c, carriers[i])
  BY CarrierExact
<1>5. \A i \in DOMAIN sorted : \E j \in DOMAIN rows : sorted[i] = rows[j]
  BY DEF ToSet
<1>6. \A j \in DOMAIN rows : \E i \in DOMAIN sorted : sorted[i] = rows[j]
  BY DEF ToSet
<1>7. \A i \in DOMAIN sorted : RowExact(c, sorted[i]) /\ sorted[i].id \in Wanted(c)
  <2> TAKE i \in DOMAIN sorted
  <2>1. PICK j \in DOMAIN rows : sorted[i] = rows[j]
    BY <1>5
  <2>2. rows[j] \in RefRows /\ RowOk(c, c.S, rows[j]) /\ rows[j].id \in Wanted(c)
    BY <1>1
  <2> QED
    BY <2>1, <2>2, ReferrerExact
<1>8. \A i, j \in DOMAIN sorted : sorted[i].id = sorted[j].id => i = j
  <2> TAKE i, j \in DOMAIN sorted
  <2> HAVE sorted[i].id = sorted[j].id
  <2>1. sorted[i] = sorted[j]
    BY <1>1, <1>5
  <2> QED
    BY <2>1 DEF Once
<1>9. /\ m \in Nat /\ DOMAIN carriers = 1 .. m /\ k \in Nat /\ DOMAIN sorted = 1 .. k
      /\ all \in Seq(RefRows) /\ Len(all) = m + k /\ DOMAIN all = 1 .. m + k
      /\ \A i \in 1 .. m : all[i] = carriers[i]
      /\ \A i \in 1 .. k : all[m + i] = sorted[i]
  BY <1>2, <1>3
<1>10. /\ c.e \in 0 .. 1 /\ c.max \in Nat /\ c.max >= 1 /\ c.W[0] = c.S /\ Levels(c.db, c.W, c.S, c.max)
  BY DEF IsJob, Levels
<1> HIDE DEF all, m, k
<1>11. \A i \in DOMAIN all :
         \/ i \in DOMAIN carriers /\ all[i] = carriers[i]
         \/ i \notin DOMAIN carriers /\ i - m \in DOMAIN sorted /\ all[i] = sorted[i - m]
  <2> TAKE i \in DOMAIN all
  <2>1. CASE i <= m
    <3>1. i \in 1 .. m
      BY <1>9, <2>1
    <3>2. i \in DOMAIN carriers
      BY <1>9, <3>1
    <3>3. all[i] = carriers[i]
      BY <1>9, <3>1
    <3> QED
      BY <3>2, <3>3
  <2>2. CASE ~(i <= m)
    <3>1. i - m \in 1 .. k /\ m + (i - m) = i
      BY <1>9, <2>2
    <3> QED
      BY <1>9, <2>2, <3>1
  <2> QED
    BY <2>1, <2>2
<1>12. \A id : id \in Wanted(c) => id \notin c.S
  <2> SUFFICES ASSUME NEW id \in Wanted(c), id \in c.S PROVE FALSE
    OBVIOUS
  <2>1. PICK n \in 1 .. c.max : AtHops(c.W, n, id)
    BY DEF Wanted
  <2>2. AtHops(c.W, 0, id) /\ 0 \in 0 .. c.max /\ n \in 0 .. c.max /\ n # 0
    BY <1>10 DEF AtHops
  <2> QED
    BY <1>10, <2>1, <2>2, OneDistance
<1>13. \A i \in DOMAIN all : RowExact(c, all[i])
  BY <1>4, <1>7, <1>11
<1>14. ASSUME NEW i \in DOMAIN all, NEW j \in DOMAIN all, all[i].id = all[j].id
       PROVE  i = j
  <2>1. CASE i \in DOMAIN carriers /\ j \in DOMAIN carriers
    BY <1>2, <1>11, <1>14, <2>1
  <2>2. CASE i \in DOMAIN carriers /\ j \notin DOMAIN carriers
    <3>1. all[i].id \in c.S
      BY <1>2, <1>11, <2>2
    <3>2. all[j].id \in Wanted(c)
      BY <1>7, <1>11, <2>2
    <3> QED
      BY <1>12, <1>14, <3>1, <3>2
  <2>3. CASE i \notin DOMAIN carriers /\ j \in DOMAIN carriers
    <3>1. all[j].id \in c.S
      BY <1>2, <1>11, <2>3
    <3>2. all[i].id \in Wanted(c)
      BY <1>7, <1>11, <2>3
    <3> QED
      BY <1>12, <1>14, <3>1, <3>2
  <2>4. CASE i \notin DOMAIN carriers /\ j \notin DOMAIN carriers
    <3>1. i - m \in DOMAIN sorted /\ j - m \in DOMAIN sorted /\ sorted[i - m].id = sorted[j - m].id
      BY <1>11, <1>14, <2>4
    <3>2. i - m = j - m
      BY <1>8, <3>1
    <3> QED
      BY <1>9, <3>2
  <2> QED
    BY <2>1, <2>2, <2>3, <2>4
<1>15. ASSUME NEW id \in Listable(c) PROVE \E i \in DOMAIN all : all[i].id = id
  <2>1. PICK n \in 1 - c.e .. c.max : AtHops(c.W, n, id)
    BY DEF Listable
  <2>2. id \in Forms(c.db) /\ TypeMatches(c.db, c.filter, id)
    BY DEF Listable
  <2>3. CASE n = 0
    <3>1. id \in c.S /\ c.e = 1
      BY <1>10, <2>1, <2>3 DEF AtHops
    <3>2. PICK i \in DOMAIN carriers : carriers[i].id = id
      BY <1>2, <2>2, <3>1
    <3>3. i \in DOMAIN all /\ all[i] = carriers[i]
      BY <1>9
    <3> QED
      BY <3>2, <3>3
  <2>4. CASE n # 0
    <3>1. n \in 1 .. c.max
      BY <1>10, <2>4
    <3>2. id \in Wanted(c)
      BY <2>1, <2>2, <3>1 DEF Wanted
    <3>3. PICK j \in DOMAIN rows : rows[j].id = id
      BY <1>1, <3>2
    <3>4. PICK i \in DOMAIN sorted : sorted[i] = rows[j]
      BY <1>6
    <3>5. m + i \in DOMAIN all /\ all[m + i] = sorted[i]
      BY <1>9
    <3> QED
      BY <3>3, <3>4, <3>5
  <2> QED
    BY <2>3, <2>4
<1>16. \A i \in DOMAIN all : all[i].id \in Listable(c)
  BY <1>13 DEF RowExact
<1>17. {all[i].id : i \in DOMAIN all} = Listable(c)
  BY <1>15, <1>16
<1> QED
  BY <1>9, <1>13, <1>14, <1>17 DEF all

\* What of all the rows, those of the records A, is shown.
Shows(out, all, A, limit) ==
    /\ limit = 0 => {row.id : row \in ToSet(out.rows)} = A
    /\ \A i, j \in DOMAIN out.rows : out.rows[i].id = out.rows[j].id => i = j
    /\ out.total = Cardinality(A) /\ (out.capped <=> out.total > Len(out.rows))
    /\ \A row \in ToSet(out.rows) : \E i \in DOMAIN all : row = all[i]

LEMMA ShownIs ==
    ASSUME NEW walk, NEW all \in Seq(RefRows), NEW A, A = {all[i].id : i \in DOMAIN all},
           \A i, j \in DOMAIN all : all[i].id = all[j].id => i = j, NEW limit \in Nat
    PROVE  Shows(WalkAnswer(walk, all, limit), all, A, limit)
<1> DEFINE cut == limit > 0 /\ Len(all) > limit
           shown == IF cut THEN SubSeq(all, 1, limit) ELSE all
           out == WalkAnswer(walk, all, limit)
           n == Len(all)
<1>1. out.rows = shown /\ out.total = n /\ out.capped = cut
  BY Zenon DEF WalkAnswer
<1>2. n \in Nat /\ DOMAIN all = 1 .. n
  OBVIOUS
<1>3. n = Cardinality(A)
  <2> DEFINE f == [i \in 1 .. n |-> all[i].id]
  <2>1. f \in [1 .. n -> A] /\ \A i, j \in 1 .. n : f[i] = f[j] => i = j
    BY <1>2
  <2>2. \A id \in A : \E i \in 1 .. n : f[i] = id
    BY <1>2
  <2> HIDE DEF f, n
  <2>3. f \in Bijection(1 .. n, A)
    BY <2>1, <2>2 DEF Bijection, Injection, IsInjective, Surjection
  <2>4. IsFiniteSet(1 .. n) /\ Cardinality(1 .. n) = IF 1 > n THEN 0 ELSE n - 1 + 1
    BY <1>2, FS_Interval
  <2>5. Cardinality(A) = Cardinality(1 .. n)
    BY <2>3, <2>4, FS_Bijection DEF ExistsBijection
  <2> QED
    BY <1>2, <2>4, <2>5
<1> HIDE DEF n, out
<1>4. /\ shown \in Seq(RefRows) /\ DOMAIN shown = 1 .. Len(shown) /\ Len(shown) \in Nat
      /\ (cut <=> n > Len(shown)) /\ (~cut => Len(shown) = n)
      /\ \A i \in DOMAIN shown : i \in DOMAIN all /\ shown[i] = all[i]
  <2>1. CASE cut
    <3>1. limit \in 1 .. n /\ n > limit
      BY <1>2, <2>1 DEF n
    <3> DEFINE part == SubSeq(all, 1, limit)
    <3>2. part \in Seq(RefRows) /\ Len(part) = limit /\ DOMAIN part = 1 .. limit /\ \A i \in 1 .. limit : part[i] = all[i]
      BY <1>2, <3>1 DEF n
    <3>3. shown = part
      BY <2>1
    <3> HIDE DEF part, shown, cut
    <3> QED
      BY <1>2, <2>1, <3>1, <3>2, <3>3
  <2>2. CASE ~cut
    <3>1. shown = all
      BY <2>2
    <3> HIDE DEF shown, cut
    <3> QED
      BY <1>2, <2>2, <3>1 DEF n
  <2> QED
    BY <2>1, <2>2
<1> HIDE DEF shown, cut
<1>5. limit = 0 => {row.id : row \in ToSet(shown)} = A
  <2> HAVE limit = 0
  <2>1. ~cut
    BY DEF cut
  <2>2. DOMAIN shown = DOMAIN all /\ \A i \in DOMAIN all : shown[i] = all[i]
    BY <1>2, <1>4, <2>1
  <2> QED
    BY <2>2 DEF ToSet
<1>6. \A i, j \in DOMAIN shown : shown[i].id = shown[j].id => i = j
  BY <1>4
<1>7. \A row \in ToSet(shown) : \E i \in DOMAIN all : row = all[i]
  BY <1>4 DEF ToSet
<1>8. out.capped <=> out.total > Len(out.rows)
  BY <1>1, <1>4, Zenon
<1> QED
  BY <1>1, <1>3, <1>5, <1>6, <1>7, <1>8, Zenon DEF Shows, out

\* The rows of a walk, sorted.
LEMMA RowsSorted ==
    ASSUME NEW rows \in Seq(RefRows), \A i, j \in DOMAIN rows : rows[i].id = rows[j].id => i = j, NEW byDepth
    PROVE  LET sorted == SortRows(rows, byDepth)
           IN  sorted \in Seq(ToSet(rows)) /\ ToSet(sorted) = ToSet(rows) /\ Once(sorted)
<1> DEFINE all == ToSet(rows)
           first == [row \in all |-> IF byDepth THEN row.depth ELSE 0]
           second == [row \in all |-> row.id]
<1>1. SortRows(rows, byDepth) = SortedByTwo(all, first, second)
  BY Zenon DEF SortRows
<1>2. IsFiniteSet(all)
  BY FewAre
<1>3. \A row \in all : row \in RefRows /\ row.id \in Nat /\ row.depth \in Nat
  <2>1. \A row \in all : row \in RefRows
    BY DEF ToSet
  <2> QED
    BY <2>1 DEF RefRows
<1>4. \A x, y \in all : x.id = y.id => x = y
  BY DEF ToSet
<1> HIDE DEF all
<1>5. first \in [all -> Nat] /\ second \in [all -> Nat]
  BY <1>3
<1>6. \A x, y \in all : first[x] = first[y] /\ second[x] = second[y] => x = y
  BY <1>4
<1> HIDE DEF first, second
<1>7. LET s == SortedByTwo(all, first, second)
      IN  s \in Seq(all) /\ Len(s) = Cardinality(all) /\ ToSet(s) = all /\ Once(s)
  BY <1>2, <1>5, <1>6, TwoSortedIs
<1> QED
  BY <1>1, <1>7 DEF all

\* What a list of references answers.
LEMMA ListAnswers ==
    ASSUME NEW q, IsRefRequest(q), ~RefSeedsFail(q.sel, q.named, q.sample)
    PROVE  LET out == ReferencedByWalk(q.db, ResolveRefSeeds(q.sel, q.named, q.sample), ByCarrier(q.sel, q.named),
                                       HopsOf(q), q.limit, q.filter, q.byDepth)
               c == JobOf(q)
           IN  /\ q.limit = 0 => {row.id : row \in ToSet(out.rows)} = Listable(c)
               /\ \A i, j \in DOMAIN out.rows : out.rows[i].id = out.rows[j].id => i = j
               /\ out.total = Cardinality(Listable(c)) /\ (out.capped <=> out.total > Len(out.rows))
               /\ \A row \in ToSet(out.rows) : RowExact(c, row)
<1> DEFINE c == JobOf(q)
           seeds == SeedsFor(q)
           start == Starts(c, seeds)
           walk == Drain(c.db, c.e = 1, c.filter, c.max, start)
           sorted == SortRows(walk.rows, q.byDepth)
           all == walk.carriers \o sorted
           out == WalkAnswer(walk, all, q.limit)
           given == ReferencedByWalk(q.db, ResolveRefSeeds(q.sel, q.named, q.sample), ByCarrier(q.sel, q.named),
                                     HopsOf(q), q.limit, q.filter, q.byDepth)
<1>1. given = out
  <2>1. c.db = q.db /\ c.filter = q.filter /\ c.max = HopsOf(q)
    BY DEF JobOf
  <2>2. (c.e = 1) = ByCarrier(q.sel, q.named)
    BY EmitIs
  <2>3. given = LET w == Drain(q.db, ByCarrier(q.sel, q.named), q.filter, HopsOf(q), StartFor(q))
                IN  WalkAnswer(w, w.carriers \o SortRows(w.rows, q.byDepth), q.limit)
    BY Zenon DEF ReferencedByWalk, RefListOf, StartFor, SeedsFor
  <2>4. start = StartWalk(c.db, seeds, c.e = 1, c.filter) /\ StartFor(q) = StartWalk(q.db, seeds, ByCarrier(q.sel, q.named), q.filter)
    BY Zenon DEF Starts, StartFor
  <2> HIDE DEF c, given, start, seeds
  <2>5. StartFor(q) = start
    BY <2>1, <2>2, <2>4
  <2>6. Drain(q.db, ByCarrier(q.sel, q.named), q.filter, HopsOf(q), StartFor(q)) = walk
    BY <2>1, <2>2, <2>5
  <2> HIDE DEF walk
  <2> QED
    BY <2>3, <2>6
<1>2. /\ IsJob(c) /\ SeedsOf(seeds, c.S, c.tag) /\ c.base = Len(start.queued)
      /\ c.e = 1 => c.S \subseteq Forms(c.db)
      /\ c.e = 0 => c.S = {c.start[1]}
  <2> HIDE DEF c, seeds
  <2> QED
    BY JobIs DEF c, seeds
<1> HIDE DEF c, seeds, given
<1>3. Walked(c, 0, start) /\ CarrierRows(c, start.carriers)
  BY <1>2, StartIs
<1> HIDE DEF start
<1>4. PICK n \in Nat : Walked(c, n, walk) /\ n >= Len(walk.queued) /\ walk.carriers = start.carriers
  BY <1>2, <1>3, DrainIs
<1> HIDE DEF walk
<1>5. Lists(c, walk.rows)
  BY <1>2, <1>4, WalkIsExact
<1>6. sorted \in Seq(ToSet(walk.rows)) /\ ToSet(sorted) = ToSet(walk.rows) /\ Once(sorted)
  <2>1. walk.rows \in Seq(RefRows) /\ \A i, j \in DOMAIN walk.rows : walk.rows[i].id = walk.rows[j].id => i = j
    BY <1>5 DEF Lists
  <2> QED
    BY <2>1, RowsSorted
<1>7. CarrierRows(c, walk.carriers)
  BY <1>3, <1>4
<1> HIDE DEF sorted
<1>8. /\ all \in Seq(RefRows) /\ {all[i].id : i \in DOMAIN all} = Listable(c)
      /\ \A i \in DOMAIN all : RowExact(c, all[i])
      /\ \A i, j \in DOMAIN all : all[i].id = all[j].id => i = j
  BY <1>2, <1>5, <1>6, <1>7, AllExact
<1> HIDE DEF all
<1>9. /\ q.limit = 0 => {row.id : row \in ToSet(out.rows)} = Listable(c)
      /\ \A i, j \in DOMAIN out.rows : out.rows[i].id = out.rows[j].id => i = j
      /\ out.total = Cardinality(Listable(c)) /\ (out.capped <=> out.total > Len(out.rows))
      /\ \A row \in ToSet(out.rows) : \E i \in DOMAIN all : row = all[i]
  <2> DEFINE limit == q.limit
             A == Listable(c)
  <2>1. limit \in Nat
    BY DEF IsRefRequest
  <2>2. /\ all \in Seq(RefRows) /\ A = {all[i].id : i \in DOMAIN all}
        /\ \A i, j \in DOMAIN all : all[i].id = all[j].id => i = j
    BY <1>8
  <2> HIDE DEF limit, A
  <2>3. Shows(WalkAnswer(walk, all, limit), all, A, limit)
    BY <2>1, <2>2, ShownIs
  <2> QED
    BY <2>3, Zenon DEF Shows, limit, A, out
<1> HIDE DEF out
<1>10. \A row \in ToSet(out.rows) : RowExact(c, row)
  BY <1>8, <1>9
<1> QED
  BY <1>1, <1>9, <1>10, Zenon DEF c, given

\* That is what the property asks for.
LEMMA ListHolds ==
    ASSUME NEW q, IsRefRequest(q), ~RefSeedsFail(q.sel, q.named, q.sample)
    PROVE  ListIsExact(q, ReferencedByWalk(q.db, ResolveRefSeeds(q.sel, q.named, q.sample), ByCarrier(q.sel, q.named),
                                           MaxHops(q.db, q.depth, q.cap), q.limit, q.filter, q.byDepth))
<1> DEFINE c == JobOf(q)
           out == ReferencedByWalk(q.db, ResolveRefSeeds(q.sel, q.named, q.sample), ByCarrier(q.sel, q.named),
                                   HopsOf(q), q.limit, q.filter, q.byDepth)
           carriers == ByCarrier(q.sel, q.named)
           O == Origins(q)
           within == Within(q.db, O, HopsOf(q))
           first == IF carriers THEN 0 ELSE 1
           wanted == {id \in Forms(q.db) : /\ TypeMatches(q.db, q.filter, id)
                                           /\ \E n \in first .. HopsOf(q) : AtHops(within, n, id)}
           start == IF carriers THEN <<>> ELSE <<CHOOSE id \in O : TRUE>>
           chain(row) == start \o row.path \o <<row.id>>
           nextTo(id) == {s \in O : s \in ToSet(q.db.body[id])}
           tagged(row) == CASE row.depth = 0 -> row.tags = TagsOf(q, row.id)
                            [] row.depth = 1 -> row.tags = UNION {TagsOf(q, s) : s \in nextTo(row.id)}
                            [] OTHER -> TagsOf(q, row.path[1]) \subseteq row.tags
           good(row) == /\ row.id \in wanted /\ AtHops(within, row.depth, row.id)
                        /\ chain(row)[1] \in O /\ Len(chain(row)) = row.depth + 1 /\ IsChain(q.db, chain(row))
                        /\ carriers => tagged(row)
<1>1. /\ c.db = q.db /\ c.max = HopsOf(q) /\ c.S = O /\ c.W = within /\ c.filter = q.filter /\ c.tag = TagOf(q)
      /\ c.e = (IF carriers THEN 1 ELSE 0) /\ c.start = start
  BY Zenon DEF JobOf
<1>2. /\ q.limit = 0 => {row.id : row \in ToSet(out.rows)} = Listable(c)
      /\ \A i, j \in DOMAIN out.rows : out.rows[i].id = out.rows[j].id => i = j
      /\ out.total = Cardinality(Listable(c)) /\ (out.capped <=> out.total > Len(out.rows))
      /\ \A row \in ToSet(out.rows) : RowExact(c, row)
  BY ListAnswers, Zenon
<1> HIDE DEF c, out, carriers, O, within, start
<1>3. Listable(c) = wanted
  <2>1. 1 - c.e = first /\ c.max = HopsOf(q)
    BY <1>1
  <2> HIDE DEF first
  <2> QED
    BY <1>1, <2>1 DEF Listable
<1>4. carriers => \A s \in O : c.tag[s] = TagsOf(q, s)
  BY <1>1 DEF TagOf, O, carriers
<1> HIDE DEF wanted
<1>5. ASSUME NEW row \in ToSet(out.rows) PROVE good(row)
  <2>1. RowExact(c, row)
    BY <1>2
  <2>2. ChainOf(c, row) = chain(row)
    BY <1>1 DEF ChainOf
  <2>3. /\ row.id \in wanted /\ AtHops(within, row.depth, row.id)
        /\ chain(row)[1] \in O /\ Len(chain(row)) = row.depth + 1 /\ IsChain(q.db, chain(row))
    <3> HIDE DEF chain
    <3> QED
      BY <1>1, <1>3, <2>1, <2>2 DEF RowExact
  <2>4. ASSUME carriers PROVE tagged(row)
    <3>1. c.e = 1
      BY <1>1, <2>4
    <3>2. /\ row.depth = 0 => row.id \in O /\ row.tags = c.tag[row.id]
          /\ row.depth = 1 => row.tags = UNION {c.tag[s] : s \in {s \in O : s \in ToSet(q.db.body[row.id])}}
          /\ row.depth # 0 => row.path[1] \in O /\ c.tag[row.path[1]] \subseteq row.tags
      BY <1>1, <2>1, <3>1 DEF RowExact
    <3>3. \A s \in O : c.tag[s] = TagsOf(q, s)
      BY <1>4, <2>4
    <3>4. row.depth = 0 => row.tags = TagsOf(q, row.id)
      BY <3>2, <3>3
    <3>5. row.depth = 1 => row.tags = UNION {TagsOf(q, s) : s \in nextTo(row.id)}
      <4> HAVE row.depth = 1
      <4>1. {c.tag[s] : s \in nextTo(row.id)} = {TagsOf(q, s) : s \in nextTo(row.id)}
        BY <3>3
      <4> QED
        BY <3>2, <4>1
    <3>6. row.depth # 0 => TagsOf(q, row.path[1]) \subseteq row.tags
      BY <3>2, <3>3
    <3> HIDE DEF nextTo
    <3>7. CASE row.depth = 0
      BY <3>4, <3>7
    <3>8. CASE row.depth = 1
      BY <3>5, <3>8
    <3>9. CASE row.depth # 0 /\ row.depth # 1
      BY <3>6, <3>9
    <3> QED
      BY <3>7, <3>8, <3>9
  <2> HIDE DEF chain, tagged
  <2> QED
    BY <2>3, <2>4
<1>6. ListIsExact(q, out) =
        (/\ q.limit = 0 => {row.id : row \in ToSet(out.rows)} = wanted
         /\ \A i, j \in DOMAIN out.rows : out.rows[i].id = out.rows[j].id => i = j
         /\ out.total = Cardinality(wanted) /\ (out.capped <=> out.total > Len(out.rows))
         /\ \A row \in ToSet(out.rows) : good(row))
  BY Zenon DEF ListIsExact, HopsOf, carriers, O, within, start, wanted
<1> HIDE DEF good
<1>7. ListIsExact(q, out)
  BY <1>2, <1>3, <1>5, <1>6, Zenon
<1> QED
  BY <1>7, Zenon DEF out, HopsOf

\* Whatever the graph, the seeds, the depth and the limit, a list of references
\* holds exactly the records at a distance from the seeds up to the depth, each
\* once and with a chain that leads there.
THEOREM ReferencesAlwaysExact ==
    (\E q : IsRefRequest(q) /\ Asked(q)) /\ [][ReferencedBy \/ Elsewhere("referenced_by")]_vars => []RefListIsExact
<1> DEFINE Inv == IsRefRequest(request) /\ RefListIsExact
<1>1. (\E q : IsRefRequest(q) /\ Asked(q)) => Inv
  BY DEF Asked, Pending, RefListIsExact, Answered
<1>2. Inv /\ [ReferencedBy \/ Elsewhere("referenced_by")]_vars => Inv'
  <2> SUFFICES ASSUME Inv, [ReferencedBy \/ Elsewhere("referenced_by")]_vars
               PROVE  Inv'
    OBVIOUS
  <2>1. CASE ReferencedBy
    <3> DEFINE fails == RefSeedsFail(request.sel, request.named, request.sample)
               out == ReferencedByWalk(request.db, ResolveRefSeeds(request.sel, request.named, request.sample),
                                       ByCarrier(request.sel, request.named),
                                       MaxHops(request.db, request.depth, request.cap),
                                       request.limit, request.filter, request.byDepth)
    <3>1. IF fails THEN Refuse("referenced_by") ELSE Run("referenced_by", out)
      BY <2>1, Zenon DEF ReferencedBy
    <3>2. CASE fails
      <4>1. Refuse("referenced_by")
        BY <3>1, <3>2
      <4> QED
        BY <4>1 DEF Refuse, RefListIsExact, Answered
    <3>3. CASE ~fails
      <4>1. ListIsExact(request, out)
        BY <3>3, ListHolds
      <4> HIDE DEF out
      <4>2. request' = request /\ Out' = out
        BY <3>1, <3>3 DEF Run, Out
      <4> QED
        BY <4>1, <4>2 DEF RefListIsExact
    <3> QED
      BY <3>2, <3>3
  <2>2. CASE Elsewhere("referenced_by")
    <3>1. request' = request /\ request.op # "referenced_by"
      BY <2>2 DEF Elsewhere, Run, Refuse
    <3> QED
      BY <3>1 DEF RefListIsExact, Answered
  <2>3. CASE UNCHANGED vars
    BY <2>3 DEF vars, RefListIsExact, Answered, Out
  <2> QED
    BY <2>1, <2>2, <2>3
<1>3. Inv => RefListIsExact
  OBVIOUS
<1> HIDE DEF Inv
<1> QED
  BY <1>1, <1>2, <1>3, PTL

-----------------------------------------------------------------------------
(* The search for a path: a side of it.                                    *)

\* What a record names, and what does not exist is not looked at further.
NamedBy(db, id) == IF id \in Forms(db) THEN {x \in ToSet(db.body[id]) : x # id /\ x # NoForm} ELSE {}

LEMMA OutgoingAre ==
    ASSUME NEW db, IsGraph(db), NEW id
    PROVE  OutgoingFormIds(db, id) \in Seq(Nat) /\ ToSet(OutgoingFormIds(db, id)) = NamedBy(db, id)
<1> DEFINE body == IF id \in Forms(db) THEN db.body[id] ELSE <<>>
           I == {i \in DOMAIN body : body[i] # id /\ body[i] # NoForm}
           s == Picked(body, I)
           J == {i \in DOMAIN s : \A j \in 1 .. (i - 1) : s[j] # s[i]}
<1>1. body \in Seq(Nat)
  BY DEF IsGraph
<1>2. OutgoingFormIds(db, id) = Picked(s, J)
  BY Zenon DEF OutgoingFormIds, Distinct
<1>3. NamedBy(db, id) = {body[i] : i \in I}
  BY DEF NamedBy, ToSet
<1> HIDE DEF body
<1>4. I \in SUBSET DOMAIN body
  OBVIOUS
<1>5. s \in Seq(Nat) /\ ToSet(s) = {body[i] : i \in I}
  <2> HIDE DEF I
  <2> QED
    BY <1>1, <1>4, PickedHolds
<1> HIDE DEF I, s
<1>6. J \in SUBSET DOMAIN s
  OBVIOUS
<1>7. {s[i] : i \in J} = ToSet(s)
  <2>1. ASSUME NEW n \in DOMAIN s PROVE \E i \in J : s[i] = s[n]
    <3> DEFINE same == {i \in DOMAIN s : s[i] = s[n]}
    <3>1. same \in SUBSET Nat /\ same # {}
      BY <1>5
    <3>2. PICK m \in same : \A i \in same : m <= i
      <4> HIDE DEF same
      <4> QED
        BY <3>1, LeastOf
    <3>3. \A j \in 1 .. (m - 1) : s[j] # s[m]
      BY <1>5, <3>2
    <3> QED
      BY <3>2, <3>3
  <2> QED
    BY <2>1 DEF ToSet
<1>8. Picked(s, J) \in Seq(Nat) /\ ToSet(Picked(s, J)) = {s[i] : i \in J}
  <2> HIDE DEF J
  <2> QED
    BY <1>5, <1>6, PickedHolds
<1> QED
  BY <1>2, <1>3, <1>5, <1>7, <1>8

\* nb is what a search sees around each form.
Sees(db, back, nb) ==
    nb \in [Nat -> SUBSET Nat] /\ \A n \in Nat : Around(db, back, n) \in Seq(Nat) /\ ToSet(Around(db, back, n)) = nb[n]

\* What one side sees.
BackOf(db) == [n \in Nat |-> Naming(db, n)]
FwdOf(db) == [n \in Nat |-> NamedBy(db, n)]

LEMMA SidesSee ==
    ASSUME NEW db, IsGraph(db)
    PROVE  Sees(db, TRUE, BackOf(db)) /\ Sees(db, FALSE, FwdOf(db))
<1>1. Forms(db) \subseteq Nat
  BY DEF Forms, ToSet, IsGraph
<1>2. \A n \in Nat : Around(db, TRUE, n) = ReferencersOf(db, n) /\ Around(db, FALSE, n) = OutgoingFormIds(db, n)
  BY DEF Around
<1>3. \A n \in Nat : Around(db, TRUE, n) \in Seq(Nat) /\ ToSet(Around(db, TRUE, n)) = Naming(db, n)
  <2> TAKE n \in Nat
  <2>1. ReferencersOf(db, n) \in Seq(Forms(db)) /\ ToSet(ReferencersOf(db, n)) = Naming(db, n)
    BY ReferencersAre
  <2>2. Seq(Forms(db)) \subseteq Seq(Nat)
    BY <1>1
  <2> QED
    BY <1>2, <2>1, <2>2
<1>4. \A n \in Nat : Around(db, FALSE, n) \in Seq(Nat) /\ ToSet(Around(db, FALSE, n)) = NamedBy(db, n)
  BY <1>2, OutgoingAre
<1>5. \A n \in Nat : Naming(db, n) \in SUBSET Nat
  BY <1>1 DEF Naming, NextTo
<1>6. \A n \in Nat : NamedBy(db, n) \in SUBSET Nat
  BY DEF NamedBy, IsGraph, ToSet
<1> QED
  BY <1>3, <1>4, <1>5, <1>6 DEF Sees, BackOf, FwdOf

\* One form names another exactly if it is looked back to from there.
LEMMA SidesMirror ==
    ASSUME NEW db, IsGraph(db), NEW x \in Nat, NEW y \in Nat, x \in Defined(db)
    PROVE  y \in BackOf(db)[x] <=> x \in FwdOf(db)[y]
<1>1. x # NoForm
  BY DEF IsGraph
<1>2. BackOf(db)[x] = {r \in Forms(db) : r # x /\ x \in ToSet(db.body[r])}
  BY DEF BackOf, Naming, NextTo
<1> QED
  BY <1>1, <1>2 DEF FwdOf, NamedBy

\* What two sequences hold together.
LEMMA JoinedHolds ==
    ASSUME NEW T, NEW s \in Seq(T), NEW t \in Seq(T)
    PROVE  ToSet(s \o t) = ToSet(s) \cup ToSet(t)
<1> DEFINE a == Len(s)
           b == Len(t)
           st == s \o t
<1>1. /\ a \in Nat /\ b \in Nat /\ DOMAIN s = 1 .. a /\ DOMAIN t = 1 .. b /\ DOMAIN st = 1 .. (a + b)
      /\ \A i \in 1 .. a : st[i] = s[i]
      /\ \A i \in 1 .. b : st[a + i] = t[i]
  OBVIOUS
<1> HIDE DEF a, b, st
<1>2. ASSUME NEW i \in 1 .. (a + b) PROVE st[i] \in ToSet(s) \cup ToSet(t)
  <2>1. CASE i \in 1 .. a
    BY <1>1, <2>1 DEF ToSet
  <2>2. CASE i \notin 1 .. a
    <3>1. PICK k \in 1 .. b : a + k = i
      <4>1. i - a \in 1 .. b /\ a + (i - a) = i
        BY <1>1, <2>2
      <4> QED
        BY <4>1
    <3>2. st[i] = t[k]
      BY <1>1, <3>1
    <3> QED
      BY <1>1, <3>2 DEF ToSet
  <2> QED
    BY <2>1, <2>2
<1>3. \A i \in 1 .. a : s[i] \in ToSet(st)
  <2> TAKE i \in 1 .. a
  <2>1. i \in 1 .. (a + b)
    BY <1>1
  <2> QED
    BY <1>1, <2>1 DEF ToSet
<1>4. \A i \in 1 .. b : t[i] \in ToSet(st)
  <2> TAKE i \in 1 .. b
  <2>1. a + i \in 1 .. (a + b)
    BY <1>1
  <2> QED
    BY <1>1, <2>1 DEF ToSet
<1>5. ToSet(st) \subseteq ToSet(s) \cup ToSet(t)
  BY <1>1, <1>2 DEF ToSet
<1>6. ToSet(s) \subseteq ToSet(st) /\ ToSet(t) \subseteq ToSet(st)
  BY <1>1, <1>3, <1>4 DEF ToSet
<1> QED
  BY <1>5, <1>6 DEF st

LeadRecords == [from : Nat, id : Nat]

\* All that a level leads to.
LEMMA OnwardIs ==
    ASSUME NEW db, NEW back, NEW nb, Sees(db, back, nb), NEW level \in Seq(Nat)
    PROVE  /\ Onward(db, back, level) \in Seq(LeadRecords)
           /\ \A lead \in LeadRecords :
                lead \in ToSet(Onward(db, back, level)) <=> lead.from \in ToSet(level) /\ lead.id \in nb[lead.from]
<1> DEFINE N == Len(level)
           Row(x) == [i \in DOMAIN Around(db, back, x) |-> [from |-> x, id |-> Around(db, back, x)[i]]]
           More(s, n) == s \o Row(level[n])
           Is(f) == f = [n \in 0 .. N |-> IF n = 0 THEN <<>> ELSE More(f[n - 1], n)]
           upTo == CHOOSE f : Is(f)
           step == [x \in Seq(LeadRecords) \X (1 .. N) |-> More(x[1], x[2])]
<1>1. Onward(db, back, level) = upTo[N]
  BY Zenon DEF Onward
<1>2. N \in Nat /\ \A n \in 1 .. N : level[n] \in Nat
  OBVIOUS
<1>3. ASSUME NEW x \in Nat
      PROVE  /\ Row(x) \in Seq(LeadRecords)
             /\ \A lead \in LeadRecords : lead \in ToSet(Row(x)) <=> lead.from = x /\ lead.id \in nb[x]
  <2> DEFINE around == Around(db, back, x)
  <2>1. around \in Seq(Nat) /\ ToSet(around) = nb[x]
    BY DEF Sees
  <2>2. Row(x) = [i \in DOMAIN around |-> [from |-> x, id |-> around[i]]]
    OBVIOUS
  <2> HIDE DEF around, Row
  <2>3. DOMAIN around = 1 .. Len(around) /\ Len(around) \in Nat
    BY <2>1
  <2>4. \A i \in DOMAIN around : [from |-> x, id |-> around[i]] \in LeadRecords
    BY <2>1 DEF LeadRecords
  <2>5. Row(x) \in Seq(LeadRecords) /\ DOMAIN Row(x) = DOMAIN around
    BY <2>2, <2>3, <2>4
  <2>6. \A lead \in LeadRecords : lead \in ToSet(Row(x)) <=> lead.from = x /\ lead.id \in ToSet(around)
    <3> TAKE lead \in LeadRecords
    <3>1. lead \in ToSet(Row(x)) <=> \E i \in DOMAIN around : lead = [from |-> x, id |-> around[i]]
      BY <2>2 DEF ToSet
    <3>2. \A i \in DOMAIN around : lead = [from |-> x, id |-> around[i]] <=> lead.from = x /\ lead.id = around[i]
      BY DEF LeadRecords
    <3>3. lead.id \in ToSet(around) <=> \E i \in DOMAIN around : lead.id = around[i]
      BY DEF ToSet
    <3> QED
      BY <3>1, <3>2, <3>3
  <2> QED
    BY <2>1, <2>5, <2>6
<1>4. \A s \in Seq(LeadRecords), n \in 1 .. N : More(s, n) \in Seq(LeadRecords)
  <2> HIDE DEF Row
  <2> QED
    BY <1>2, <1>3
<1> DEFINE Led(s, n) ==
      \A lead \in LeadRecords : lead \in ToSet(s) <=> \E k \in 1 .. n : lead.from = level[k] /\ lead.id \in nb[level[k]]
<1>5. ASSUME NEW s \in Seq(LeadRecords), NEW n \in 1 .. N, Led(s, n - 1)
      PROVE  Led(More(s, n), n)
  <2>1. Row(level[n]) \in Seq(LeadRecords)
    BY <1>2, <1>3
  <2>2. ToSet(s \o Row(level[n])) = ToSet(s) \cup ToSet(Row(level[n]))
    <3> HIDE DEF Row
    <3> QED
      BY <2>1, JoinedHolds
  <2>3. \A lead \in LeadRecords : lead \in ToSet(Row(level[n])) <=> lead.from = level[n] /\ lead.id \in nb[level[n]]
    BY <1>2, <1>3
  <2>4. 1 .. n = (1 .. (n - 1)) \cup {n}
    BY <1>2
  <2> HIDE DEF Row
  <2> QED
    BY <1>5, <2>2, <2>3, <2>4
<1> HIDE DEF More, Led
<1>6. Is(upTo)
  <2>1. step \in [Seq(LeadRecords) \X (1 .. N) -> Seq(LeadRecords)]
    BY <1>4
  <2> HIDE DEF step
  <2>2. PICK f : Iterates(f, N, Seq(LeadRecords), <<>>, step)
    <3>1. <<>> \in Seq(LeadRecords)
      OBVIOUS
    <3> HIDE DEF N
    <3> QED
      BY <1>2, <2>1, <3>1, Iteration
  <2>3. \A n \in 1 .. N : f[n] = More(f[n - 1], n)
    <3>1. \A n \in 1 .. N : f[n - 1] \in Seq(LeadRecords) /\ f[n] = step[<<f[n - 1], n>>]
      <4>1. f \in [0 .. N -> Seq(LeadRecords)] /\ \A n \in 1 .. N : f[n] = step[<<f[n - 1], n>>]
        BY <2>2, Zenon DEF Iterates
      <4>2. \A n \in 1 .. N : n - 1 \in 0 .. N
        BY <1>2
      <4> HIDE DEF N
      <4> QED
        BY <4>1, <4>2
    <3> QED
      BY <3>1 DEF step
  <2>4. f = [n \in 0 .. N |-> IF n = 0 THEN <<>> ELSE More(f[n - 1], n)]
    <3>1. f \in [0 .. N -> Seq(LeadRecords)] /\ f[0] = <<>>
      BY <2>2, Zenon DEF Iterates
    <3>2. \A n \in 0 .. N : f[n] = IF n = 0 THEN <<>> ELSE More(f[n - 1], n)
      BY <2>3, <3>1
    <3> QED
      BY <3>1, <3>2
  <2> QED
    BY <2>4
<1> HIDE DEF upTo, N
<1>7. upTo[0] = <<>> /\ \A n \in 1 .. N : upTo[n] = More(upTo[n - 1], n)
  BY <1>2, <1>6
<1> DEFINE bad == {n \in 0 .. N : ~(upTo[n] \in Seq(LeadRecords) /\ Led(upTo[n], n))}
<1>8. bad = {}
  <2> SUFFICES ASSUME bad # {} PROVE FALSE
    OBVIOUS
  <2>1. PICK m \in bad : \A n \in bad : m <= n
    <3>1. bad \in SUBSET Nat
      OBVIOUS
    <3> HIDE DEF bad
    <3> QED
      BY <3>1, LeastOf
  <2>2. Led(<<>>, 0) /\ <<>> \in Seq(LeadRecords)
    BY DEF Led, ToSet
  <2>3. m # 0
    BY <1>7, <2>1, <2>2
  <2>4. m \in 1 .. N /\ m - 1 \in 0 .. N /\ m - 1 \notin bad
    <3> DEFINE good(n) == upTo[n] \in Seq(LeadRecords) /\ Led(upTo[n], n)
    <3> HIDE DEF good
    <3>1. m \in 0 .. N
      BY <2>1
    <3>2. m \in 1 .. N /\ m - 1 \in 0 .. N /\ ~(m <= m - 1)
      BY <1>2, <2>3, <3>1
    <3> HIDE DEF bad
    <3> QED
      BY <2>1, <3>2
  <2>5. upTo[m - 1] \in Seq(LeadRecords) /\ Led(upTo[m - 1], m - 1)
    BY <2>4
  <2>6. upTo[m] \in Seq(LeadRecords) /\ Led(upTo[m], m)
    BY <1>4, <1>5, <1>7, <2>4, <2>5
  <2> QED
    BY <2>1, <2>6
<1>9. upTo[N] \in Seq(LeadRecords) /\ Led(upTo[N], N)
  BY <1>2, <1>8
<1>10. ToSet(level) = {level[k] : k \in 1 .. N}
  BY DEF ToSet, N
<1> QED
  BY <1>1, <1>9, <1>10 DEF Led

-----------------------------------------------------------------------------
(* What is around a form, ring by ring.                                    *)

\* What is within n steps of one form, for n up to max.
Rings(nb, R, s, max) ==
    /\ nb \in [Nat -> SUBSET Nat] /\ s \in Nat /\ max \in Nat
    /\ R \in [0 .. max -> SUBSET Nat] /\ R[0] = {s}
    /\ \A n \in 1 .. max : R[n] = R[n - 1] \cup UNION {nb[x] : x \in R[n - 1]}

LEMMA RingsExist ==
    ASSUME NEW nb \in [Nat -> SUBSET Nat], NEW s \in Nat, NEW max \in Nat
    PROVE  \E R : Rings(nb, R, s, max)
<1> DEFINE Sets == SUBSET Nat
           More(T) == T \cup UNION {nb[x] : x \in T}
           step == [x \in Sets \X (1 .. max) |-> More(x[1])]
<1>1. {s} \in Sets /\ \A T \in Sets : More(T) \in Sets
  OBVIOUS
<1> HIDE DEF More, Sets
<1>2. step \in [Sets \X (1 .. max) -> Sets]
  BY <1>1
<1> HIDE DEF step
<1>3. PICK R : Iterates(R, max, Sets, {s}, step)
  BY <1>1, <1>2, Iteration
<1>4. \A n \in 1 .. max : R[n] = More(R[n - 1])
  <2>1. \A n \in 1 .. max : R[n - 1] \in Sets /\ R[n] = step[<<R[n - 1], n>>]
    BY <1>3 DEF Iterates
  <2> QED
    BY <2>1 DEF step
<1>5. R \in [0 .. max -> Sets] /\ R[0] = {s}
  BY <1>3 DEF Iterates
<1> QED
  BY <1>4, <1>5 DEF Rings, More, Sets

\* They grow, and one is the first that a form is in.
LEMMA RingsGrow ==
    ASSUME NEW nb, NEW R, NEW s, NEW max, Rings(nb, R, s, max)
    PROVE  /\ \A m, n \in 0 .. max : m <= n => R[m] \subseteq R[n]
           /\ \A n \in 0 .. max : \A id \in R[n] : \E m \in 0 .. n : AtHops(R, m, id)
<1> DEFINE Good(n) == \A m \in 0 .. n : R[m] \subseteq R[n]
           bad == {n \in 0 .. max : ~Good(n)}
<1>1. max \in Nat /\ \A n \in 1 .. max : R[n - 1] \subseteq R[n]
  BY DEF Rings
<1>2. bad = {}
  <2> SUFFICES ASSUME bad # {} PROVE FALSE
    OBVIOUS
  <2>1. PICK m \in bad : \A n \in bad : m <= n
    <3>1. bad \in SUBSET Nat
      OBVIOUS
    <3> HIDE DEF bad
    <3> QED
      BY <3>1, LeastOf
  <2>2. m \in 1 .. max /\ m - 1 \in 0 .. max /\ Good(m - 1)
    BY <1>1, <2>1
  <2>3. Good(m)
    <3> SUFFICES ASSUME NEW k \in 0 .. m PROVE R[k] \subseteq R[m]
      OBVIOUS
    <3>1. k = m \/ k \in 0 .. m - 1
      BY <2>2
    <3> QED
      BY <1>1, <2>2, <3>1
  <2> QED
    BY <2>1, <2>3
<1>3. \A m, n \in 0 .. max : m <= n => R[m] \subseteq R[n]
  <2> SUFFICES ASSUME NEW m \in 0 .. max, NEW n \in 0 .. max, m <= n PROVE R[m] \subseteq R[n]
    OBVIOUS
  <2>1. Good(n) /\ m \in 0 .. n
    BY <1>2
  <2> QED
    BY <2>1
<1>4. ASSUME NEW n \in 0 .. max, NEW id \in R[n]
      PROVE  \E m \in 0 .. n : AtHops(R, m, id)
  <2> DEFINE in == {m \in 0 .. n : id \in R[m]}
  <2>1. in \in SUBSET Nat /\ n \in in
    OBVIOUS
  <2>2. PICK m \in in : \A k \in in : m <= k
    <3> HIDE DEF in
    <3> QED
      BY <2>1, LeastOf
  <2>3. m = 0 \/ id \notin R[m - 1]
    <3> SUFFICES ASSUME m # 0, id \in R[m - 1] PROVE FALSE
      OBVIOUS
    <3>1. m - 1 \in in
      BY <2>2
    <3> QED
      BY <2>2, <3>1
  <2> QED
    BY <2>2, <2>3 DEF AtHops
<1> QED
  BY <1>3, <1>4

\* A step leads one further, if not back.
LEMMA RingNext ==
    ASSUME NEW nb, NEW R, NEW s, NEW max, Rings(nb, R, s, max),
           NEW n \in 1 .. max, NEW x \in R[n - 1], NEW y \in nb[x]
    PROVE  y \in R[n] /\ (y \notin R[n - 1] => AtHops(R, n, y) /\ AtHops(R, n - 1, x))
<1>1. max \in Nat /\ n \in Nat /\ n # 0 /\ n - 1 \in 0 .. max
  BY DEF Rings
<1>2. y \in R[n]
  BY DEF Rings
<1>3. ASSUME y \notin R[n - 1] PROVE AtHops(R, n - 1, x)
  <2> SUFFICES ASSUME n - 1 # 0, x \in R[(n - 1) - 1] PROVE FALSE
    BY DEF AtHops
  <2>1. n - 1 \in 1 .. max
    BY <1>1
  <2>2. y \in R[n - 1]
    BY <2>1 DEF Rings
  <2> QED
    BY <1>3, <2>2
<1> QED
  BY <1>1, <1>2, <1>3 DEF AtHops

\* What is so many steps away is a step from what is one less.
LEMMA RingBefore ==
    ASSUME NEW nb, NEW R, NEW s, NEW max, Rings(nb, R, s, max), NEW n \in 1 .. max, NEW y, AtHops(R, n, y)
    PROVE  \E x \in R[n - 1] : AtHops(R, n - 1, x) /\ y \in nb[x]
<1>1. y \in R[n] /\ y \notin R[n - 1]
  BY DEF AtHops, Rings
<1>2. PICK x \in R[n - 1] : y \in nb[x]
  BY <1>1 DEF Rings
<1>3. AtHops(R, n - 1, x)
  BY <1>1, <1>2, RingNext
<1> QED
  BY <1>2, <1>3

LEMMA OneRing ==
    ASSUME NEW nb, NEW R, NEW s, NEW max, Rings(nb, R, s, max), NEW id,
           NEW m \in 0 .. max, NEW n \in 0 .. max, AtHops(R, m, id), id \in R[n]
    PROVE  m <= n
<1> SUFFICES ASSUME ~(m <= n) PROVE FALSE
  OBVIOUS
<1>1. max \in Nat /\ m - 1 \in 0 .. max /\ n <= m - 1 /\ m # 0
  BY DEF Rings
<1>2. id \in R[m - 1]
  BY <1>1, RingsGrow
<1> QED
  BY <1>1, <1>2 DEF AtHops

\* ch leads from s to x, in as few steps as there are.
Shortest(nb, R, s, x, ch) ==
    /\ ch \in Seq(Nat) /\ ch # <<>> /\ ch[1] = s /\ ch[Len(ch)] = x
    /\ \A i \in 1 .. Len(ch) - 1 : ch[i + 1] \in nb[ch[i]]
    /\ AtHops(R, Len(ch) - 1, x)

LEMMA ShortestOn ==
    ASSUME NEW nb, NEW R, NEW s, NEW max, Rings(nb, R, s, max), NEW n \in 1 .. max,
           NEW x, NEW ch, Shortest(nb, R, s, x, ch), Len(ch) = n,
           NEW y \in nb[x], x \in Nat, AtHops(R, n, y)
    PROVE  Shortest(nb, R, s, y, Append(ch, y)) /\ Len(Append(ch, y)) = n + 1
<1> DEFINE c == Append(ch, y)
<1>1. y \in Nat
  BY DEF Rings
<1>2. /\ ch \in Seq(Nat) /\ ch # <<>> /\ ch[1] = s /\ ch[n] = x
      /\ \A i \in 1 .. n - 1 : ch[i + 1] \in nb[ch[i]]
  BY DEF Shortest
<1>3. n \in Nat /\ n # 0
  BY DEF Rings
<1>4. c \in Seq(Nat) /\ Len(c) = n + 1 /\ c # <<>> /\ c[n + 1] = y /\ \A i \in 1 .. n : c[i] = ch[i]
  <2>1. c \in Seq(Nat) /\ Len(c) = Len(ch) + 1
    BY <1>1, <1>2
  <2>2. c[Len(ch) + 1] = y /\ \A i \in 1 .. Len(ch) : c[i] = ch[i]
    BY <1>1, <1>2
  <2> HIDE DEF c
  <2>3. c # <<>>
    BY <1>3, <2>1
  <2> QED
    BY <2>1, <2>2, <2>3
<1> HIDE DEF c
<1>5. ASSUME NEW i \in 1 .. n PROVE c[i + 1] \in nb[c[i]]
  <2>1. CASE i = n
    BY <1>2, <1>3, <1>4, <2>1
  <2>2. CASE i # n
    <3>1. i \in 1 .. n - 1 /\ i + 1 \in 1 .. n
      BY <1>3, <2>2
    <3> QED
      BY <1>2, <1>4, <3>1
  <2> QED
    BY <2>1, <2>2
<1>6. c[1] = s /\ Len(c) - 1 = n
  BY <1>2, <1>3, <1>4
<1>7. Shortest(nb, R, s, y, c)
  BY <1>4, <1>5, <1>6 DEF Shortest
<1> QED
  BY <1>4, <1>7 DEF c

-----------------------------------------------------------------------------
(* A side of a search, level by level.                                     *)

\* A side knows all within its depth, a shortest chain to each, and has what is
\* exactly that far to go on with.
SideOk(nb, R, s, max, side) ==
    /\ side.depth \in 0 .. max
    /\ DOMAIN side.chain = R[side.depth]
    /\ \A x \in R[side.depth] :
         Shortest(nb, R, s, x, side.chain[x]) /\ Len(side.chain[x]) - 1 \in 0 .. side.depth
    /\ side.level \in Seq(Nat) /\ ToSet(side.level) = {x \in R[side.depth] : AtHops(R, side.depth, x)}

LEMMA SideStarts ==
    ASSUME NEW nb, NEW R, NEW s, NEW max, Rings(nb, R, s, max)
    PROVE  SideOk(nb, R, s, max, SideOf(s))
<1> DEFINE side == SideOf(s)
           ch == <<s>>
<1>1. /\ side.depth = 0 /\ DOMAIN side.chain = {s} /\ side.chain[s] = ch /\ side.level = ch
  BY DEF SideOf
<1>2. s \in Nat /\ max \in Nat /\ R[0] = {s}
  BY DEF Rings
<1>3. ch \in Seq(Nat) /\ Len(ch) = 1 /\ ch # <<>> /\ ch[1] = s /\ ToSet(ch) = {s}
  BY <1>2 DEF ToSet
<1> HIDE DEF ch, side
<1>4. AtHops(R, 0, s)
  BY <1>2 DEF AtHops
<1>5. Shortest(nb, R, s, s, ch)
  BY <1>3, <1>4 DEF Shortest
<1>6. \A x \in R[side.depth] :
         Shortest(nb, R, s, x, side.chain[x]) /\ Len(side.chain[x]) - 1 \in 0 .. side.depth
  BY <1>1, <1>2, <1>3, <1>5
<1>7. ToSet(side.level) = {x \in R[side.depth] : AtHops(R, side.depth, x)}
  BY <1>1, <1>2, <1>3, <1>4
<1>8. SideOk(nb, R, s, max, side)
  BY <1>1, <1>2, <1>3, <1>6, <1>7 DEF SideOk
<1> QED
  BY <1>8 DEF side

\* What is new of a level: one lead to each form that the side did not know.
LEMMA NewOnIs ==
    ASSUME NEW side, NEW leads \in Seq(LeadRecords)
    PROVE  LET new == NewOn(side, leads)
           IN  /\ new \in Seq(LeadRecords)
               /\ \A k \in DOMAIN new : new[k] \in ToSet(leads) /\ new[k].id \notin DOMAIN side.chain
               /\ \A lead \in ToSet(leads) :
                    lead.id \notin DOMAIN side.chain => \E k \in DOMAIN new : new[k].id = lead.id
<1> DEFINE I == {i \in DOMAIN leads : /\ leads[i].id \notin DOMAIN side.chain
                                      /\ \A j \in 1 .. (i - 1) : leads[j].id # leads[i].id}
           new == Picked(leads, I)
<1>1. NewOn(side, leads) = new
  BY Zenon DEF NewOn
<1>2. I \in SUBSET DOMAIN leads
  OBVIOUS
<1>3. new \in Seq(LeadRecords) /\ ToSet(new) = {leads[i] : i \in I}
  <2> HIDE DEF I
  <2> QED
    BY <1>2, PickedHolds
<1> HIDE DEF new
<1>4. \A k \in DOMAIN new : new[k] \in ToSet(leads) /\ new[k].id \notin DOMAIN side.chain
  <2> TAKE k \in DOMAIN new
  <2>1. PICK i \in I : new[k] = leads[i]
    BY <1>3 DEF ToSet
  <2> QED
    BY <2>1 DEF ToSet
<1>5. ASSUME NEW lead \in ToSet(leads), lead.id \notin DOMAIN side.chain
      PROVE  \E k \in DOMAIN new : new[k].id = lead.id
  <2> DEFINE same == {i \in DOMAIN leads : leads[i].id = lead.id}
  <2>1. same \in SUBSET Nat /\ same # {}
    BY DEF ToSet
  <2>2. PICK m \in same : \A i \in same : m <= i
    <3> HIDE DEF same
    <3> QED
      BY <2>1, LeastOf
  <2>3. m \in DOMAIN leads /\ leads[m].id = lead.id
    BY <2>2
  <2>4. \A j \in 1 .. (m - 1) : leads[j].id # leads[m].id
    <3> SUFFICES ASSUME NEW j \in 1 .. (m - 1), leads[j].id = lead.id PROVE FALSE
      BY <2>3
    <3>1. DOMAIN leads = 1 .. Len(leads) /\ Len(leads) \in Nat
      OBVIOUS
    <3>2. j \in DOMAIN leads /\ ~(m <= j)
      BY <2>3, <3>1
    <3> QED
      BY <2>2, <3>2
  <2>5. m \in I
    BY <1>5, <2>3, <2>4
  <2>6. leads[m] \in ToSet(new)
    <3> HIDE DEF I
    <3> QED
      BY <1>3, <2>5
  <2>7. \E k \in DOMAIN new : new[k] = leads[m]
    BY <2>6 DEF ToSet
  <2> QED
    BY <2>3, <2>7
<1> QED
  BY <1>1, <1>3, <1>4, <1>5

\* What a level finds is exactly one step further, and all there is.
Finds(nb, R, s, max, side, new) ==
    /\ side.depth + 1 \in 1 .. max /\ new \in Seq(LeadRecords)
    /\ \A k \in DOMAIN new :
         /\ new[k].from \in R[side.depth] /\ new[k].id \notin R[side.depth]
         /\ AtHops(R, side.depth + 1, new[k].id)
         /\ Shortest(nb, R, s, new[k].id, Append(side.chain[new[k].from], new[k].id))
         /\ Len(Append(side.chain[new[k].from], new[k].id)) = side.depth + 2
    /\ \A x \in R[side.depth + 1] : x \in R[side.depth] \/ \E k \in DOMAIN new : new[k].id = x

LEMMA SideFinds ==
    ASSUME NEW db, NEW back, NEW nb, Sees(db, back, nb), NEW R, NEW s, NEW max, Rings(nb, R, s, max),
           NEW side, SideOk(nb, R, s, max, side), side.depth < max
    PROVE  Finds(nb, R, s, max, side, NewOn(side, Onward(db, back, side.level)))
<1> DEFINE d == side.depth
           leads == Onward(db, back, side.level)
           new == NewOn(side, leads)
<1>1. max \in Nat /\ d \in 0 .. max /\ d + 1 \in 1 .. max /\ (d + 1) - 1 = d /\ R[d] \subseteq Nat
  BY DEF SideOk, Rings
<1>2. side.level \in Seq(Nat) /\ ToSet(side.level) = {x \in R[d] : AtHops(R, d, x)} /\ DOMAIN side.chain = R[d]
  BY DEF SideOk
<1>3. /\ leads \in Seq(LeadRecords)
      /\ \A lead \in LeadRecords :
           lead \in ToSet(leads) <=> lead.from \in ToSet(side.level) /\ lead.id \in nb[lead.from]
  BY <1>2, OnwardIs
<1> HIDE DEF leads
<1>4. /\ new \in Seq(LeadRecords)
      /\ \A k \in DOMAIN new : new[k] \in ToSet(leads) /\ new[k].id \notin R[d]
      /\ \A lead \in ToSet(leads) : lead.id \notin R[d] => \E k \in DOMAIN new : new[k].id = lead.id
  <2>1. /\ new \in Seq(LeadRecords)
        /\ \A k \in DOMAIN new : new[k] \in ToSet(leads) /\ new[k].id \notin DOMAIN side.chain
        /\ \A lead \in ToSet(leads) :
             lead.id \notin DOMAIN side.chain => \E k \in DOMAIN new : new[k].id = lead.id
    BY <1>3, NewOnIs
  <2> HIDE DEF new, d
  <2>2. DOMAIN side.chain = R[d]
    BY <1>2
  <2> QED
    BY <2>1, <2>2
<1> HIDE DEF new, d
<1>5. ASSUME NEW k \in DOMAIN new
      PROVE  /\ new[k].from \in R[d] /\ new[k].id \notin R[d] /\ AtHops(R, d + 1, new[k].id)
             /\ Shortest(nb, R, s, new[k].id, Append(side.chain[new[k].from], new[k].id))
             /\ Len(Append(side.chain[new[k].from], new[k].id)) = d + 2
  <2> DEFINE x == new[k].from
             y == new[k].id
             ch == side.chain[x]
  <2>1. new[k] \in LeadRecords
    BY <1>4
  <2>2. x \in R[d] /\ AtHops(R, d, x) /\ y \in nb[x] /\ y \notin R[d]
    BY <1>2, <1>3, <1>4, <2>1
  <2>3. Shortest(nb, R, s, x, ch) /\ Len(ch) - 1 \in 0 .. d
    BY <2>2 DEF SideOk, d
  <2> HIDE DEF x, y, ch
  <2>4. AtHops(R, d + 1, y)
    BY <1>1, <2>2, RingNext
  <2>5. ch \in Seq(Nat) /\ AtHops(R, Len(ch) - 1, x)
    BY <2>3 DEF Shortest
  <2>6. Len(ch) - 1 = d
    <3>1. R[Len(ch) - 1] \subseteq R[Len(ch) - 1] /\ x \in R[Len(ch) - 1] /\ Len(ch) - 1 \in 0 .. max
      BY <1>1, <2>3, <2>5 DEF AtHops
    <3>2. d <= Len(ch) - 1
      BY <1>1, <2>2, <3>1, OneRing
    <3> QED
      BY <1>1, <2>3, <3>2
  <2>7. Len(ch) = d + 1
    BY <1>1, <2>5, <2>6
  <2>8. Shortest(nb, R, s, y, Append(ch, y)) /\ Len(Append(ch, y)) = (d + 1) + 1
    BY <1>1, <2>2, <2>3, <2>4, <2>7, ShortestOn
  <2>9. (d + 1) + 1 = d + 2
    BY <1>1
  <2> QED
    BY <2>2, <2>4, <2>8, <2>9 DEF x, y, ch
<1>6. ASSUME NEW y \in R[d + 1], y \notin R[d]
      PROVE  \E k \in DOMAIN new : new[k].id = y
  <2>1. AtHops(R, d + 1, y)
    BY <1>1, <1>6 DEF AtHops
  <2>2. PICK x \in R[d] : AtHops(R, d, x) /\ y \in nb[x]
    BY <1>1, <2>1, RingBefore
  <2> DEFINE lead == [from |-> x, id |-> y]
  <2>3. x \in Nat /\ y \in Nat
    BY <1>1, <2>2 DEF Rings
  <2>4. lead \in LeadRecords /\ lead.from = x /\ lead.id = y
    BY <2>3 DEF LeadRecords
  <2>5. lead \in ToSet(leads)
    <3> HIDE DEF lead
    <3> QED
      BY <1>2, <1>3, <2>2, <2>4
  <2> HIDE DEF lead
  <2> QED
    BY <1>4, <1>6, <2>4, <2>5
<1>7. Finds(nb, R, s, max, side, new)
  BY <1>1, <1>4, <1>5, <1>6 DEF Finds, d
<1> QED
  BY <1>7 DEF new, leads

\* A side after a level.
LEMMA SideGrows ==
    ASSUME NEW nb, NEW R, NEW s, NEW max, Rings(nb, R, s, max),
           NEW side, SideOk(nb, R, s, max, side), NEW new, Finds(nb, R, s, max, side, new)
    PROVE  SideOk(nb, R, s, max, Longer(side, new)) /\ Longer(side, new).depth = side.depth + 1
<1> DEFINE d == side.depth
           ids == {new[k].id : k \in DOMAIN new}
           lead(id) == CHOOSE lead \in ToSet(new) : lead.id = id
           then == Longer(side, new)
<1>1. /\ then.depth = d + 1 /\ then.level = [k \in DOMAIN new |-> new[k].id]
      /\ then.chain = [id \in DOMAIN side.chain \cup ids |->
                          IF id \in ids THEN Append(side.chain[lead(id).from], id) ELSE side.chain[id]]
  BY DEF Longer
<1>2. max \in Nat /\ d \in 0 .. max /\ d + 1 \in 1 .. max /\ (d + 1) - 1 = d /\ new \in Seq(LeadRecords) /\ d + 1 \in 0 .. max
  BY DEF SideOk, Rings, Finds
<1>3. /\ \A k \in DOMAIN new :
           /\ new[k].from \in R[d] /\ new[k].id \notin R[d] /\ AtHops(R, d + 1, new[k].id)
           /\ Shortest(nb, R, s, new[k].id, Append(side.chain[new[k].from], new[k].id))
           /\ Len(Append(side.chain[new[k].from], new[k].id)) = d + 2
      /\ \A x \in R[d + 1] : x \in R[d] \/ x \in ids
  BY DEF Finds
<1>4. DOMAIN side.chain = R[d] /\ \A x \in R[d] : Shortest(nb, R, s, x, side.chain[x]) /\ Len(side.chain[x]) - 1 \in 0 .. d
  BY DEF SideOk
<1>5. \A id \in ids : \E k \in DOMAIN new : lead(id) = new[k] /\ new[k].id = id
  <2> TAKE id \in ids
  <2>1. \E l \in ToSet(new) : l.id = id
    BY DEF ToSet
  <2>2. lead(id) \in ToSet(new) /\ lead(id).id = id
    BY <2>1
  <2> HIDE DEF lead
  <2> QED
    BY <2>2 DEF ToSet
<1> HIDE DEF d, ids, lead, then
<1>6. R[d + 1] = R[d] \cup ids
  <2>1. R[d] \subseteq R[d + 1]
    BY <1>2, RingsGrow
  <2>2. \A k \in DOMAIN new : new[k].id \in R[d + 1]
    BY <1>3 DEF AtHops
  <2>3. ids \subseteq R[d + 1]
    BY <2>2 DEF ids
  <2> QED
    BY <1>3, <2>1, <2>3
<1>7. DOMAIN then.chain = R[d + 1]
  BY <1>1, <1>4, <1>6
<1>8. ASSUME NEW x \in R[d + 1]
      PROVE  Shortest(nb, R, s, x, then.chain[x]) /\ Len(then.chain[x]) - 1 \in 0 .. (d + 1)
  <2>1. CASE x \in ids
    <3>1. PICK k \in DOMAIN new : lead(x) = new[k] /\ new[k].id = x
      BY <1>5, <2>1
    <3>2. then.chain[x] = Append(side.chain[new[k].from], x)
      BY <1>1, <1>4, <1>6, <2>1, <3>1
    <3> DEFINE c == Append(side.chain[new[k].from], x)
    <3>3. Shortest(nb, R, s, x, c) /\ Len(c) = d + 2
      BY <1>3, <3>1
    <3> HIDE DEF c
    <3>4. Len(c) - 1 \in 0 .. (d + 1)
      BY <1>2, <3>3
    <3> QED
      BY <3>2, <3>3, <3>4 DEF c
  <2>2. CASE x \notin ids
    <3>1. x \in R[d]
      BY <1>6, <2>2
    <3>2. then.chain[x] = side.chain[x]
      BY <1>1, <1>4, <2>2, <3>1
    <3>3. Len(side.chain[x]) - 1 \in 0 .. (d + 1)
      BY <1>2, <1>4, <3>1
    <3> QED
      BY <1>4, <3>1, <3>2, <3>3
  <2> QED
    BY <2>1, <2>2
<1>9. then.level \in Seq(Nat) /\ ToSet(then.level) = ids
  <2>1. \A k \in DOMAIN new : new[k].id \in Nat
    <3> TAKE k \in DOMAIN new
    <3>1. new[k] \in LeadRecords
      BY <1>2
    <3> QED
      BY <3>1 DEF LeadRecords
  <2>2. DOMAIN new = 1 .. Len(new) /\ Len(new) \in Nat
    BY <1>2
  <2>3. then.level \in Seq(Nat)
    BY <1>1, <2>1, <2>2
  <2> QED
    BY <1>1, <2>3 DEF ToSet, ids
<1>10. ids = {x \in R[d + 1] : AtHops(R, d + 1, x)}
  <2>1. \A x \in ids : x \in R[d + 1] /\ AtHops(R, d + 1, x)
    BY <1>3, <1>6 DEF ids
  <2>2. \A x \in R[d + 1] : AtHops(R, d + 1, x) => x \notin R[d]
    BY <1>2 DEF AtHops
  <2> QED
    BY <1>6, <2>1, <2>2
<1>11. SideOk(nb, R, s, max, then)
  <2>1. then.depth = d + 1 /\ then.depth \in 0 .. max
    BY <1>1, <1>2
  <2>2. \A x \in R[then.depth] :
          Shortest(nb, R, s, x, then.chain[x]) /\ Len(then.chain[x]) - 1 \in 0 .. then.depth
    BY <1>8, <2>1
  <2>3. ToSet(then.level) = {x \in R[then.depth] : AtHops(R, then.depth, x)}
    BY <1>9, <1>10, <2>1
  <2> QED
    BY <1>7, <1>9, <2>1, <2>2, <2>3, Zenon DEF SideOk
<1> QED
  BY <1>1, <1>11 DEF then, d

-----------------------------------------------------------------------------
(* A search: both ends, and how a way between them splits.                 *)

\* A search: its graph, its ends, and what is around both of them.
IsSearch(j) ==
    /\ IsGraph(j.db) /\ j.from \in Nat /\ j.from \in Defined(j.db) /\ j.to \in Nat /\ j.max \in Nat
    /\ Rings(BackOf(j.db), j.B, j.from, j.max) /\ Rings(FwdOf(j.db), j.F, j.to, j.max)

\* Whatever is reached back is a form.
LEMMA BackDefined ==
    ASSUME NEW j, IsSearch(j)
    PROVE  \A n \in 0 .. j.max : \A x \in j.B[n] : x \in Defined(j.db) /\ x \in Nat
<1> DEFINE B == j.B
           nb == BackOf(j.db)
           max == j.max
<1>1. Rings(nb, B, j.from, max) /\ j.from \in Defined(j.db)
  BY DEF IsSearch
<1>2. \A x \in Nat : nb[x] \subseteq Forms(j.db)
  BY DEF BackOf, Naming, NextTo
<1> HIDE DEF B, nb, max
<1> DEFINE bad == {n \in 0 .. max : ~(B[n] \subseteq Defined(j.db))}
<1>3. max \in Nat /\ B[0] = {j.from} /\ \A n \in 0 .. max : B[n] \subseteq Nat
  BY <1>1 DEF Rings
<1>4. \A n \in 1 .. max : B[n] = B[n - 1] \cup UNION {nb[x] : x \in B[n - 1]}
  BY <1>1 DEF Rings
<1>5. bad = {}
  <2> SUFFICES ASSUME bad # {} PROVE FALSE
    OBVIOUS
  <2>1. PICK m \in bad : \A n \in bad : m <= n
    <3>1. bad \in SUBSET Nat
      OBVIOUS
    <3> HIDE DEF bad
    <3> QED
      BY <3>1, LeastOf
  <2>2. m \in 1 .. max /\ m - 1 \in 0 .. max /\ m - 1 \notin bad
    BY <1>1, <1>3, <2>1
  <2>3. B[m - 1] \subseteq Defined(j.db) /\ B[m - 1] \subseteq Nat
    BY <1>3, <2>2
  <2>4. UNION {nb[x] : x \in B[m - 1]} \subseteq Defined(j.db)
    BY <1>2, <2>3 DEF Defined
  <2>5. B[m] \subseteq Defined(j.db)
    BY <1>4, <2>2, <2>3, <2>4
  <2> QED
    BY <2>1, <2>5
<1> QED
  BY <1>3, <1>5 DEF B, max

\* A form that is so far back shares one with every split of the way.
LEMMA WaysSplit ==
    ASSUME NEW j, IsSearch(j), NEW b \in Nat, NEW f \in Nat, b + f \in 0 .. j.max, j.to \in j.B[b + f]
    PROVE  j.B[b] \cap j.F[f] # {}
<1> DEFINE B == j.B
           F == j.F
           max == j.max
           Meet(i) == B[b + (f - i)] \cap F[i] # {}
           bad == {i \in 0 .. f : ~Meet(i)}
<1>1. Rings(BackOf(j.db), B, j.from, max) /\ Rings(FwdOf(j.db), F, j.to, max) /\ max \in Nat
  BY DEF IsSearch
<1>2. \A n \in 0 .. max : \A x \in B[n] : x \in Defined(j.db) /\ x \in Nat
  BY BackDefined
<1>3. \A x, y \in Nat : x \in Defined(j.db) => (y \in BackOf(j.db)[x] <=> x \in FwdOf(j.db)[y])
  BY SidesMirror DEF IsSearch
<1>4. b + f \in 0 .. max /\ j.to \in B[b + f] /\ F[0] = {j.to}
  BY <1>1 DEF Rings
<1> HIDE DEF B, F, max
<1>5. Meet(0)
  <2>1. b + (f - 0) = b + f
    OBVIOUS
  <2> QED
    BY <1>4, <2>1
<1>6. ASSUME NEW i \in 1 .. f, Meet(i - 1) PROVE Meet(i)
  <2> DEFINE n == b + (f - (i - 1))
  <2>1. /\ n \in 1 .. max /\ n - 1 = b + (f - i) /\ i \in 1 .. max /\ n - 1 \in 0 .. max /\ i - 1 \in 0 .. max
    BY <1>1, <1>4
  <2>2. PICK x : x \in B[n] /\ x \in F[i - 1]
    BY <1>6
  <2> HIDE DEF n
  <2>3. F[i] = F[i - 1] \cup UNION {FwdOf(j.db)[y] : y \in F[i - 1]}
    BY <1>1, <2>1 DEF Rings
  <2>4. \E y : y \in B[n - 1] /\ y \in F[i]
    <3>1. CASE x \in B[n - 1]
      BY <2>2, <2>3, <3>1
    <3>2. CASE x \notin B[n - 1]
      <4>1. B[n] = B[n - 1] \cup UNION {BackOf(j.db)[y] : y \in B[n - 1]}
        BY <1>1, <2>1 DEF Rings
      <4>2. PICK y \in B[n - 1] : x \in BackOf(j.db)[y]
        BY <2>2, <3>2, <4>1
      <4>3. n \in 0 .. max
        BY <2>1
      <4>4. y \in Defined(j.db) /\ y \in Nat /\ x \in Nat
        BY <1>2, <2>1, <2>2, <4>2, <4>3
      <4>5. y \in FwdOf(j.db)[x]
        BY <1>3, <4>2, <4>4
      <4> QED
        BY <2>2, <2>3, <4>2, <4>5
    <3> QED
      BY <3>1, <3>2
  <2> QED
    BY <2>1, <2>4
<1> HIDE DEF Meet
<1>7. bad = {}
  <2> SUFFICES ASSUME bad # {} PROVE FALSE
    OBVIOUS
  <2>1. PICK m \in bad : \A n \in bad : m <= n
    <3>1. bad \in SUBSET Nat
      OBVIOUS
    <3> HIDE DEF bad
    <3> QED
      BY <3>1, LeastOf
  <2>2. m \in 1 .. f /\ m - 1 \in 0 .. f /\ m - 1 \notin bad
    BY <1>5, <2>1
  <2> QED
    BY <1>6, <2>1, <2>2
<1>8. Meet(f)
  BY <1>7
<1>9. b + (f - f) = b
  OBVIOUS
<1> QED
  BY <1>8, <1>9 DEF Meet, B, F

\* A chain of references from the first end: each names the one before it.
Ladder(j, p) ==
    /\ p \in Seq(Nat) /\ p # <<>> /\ p[1] = j.from
    /\ \A i \in 1 .. Len(p) - 1 : p[i + 1] \in BackOf(j.db)[p[i]]

LEMMA LadderReaches ==
    ASSUME NEW j, IsSearch(j), NEW p, Ladder(j, p), Len(p) - 1 \in 0 .. j.max
    PROVE  p[Len(p)] \in j.B[Len(p) - 1]
<1> DEFINE N == Len(p)
           B == j.B
           max == j.max
           bad == {i \in 1 .. N : p[i] \notin B[i - 1]}
<1>1. Rings(BackOf(j.db), B, j.from, max) /\ max \in Nat
  BY DEF IsSearch
<1>2. N \in Nat /\ N # 0 /\ N - 1 \in 0 .. max /\ p[1] = j.from /\ \A i \in 1 .. N - 1 : p[i + 1] \in BackOf(j.db)[p[i]]
  <2>1. p \in Seq(Nat) /\ p # <<>>
    BY DEF Ladder
  <2>2. N \in Nat /\ N # 0
    BY <2>1
  <2> QED
    BY <2>2 DEF Ladder
<1> HIDE DEF N, B, max
<1>3. bad = {}
  <2> SUFFICES ASSUME bad # {} PROVE FALSE
    OBVIOUS
  <2>1. PICK m \in bad : \A n \in bad : m <= n
    <3>1. bad \in SUBSET Nat
      BY <1>2
    <3> HIDE DEF bad
    <3> QED
      BY <3>1, LeastOf
  <2>2. m # 1
    <3>1. p[1] \in B[1 - 1]
      BY <1>1, <1>2 DEF Rings
    <3> QED
      BY <2>1, <3>1
  <2>3. m - 1 \in 1 .. N /\ m - 1 \notin bad /\ m - 1 \in 1 .. N - 1 /\ m - 1 \in 1 .. max /\ (m - 1) + 1 = m
    BY <1>1, <1>2, <2>1, <2>2
  <2>4. p[m - 1] \in B[(m - 1) - 1] /\ p[m] \in BackOf(j.db)[p[m - 1]]
    <3>1. p[(m - 1) + 1] \in BackOf(j.db)[p[m - 1]]
      BY <1>2, <2>3
    <3> QED
      BY <2>3, <3>1
  <2>5. p[m] \in B[m - 1]
    <3> DEFINE k == m - 1
    <3> HIDE DEF k
    <3>1. k \in 1 .. max /\ p[k] \in B[k - 1] /\ p[m] \in BackOf(j.db)[p[k]]
      BY <2>3, <2>4 DEF k
    <3>2. p[m] \in B[k]
      BY <1>1, <3>1, RingNext
    <3> QED
      BY <3>2 DEF k
  <2> QED
    BY <2>1, <2>5
<1>4. N \in 1 .. N
  BY <1>2
<1>5. p[N] \in B[N - 1]
  BY <1>3, <1>4
<1> QED
  BY <1>5 DEF N, B

-----------------------------------------------------------------------------
(* Where the sides meet, the chains make a path.                           *)

\* The chain of one side, then that of the other from where they meet.
Spliced(P, Q) == P \o Tail(Reverse(Q))

\* Two chains to one form make a chain from end to end.
LEMMA SplicedIs ==
    ASSUME NEW j, IsSearch(j), NEW m \in Nat, m \in Defined(j.db),
           NEW P, Shortest(BackOf(j.db), j.B, j.from, m, P), NEW Q, Shortest(FwdOf(j.db), j.F, j.to, m, Q)
    PROVE  /\ Ladder(j, Spliced(P, Q)) /\ Len(Spliced(P, Q)) = Len(P) + Len(Q) - 1
           /\ Spliced(P, Q)[Len(Spliced(P, Q))] = j.to
<1> DEFINE p == Len(P)
           q == Len(Q)
           T == Tail(Reverse(Q))
           path == P \o T
<1>1. P \in Seq(Nat) /\ p \in Nat /\ p # 0
  BY DEF Shortest
<1>2. Q \in Seq(Nat) /\ q \in Nat /\ q # 0
  BY DEF Shortest
<1>3. T \in Seq(Nat) /\ Len(T) = q - 1 /\ \A t \in 1 .. q - 1 : T[t] = Q[q - t]
  <2> DEFINE r == Reverse(Q)
  <2>1. r = [i \in 1 .. q |-> Q[(q - i) + 1]]
    BY Zenon DEF Reverse
  <2>2. \A i \in 1 .. q : (q - i) + 1 \in 1 .. q
    BY <1>2
  <2>3. \A i \in 1 .. q : Q[i] \in Nat
    BY <1>2
  <2> HIDE DEF r
  <2>4. r \in Seq(Nat) /\ Len(r) = q /\ \A i \in 1 .. q : r[i] = Q[(q - i) + 1]
    BY <1>2, <2>1, <2>2, <2>3
  <2> HIDE DEF q
  <2>5. r # <<>>
    BY <1>2, <2>4
  <2>6. Tail(r) \in Seq(Nat) /\ Len(Tail(r)) = Len(r) - 1 /\ \A t \in 1 .. Len(r) - 1 : Tail(r)[t] = r[t + 1]
    BY <2>4, <2>5
  <2>7. \A t \in 1 .. q - 1 : t + 1 \in 1 .. q /\ (q - (t + 1)) + 1 = q - t
    BY <1>2
  <2>8. \A t \in 1 .. q - 1 : Tail(r)[t] = Q[q - t]
    <3> TAKE t \in 1 .. q - 1
    <3>1. Tail(r)[t] = r[t + 1]
      BY <2>4, <2>6
    <3>2. r[t + 1] = Q[(q - (t + 1)) + 1]
      BY <2>4, <2>7
    <3> QED
      BY <2>7, <3>1, <3>2
  <2> QED
    BY <2>4, <2>6, <2>8 DEF r
<1> HIDE DEF T
<1>4. /\ path \in Seq(Nat) /\ Len(path) = p + Len(T) /\ \A i \in 1 .. p : path[i] = P[i]
      /\ \A t \in 1 .. Len(T) : path[p + t] = T[t]
  <2> HIDE DEF p
  <2>1. path \in Seq(Nat) /\ Len(path) = Len(P) + Len(T)
    BY <1>1, <1>3
  <2>2. \A i \in 1 .. Len(P) : path[i] = P[i]
    BY <1>1, <1>3
  <2>3. \A t \in 1 .. Len(T) : path[Len(P) + t] = T[t]
    BY <1>1, <1>3
  <2> QED
    BY <2>1, <2>2, <2>3 DEF p
<1> HIDE DEF path
<1>5. P[1] = j.from /\ P[p] = m /\ \A i \in 1 .. p - 1 : P[i + 1] \in BackOf(j.db)[P[i]]
  BY DEF Shortest
<1>6. Q[1] = j.to /\ Q[q] = m /\ \A i \in 1 .. q - 1 : Q[i + 1] \in FwdOf(j.db)[Q[i]]
  BY DEF Shortest
<1>7. \A i \in 1 .. q : Q[i] \in Nat
  BY <1>2
<1> HIDE DEF p, q
<1>8. \A t \in 1 .. q - 1 : path[p + t] = Q[q - t]
  BY <1>3, <1>4
<1>9. Len(path) = p + q - 1 /\ path # <<>> /\ path[1] = j.from
  BY <1>1, <1>2, <1>3, <1>4, <1>5
<1>10. \A i \in 1 .. q : Q[i] \in Defined(j.db)
  <2> TAKE i \in 1 .. q
  <2>1. CASE i = q
    BY <1>6, <2>1
  <2>2. CASE i # q
    <3>1. i \in 1 .. q - 1
      BY <1>2, <2>2
    <3>2. Q[i + 1] \in FwdOf(j.db)[Q[i]]
      BY <1>6, <3>1
    <3>3. FwdOf(j.db)[Q[i]] # {} => Q[i] \in Forms(j.db)
      BY <1>7 DEF FwdOf, NamedBy
    <3> QED
      BY <3>2, <3>3 DEF Defined
  <2> QED
    BY <2>1, <2>2
<1>11. \A k \in 1 .. q - 1 : Q[k] \in BackOf(j.db)[Q[k + 1]]
  <2> TAKE k \in 1 .. q - 1
  <2>1. k \in 1 .. q /\ k + 1 \in 1 .. q
    BY <1>2
  <2>2. IsGraph(j.db)
    BY DEF IsSearch
  <2>3. Q[k] \in Nat /\ Q[k + 1] \in Nat /\ Q[k + 1] \in Defined(j.db) /\ Q[k + 1] \in FwdOf(j.db)[Q[k]]
    BY <1>6, <1>7, <1>10, <2>1
  <2> DEFINE x == Q[k + 1]
             y == Q[k]
  <2> HIDE DEF x, y
  <2>4. y \in BackOf(j.db)[x]
    BY <2>2, <2>3, SidesMirror DEF x, y
  <2> QED
    BY <2>4 DEF x, y
<1>12. ASSUME NEW i \in 1 .. (p + q - 1) - 1 PROVE path[i + 1] \in BackOf(j.db)[path[i]]
  <2>1. CASE i \in 1 .. p - 1
    <3>1. i \in 1 .. p /\ i + 1 \in 1 .. p
      BY <1>1, <2>1
    <3> QED
      BY <1>4, <1>5, <2>1, <3>1
  <2>2. CASE i \notin 1 .. p - 1
    <3> DEFINE t == i - p
               k == q - t - 1
    <3>1. t \in 0 .. q - 2 /\ k \in 1 .. q - 1 /\ i = p + t /\ i + 1 = p + (t + 1) /\ t + 1 \in 1 .. q - 1
      BY <1>1, <1>2, <2>2
    <3>2. q - (t + 1) = k /\ q - t = k + 1
      BY <1>1, <1>2, <3>1
    <3> HIDE DEF t, k
    <3>3. path[i + 1] = Q[k]
      BY <1>8, <3>1, <3>2
    <3>4. path[i] = Q[k + 1]
      <4>1. CASE t = 0
        <5>1. i = p
          BY <1>1, <3>1, <4>1
        <5>2. k + 1 = q
          BY <1>2, <3>2, <4>1
        <5>3. p \in 1 .. p
          BY <1>1
        <5> QED
          BY <1>4, <1>5, <1>6, <5>1, <5>2, <5>3
      <4>2. CASE t # 0
        <5>1. t \in 1 .. q - 1
          BY <1>2, <3>1, <4>2
        <5> QED
          BY <1>8, <3>1, <3>2, <5>1
      <4> QED
        BY <4>1, <4>2
    <3> QED
      BY <1>11, <3>1, <3>3, <3>4
  <2> QED
    BY <2>1, <2>2
<1>13. path[Len(path)] = j.to
  <2>1. CASE q = 1
    BY <1>1, <1>4, <1>5, <1>6, <1>9, <2>1
  <2>2. CASE q # 1
    <3>1. q - 1 \in 1 .. q - 1 /\ q - (q - 1) = 1 /\ p + (q - 1) = p + q - 1
      BY <1>1, <1>2, <2>2
    <3>2. path[p + (q - 1)] = Q[q - (q - 1)]
      BY <1>8, <3>1
    <3> QED
      BY <1>6, <1>9, <3>1, <3>2
  <2> QED
    BY <2>1, <2>2
<1>14. Ladder(j, path)
  BY <1>4, <1>9, <1>12 DEF Ladder
<1>15. path = Spliced(P, Q)
  BY DEF Spliced, path, T
<1> QED
  BY <1>9, <1>13, <1>14, <1>15 DEF p, q

\* A way from end to end, and none shorter.
Connects(j, path) ==
    path[1] = j.from /\ Last(path) = j.to /\ IsChain(j.db, path) /\ AtHops(j.B, Len(path) - 1, j.to)

\* Where two sides that had nothing in common meet, a shortest way leads along.
LEMMA MeetingConnects ==
    ASSUME NEW j, IsSearch(j), NEW b \in Nat, NEW f \in Nat, b + f < j.max, j.B[b] \cap j.F[f] = {},
           NEW m, NEW P, Shortest(BackOf(j.db), j.B, j.from, m, P),
           NEW Q, Shortest(FwdOf(j.db), j.F, j.to, m, Q), Len(P) + Len(Q) <= b + f + 3
    PROVE  Connects(j, Spliced(P, Q))
<1> DEFINE path == Spliced(P, Q)
           p == Len(P)
           q == Len(Q)
           L == p + q - 2
<1>1. p \in Nat /\ p # 0
  BY DEF Shortest
<1>2. q \in Nat /\ q # 0
  BY DEF Shortest
<1>3. j.max \in Nat
  BY DEF IsSearch
<1>4. p + q <= b + f + 3
  OBVIOUS
<1> HIDE DEF p, q
<1>5. L \in 0 .. j.max /\ p - 1 \in 0 .. j.max /\ L <= b + f + 1 /\ b + f \in 0 .. j.max /\ L \in Nat
  BY <1>1, <1>2, <1>3, <1>4
<1>6. m \in Nat /\ m \in Defined(j.db)
  <2>1. m \in j.B[p - 1]
    BY DEF Shortest, AtHops, p
  <2> QED
    BY <1>5, <2>1, BackDefined
<1>7. Ladder(j, path) /\ Len(path) = p + q - 1 /\ path[Len(path)] = j.to
  BY <1>6, SplicedIs DEF p, q
<1> HIDE DEF path
<1>8. Len(path) - 1 = L
  BY <1>1, <1>2, <1>7
<1> HIDE DEF L
<1>9. j.to \in j.B[L]
  BY <1>5, <1>7, <1>8, LadderReaches
<1>10. j.to \notin j.B[b + f]
  BY <1>5, WaysSplit
<1>11. L = b + f + 1
  <2> SUFFICES ASSUME L <= b + f PROVE FALSE
    BY <1>5
  <2>1. Rings(BackOf(j.db), j.B, j.from, j.max)
    BY DEF IsSearch
  <2>2. j.B[L] \subseteq j.B[b + f]
    BY <1>5, <2>1, RingsGrow
  <2> QED
    BY <1>9, <1>10, <2>2
<1>12. AtHops(j.B, Len(path) - 1, j.to)
  <2>1. L - 1 = b + f
    BY <1>11
  <2> QED
    BY <1>8, <1>9, <1>10, <2>1 DEF AtHops
<1>13. IsChain(j.db, path)
  <2> SUFFICES ASSUME NEW i \in 1 .. Len(path) - 1
               PROVE  path[i + 1] \in Forms(j.db) /\ path[i] \in ToSet(j.db.body[path[i + 1]])
    BY DEF IsChain
  <2>1. path \in Seq(Nat) /\ path[i + 1] \in BackOf(j.db)[path[i]]
    BY <1>7 DEF Ladder
  <2>2. i \in 1 .. Len(path) /\ Len(path) \in Nat
    BY <2>1
  <2>3. path[i] \in Nat
    BY <2>1, <2>2
  <2>4. BackOf(j.db)[path[i]] = NextTo(j.db, {path[i]})
    BY <2>3 DEF BackOf, Naming
  <2> QED
    BY <2>1, <2>4 DEF NextTo
<1>14. path[1] = j.from /\ Last(path) = j.to
  BY <1>7 DEF Ladder, Last
<1> QED
  BY <1>12, <1>13, <1>14 DEF Connects, path

-----------------------------------------------------------------------------
(* The invariant of a search.                                              *)

\* As long as nothing is found the sides are apart, and only sides that have
\* nothing to go on with are behind the steps taken.
Apart(j, n, s) ==
    /\ SideOk(BackOf(j.db), j.B, j.from, j.max, s.back) /\ SideOk(FwdOf(j.db), j.F, j.to, j.max, s.fwd)
    /\ j.B[s.back.depth] \cap j.F[s.fwd.depth] = {}
    /\ s.back.depth + s.fwd.depth <= n
    /\ s.back.depth + s.fwd.depth = n \/ (s.back.level = <<>> /\ s.fwd.level = <<>>)

Searched(j, n, s) ==
    /\ DOMAIN s = {"back", "fwd", "visited", "end"} /\ s.end.how \in {"none", "found", "exhausted"}
    /\ s.end.how = "found" => Connects(j, s.end.chain)
    /\ s.end.how = "none" => Apart(j, n, s)

LEMMA LeastIs ==
    ASSUME NEW S \in SUBSET Nat, S # {}
    PROVE  Min(S) \in S
<1>1. PICK m \in S : \A n \in S : m <= n
  BY LeastOf
<1>2. \E x \in S : \A y \in S : x <= y
  BY <1>1
<1> QED
  BY <1>2, Zenon DEF Min

\* The outcome of a level.
LevelEnds(s, new, other, budget, then, on, way) ==
    LET stops == Stops(other, new, s.visited, budget)
        lead == new[Min(stops)]
    IN  \/ /\ stops = {} /\ then = on
        \/ /\ stops # {} /\ Meets(other, lead)
           /\ then = [s EXCEPT !.end = Ended("found", way)]
        \/ then = [s EXCEPT !.end = Ended("exhausted", <<>>)]

\* A level more of the back side, and of the forward side.
BackTurn(db, s, budget, then) ==
    LET b == s.back
        f == s.fwd
        new == NewOn(b, Onward(db, TRUE, b.level))
        lead == new[Min(Stops(f, new, s.visited, budget))]
    IN  LevelEnds(s, new, f, budget, then,
          [s EXCEPT !.back = Longer(b, new), !.fwd = f, !.visited = @ + Len(new)],
          Spliced(Append(b.chain[lead.from], lead.id), f.chain[lead.id]))

FwdTurn(db, s, budget, then) ==
    LET b == s.back
        f == s.fwd
        new == NewOn(f, Onward(db, FALSE, f.level))
        lead == new[Min(Stops(b, new, s.visited, budget))]
    IN  LevelEnds(s, new, b, budget, then,
          [s EXCEPT !.back = b, !.fwd = Longer(f, new), !.visited = @ + Len(new)],
          Spliced(b.chain[lead.id], Append(f.chain[lead.from], lead.id)))

LEMMA ExpandIs ==
    ASSUME NEW db, NEW s, NEW budget
    PROVE  \/ BackTurn(db, s, budget, ExpandLevel(db, s, budget))
           \/ FwdTurn(db, s, budget, ExpandLevel(db, s, budget))
<1> DEFINE b == s.back
           f == s.fwd
           then == ExpandLevel(db, s, budget)
           picked == b.level # <<>> /\ (f.level = <<>> \/ Len(b.level) <= Len(f.level))
           side(back) == IF back THEN b ELSE f
           other(back) == IF back THEN f ELSE b
           new(back) == NewOn(side(back), Onward(db, back, side(back).level))
           stops(back) == Stops(other(back), new(back), s.visited, budget)
           lead(back) == new(back)[Min(stops(back))]
           reached(back) == Append(side(back).chain[lead(back).from], lead(back).id)
           tail(back) == Tail(Reverse(other(back).chain[lead(back).id]))
           through(back) == IF back THEN reached(back) \o tail(back)
                            ELSE other(back).chain[lead(back).id] \o Tail(Reverse(reached(back)))
           on(back) == [s EXCEPT !.back = IF back THEN Longer(b, new(back)) ELSE b,
                                 !.fwd = IF back THEN f ELSE Longer(f, new(back)),
                                 !.visited = @ + Len(new(back))]
           Next(back) == IF stops(back) = {} THEN on(back)
                         ELSE IF Meets(other(back), lead(back)) THEN [s EXCEPT !.end = Ended("found", through(back))]
                         ELSE [s EXCEPT !.end = Ended("exhausted", <<>>)]
           newB == NewOn(b, Onward(db, TRUE, b.level))
           newF == NewOn(f, Onward(db, FALSE, f.level))
           leadB == newB[Min(Stops(f, newB, s.visited, budget))]
           leadF == newF[Min(Stops(b, newF, s.visited, budget))]
           onB == [s EXCEPT !.back = Longer(b, newB), !.fwd = f, !.visited = @ + Len(newB)]
           onF == [s EXCEPT !.back = b, !.fwd = Longer(f, newF), !.visited = @ + Len(newF)]
           wayB == Spliced(Append(b.chain[leadB.from], leadB.id), f.chain[leadB.id])
           wayF == Spliced(b.chain[leadF.id], Append(f.chain[leadF.from], leadF.id))
<1>1. then = Next(picked)
  BY Zenon DEF ExpandLevel
<1>2. CASE picked
  <2>1. picked = TRUE
    BY <1>2
  <2> HIDE DEF picked, Next, then
  <2>2. then = Next(TRUE)
    BY <1>1, <2>1
  <2>3. new(TRUE) = newB /\ other(TRUE) = f /\ side(TRUE) = b
    OBVIOUS
  <2> HIDE DEF new, newB, b, f
  <2>4. stops(TRUE) = Stops(f, newB, s.visited, budget)
    BY <2>3
  <2>5. lead(TRUE) = leadB
    BY <2>3, <2>4
  <2> HIDE DEF stops, lead, leadB
  <2>6. reached(TRUE) = Append(b.chain[leadB.from], leadB.id)
    BY <2>3, <2>5
  <2> HIDE DEF reached
  <2>7. through(TRUE) = wayB
    BY <2>3, <2>5, <2>6 DEF Spliced
  <2>8. on(TRUE) = onB
    BY <2>3
  <2> HIDE DEF through, on, wayB, onB, other, side
  <2>9. then = IF Stops(f, newB, s.visited, budget) = {} THEN onB
               ELSE IF Meets(f, leadB) THEN [s EXCEPT !.end = Ended("found", wayB)]
               ELSE [s EXCEPT !.end = Ended("exhausted", <<>>)]
    BY <2>2, <2>3, <2>4, <2>5, <2>7, <2>8 DEF Next
  <2>10. LevelEnds(s, newB, f, budget, then, onB, wayB)
    BY <2>9 DEF LevelEnds, leadB
  <2> QED
    BY <2>10, Zenon DEF BackTurn, then, newB, onB, wayB, leadB, b, f
<1>3. CASE ~picked
  <2>1. picked = FALSE
    BY <1>3
  <2> HIDE DEF picked, Next, then
  <2>2. then = Next(FALSE)
    BY <1>1, <2>1
  <2>3. new(FALSE) = newF /\ other(FALSE) = b /\ side(FALSE) = f
    OBVIOUS
  <2> HIDE DEF new, newF, b, f
  <2>4. stops(FALSE) = Stops(b, newF, s.visited, budget)
    BY <2>3
  <2>5. lead(FALSE) = leadF
    BY <2>3, <2>4
  <2> HIDE DEF stops, lead, leadF
  <2>6. reached(FALSE) = Append(f.chain[leadF.from], leadF.id)
    BY <2>3, <2>5
  <2> HIDE DEF reached
  <2>7. through(FALSE) = wayF
    BY <2>3, <2>5, <2>6 DEF Spliced
  <2>8. on(FALSE) = onF
    BY <2>3
  <2> HIDE DEF through, on, wayF, onF, other, side
  <2>9. then = IF Stops(b, newF, s.visited, budget) = {} THEN onF
               ELSE IF Meets(b, leadF) THEN [s EXCEPT !.end = Ended("found", wayF)]
               ELSE [s EXCEPT !.end = Ended("exhausted", <<>>)]
    BY <2>2, <2>3, <2>4, <2>5, <2>7, <2>8 DEF Next
  <2>10. LevelEnds(s, newF, b, budget, then, onF, wayF)
    BY <2>9 DEF LevelEnds, leadF
  <2> QED
    BY <2>10, Zenon DEF FwdTurn, then, newF, onF, wayF, leadF, b, f
<1> HIDE DEF picked
<1> QED
  BY <1>2, <1>3

-----------------------------------------------------------------------------
(* One level of either side.                                               *)

\* A level of the back side: it grows, or it meets the other one, or the budget ends.
LEMMA BackStep ==
    ASSUME NEW j, IsSearch(j), NEW n \in Nat, n < j.max, NEW s, DOMAIN s = {"back", "fwd", "visited", "end"},
           Apart(j, n, s), s.back.depth + s.fwd.depth = n, s.end.how = "none", NEW budget, NEW then,
           BackTurn(j.db, s, budget, then)
    PROVE  Searched(j, n + 1, then)
<1> DEFINE b == s.back
           f == s.fwd
           d == b.depth
           e == f.depth
           new == NewOn(b, Onward(j.db, TRUE, b.level))
           stops == Stops(f, new, s.visited, budget)
           lead == new[Min(stops)]
           on == [s EXCEPT !.back = Longer(b, new), !.fwd = f, !.visited = @ + Len(new)]
           P == Append(b.chain[lead.from], lead.id)
           Q == f.chain[lead.id]
<1>1. /\ SideOk(BackOf(j.db), j.B, j.from, j.max, b) /\ SideOk(FwdOf(j.db), j.F, j.to, j.max, f)
      /\ j.B[d] \cap j.F[e] = {}
  BY DEF Apart
<1>2. Rings(BackOf(j.db), j.B, j.from, j.max) /\ Rings(FwdOf(j.db), j.F, j.to, j.max) /\ j.max \in Nat
  BY DEF IsSearch
<1>3. d \in 0 .. j.max /\ e \in 0 .. j.max /\ d + e = n /\ d < j.max /\ d + e < j.max
  <2>1. d \in 0 .. j.max /\ e \in 0 .. j.max
    BY <1>1 DEF SideOk
  <2>2. d + e = n
    <3>1. d + e = n
      OBVIOUS
    <3> HIDE DEF d, e
    <3> QED
      BY <2>1, <3>1
  <2> HIDE DEF d, e
  <2> QED
    BY <1>2, <2>1, <2>2
<1>4. Finds(BackOf(j.db), j.B, j.from, j.max, b, new)
  <2>1. Sees(j.db, TRUE, BackOf(j.db))
    BY SidesSee DEF IsSearch
  <2> HIDE DEF new, b, f
  <2> QED
    BY <1>1, <1>2, <1>3, <2>1, SideFinds DEF new
<1>5. DOMAIN f.chain = j.F[e]
  BY <1>1 DEF SideOk
<1>6. stops \in SUBSET Nat /\ stops \in SUBSET DOMAIN new
  <2>1. new \in Seq(LeadRecords)
    BY <1>4 DEF Finds
  <2> HIDE DEF new
  <2>2. DOMAIN new \subseteq Nat
    BY <2>1
  <2> QED
    BY <2>2 DEF Stops
<1>7. LevelEnds(s, new, f, budget, then, on, Spliced(P, Q))
  BY Zenon DEF BackTurn
<1>8. CASE stops = {} /\ then = on
  <2>1. \A k \in DOMAIN new : new[k].id \notin j.F[e]
    <3> SUFFICES ASSUME NEW k \in DOMAIN new, new[k].id \in j.F[e] PROVE FALSE
      OBVIOUS
    <3> HIDE DEF new
    <3>1. k \in stops
      BY <1>5 DEF Stops, Meets
    <3> QED
      BY <1>8, <3>1
  <2>2. SideOk(BackOf(j.db), j.B, j.from, j.max, Longer(b, new)) /\ Longer(b, new).depth = d + 1
    <3> HIDE DEF new, b, f
    <3> QED
      BY <1>1, <1>2, <1>4, SideGrows
  <2>3. /\ then.back = Longer(b, new) /\ then.fwd = f /\ then.end = s.end
        /\ DOMAIN then = {"back", "fwd", "visited", "end"}
    <3> HIDE DEF new
    <3> QED
      BY <1>8
  <2>4. j.B[d + 1] \cap j.F[e] = {}
    <3>1. \A x \in j.B[d + 1] : x \in j.B[d] \/ \E k \in DOMAIN new : new[k].id = x
      BY <1>4 DEF Finds
    <3> HIDE DEF new, d, e
    <3> QED
      BY <1>1, <2>1, <3>1
  <2>5. then.back.depth = d + 1 /\ then.fwd.depth = e
    BY <2>2, <2>3
  <2>6. (d + 1) + e = n + 1 /\ e + (d + 1) = n + 1
    BY <1>3
  <2> HIDE DEF new, d, e, b, f, on
  <2>7. Apart(j, n + 1, then)
    <3>1. then.back.depth + then.fwd.depth = n + 1
      BY <2>5, <2>6
    <3>2. j.B[then.back.depth] \cap j.F[then.fwd.depth] = {}
      BY <2>4, <2>5
    <3>3. SideOk(BackOf(j.db), j.B, j.from, j.max, then.back) /\ SideOk(FwdOf(j.db), j.F, j.to, j.max, then.fwd)
      BY <1>1, <2>2, <2>3
    <3>4. then.back.depth + then.fwd.depth <= n + 1
      BY <3>1
    <3> QED
      BY <3>1, <3>2, <3>3, <3>4, Zenon DEF Apart
  <2> QED
    BY <2>3, <2>7 DEF Searched
<1>9. CASE stops # {} /\ Meets(f, lead) /\ then = [s EXCEPT !.end = Ended("found", Spliced(P, Q))]
  <2>1. Min(stops) \in stops
    <3> HIDE DEF stops
    <3> QED
      BY <1>6, <1>9, LeastIs
  <2> DEFINE k == Min(stops)
  <2>2. k \in DOMAIN new /\ lead = new[k]
    BY <1>6, <2>1
  <2> HIDE DEF k
  <2>3. lead.id \in j.F[e]
    <3> HIDE DEF lead, b, f, e
    <3> QED
      BY <1>5, <1>9 DEF Meets
  <2>4. Shortest(BackOf(j.db), j.B, j.from, lead.id, P) /\ Len(P) = d + 2
    <3> HIDE DEF new, lead
    <3> QED
      BY <1>4, <2>2 DEF Finds
  <2>5. Shortest(FwdOf(j.db), j.F, j.to, lead.id, Q) /\ Len(Q) - 1 \in 0 .. e
    <3> HIDE DEF lead, new
    <3> QED
      BY <1>1, <2>3 DEF SideOk
  <2> HIDE DEF lead, new, P, Q, stops
  <2>6. Len(Q) \in Nat
    BY <2>5 DEF Shortest
  <2>7. Len(P) + Len(Q) <= d + e + 3
    <3> DEFINE p == Len(P)
               q == Len(Q)
    <3>1. d \in Nat /\ e \in Nat
      BY <1>3
    <3>2. p = d + 2 /\ q \in Nat /\ q - 1 \in 0 .. e
      BY <2>4, <2>5, <2>6
    <3> HIDE DEF d, e, p, q
    <3>3. p + q <= d + e + 3
      BY <3>1, <3>2
    <3> QED
      BY <3>3 DEF p, q
  <2>8. Connects(j, Spliced(P, Q))
    <3>1. d \in Nat /\ e \in Nat /\ d + e < j.max /\ j.B[d] \cap j.F[e] = {}
      BY <1>1, <1>3
    <3> HIDE DEF d, e
    <3> QED
      BY <2>4, <2>5, <2>7, <3>1, MeetingConnects
  <2>9. then.end = Ended("found", Spliced(P, Q)) /\ DOMAIN then = {"back", "fwd", "visited", "end"}
    BY <1>9
  <2> QED
    BY <2>8, <2>9 DEF Searched, Ended
<1>10. CASE then = [s EXCEPT !.end = Ended("exhausted", <<>>)]
  <2>1. then.end = Ended("exhausted", <<>>) /\ DOMAIN then = {"back", "fwd", "visited", "end"}
    BY <1>10
  <2> QED
    BY <2>1 DEF Searched, Ended
<1> HIDE DEF new, P, Q, on, b, f
<1> QED
  BY <1>7, <1>8, <1>9, <1>10 DEF LevelEnds

\* A level of the forward side: it grows, or it meets the other one, or the budget ends.
LEMMA FwdStep ==
    ASSUME NEW j, IsSearch(j), NEW n \in Nat, n < j.max, NEW s, DOMAIN s = {"back", "fwd", "visited", "end"},
           Apart(j, n, s), s.back.depth + s.fwd.depth = n, s.end.how = "none", NEW budget, NEW then,
           FwdTurn(j.db, s, budget, then)
    PROVE  Searched(j, n + 1, then)
<1> DEFINE b == s.back
           f == s.fwd
           d == f.depth
           e == b.depth
           new == NewOn(f, Onward(j.db, FALSE, f.level))
           stops == Stops(b, new, s.visited, budget)
           lead == new[Min(stops)]
           on == [s EXCEPT !.back = b, !.fwd = Longer(f, new), !.visited = @ + Len(new)]
           P == b.chain[lead.id]
           Q == Append(f.chain[lead.from], lead.id)
<1>1. /\ SideOk(FwdOf(j.db), j.F, j.to, j.max, f) /\ SideOk(BackOf(j.db), j.B, j.from, j.max, b)
      /\ j.F[d] \cap j.B[e] = {}
  BY DEF Apart
<1>2. Rings(FwdOf(j.db), j.F, j.to, j.max) /\ Rings(BackOf(j.db), j.B, j.from, j.max) /\ j.max \in Nat
  BY DEF IsSearch
<1>3. d \in 0 .. j.max /\ e \in 0 .. j.max /\ d + e = n /\ d < j.max /\ d + e < j.max
  <2>1. d \in 0 .. j.max /\ e \in 0 .. j.max
    BY <1>1 DEF SideOk
  <2>2. d + e = n
    <3>1. e + d = n
      OBVIOUS
    <3> HIDE DEF d, e
    <3> QED
      BY <2>1, <3>1
  <2> HIDE DEF d, e
  <2> QED
    BY <1>2, <2>1, <2>2
<1>4. Finds(FwdOf(j.db), j.F, j.to, j.max, f, new)
  <2>1. Sees(j.db, FALSE, FwdOf(j.db))
    BY SidesSee DEF IsSearch
  <2> HIDE DEF new, b, f
  <2> QED
    BY <1>1, <1>2, <1>3, <2>1, SideFinds DEF new
<1>5. DOMAIN b.chain = j.B[e]
  BY <1>1 DEF SideOk
<1>6. stops \in SUBSET Nat /\ stops \in SUBSET DOMAIN new
  <2>1. new \in Seq(LeadRecords)
    BY <1>4 DEF Finds
  <2> HIDE DEF new
  <2>2. DOMAIN new \subseteq Nat
    BY <2>1
  <2> QED
    BY <2>2 DEF Stops
<1>7. LevelEnds(s, new, b, budget, then, on, Spliced(P, Q))
  BY Zenon DEF FwdTurn
<1>8. CASE stops = {} /\ then = on
  <2>1. \A k \in DOMAIN new : new[k].id \notin j.B[e]
    <3> SUFFICES ASSUME NEW k \in DOMAIN new, new[k].id \in j.B[e] PROVE FALSE
      OBVIOUS
    <3> HIDE DEF new
    <3>1. k \in stops
      BY <1>5 DEF Stops, Meets
    <3> QED
      BY <1>8, <3>1
  <2>2. SideOk(FwdOf(j.db), j.F, j.to, j.max, Longer(f, new)) /\ Longer(f, new).depth = d + 1
    <3> HIDE DEF new, b, f
    <3> QED
      BY <1>1, <1>2, <1>4, SideGrows
  <2>3. /\ then.back = b /\ then.fwd = Longer(f, new) /\ then.end = s.end
        /\ DOMAIN then = {"back", "fwd", "visited", "end"}
    <3> HIDE DEF new
    <3> QED
      BY <1>8
  <2>4. j.F[d + 1] \cap j.B[e] = {}
    <3>1. \A x \in j.F[d + 1] : x \in j.F[d] \/ \E k \in DOMAIN new : new[k].id = x
      BY <1>4 DEF Finds
    <3> HIDE DEF new, d, e
    <3> QED
      BY <1>1, <2>1, <3>1
  <2>5. then.back.depth = e /\ then.fwd.depth = d + 1
    BY <2>2, <2>3
  <2>6. (d + 1) + e = n + 1 /\ e + (d + 1) = n + 1
    BY <1>3
  <2> HIDE DEF new, d, e, b, f, on
  <2>7. Apart(j, n + 1, then)
    <3>1. then.back.depth + then.fwd.depth = n + 1
      BY <2>5, <2>6
    <3>2. j.B[then.back.depth] \cap j.F[then.fwd.depth] = {}
      BY <2>4, <2>5
    <3>3. SideOk(BackOf(j.db), j.B, j.from, j.max, then.back) /\ SideOk(FwdOf(j.db), j.F, j.to, j.max, then.fwd)
      BY <1>1, <2>2, <2>3
    <3>4. then.back.depth + then.fwd.depth <= n + 1
      BY <3>1
    <3> QED
      BY <3>1, <3>2, <3>3, <3>4, Zenon DEF Apart
  <2> QED
    BY <2>3, <2>7 DEF Searched
<1>9. CASE stops # {} /\ Meets(b, lead) /\ then = [s EXCEPT !.end = Ended("found", Spliced(P, Q))]
  <2>1. Min(stops) \in stops
    <3> HIDE DEF stops
    <3> QED
      BY <1>6, <1>9, LeastIs
  <2> DEFINE k == Min(stops)
  <2>2. k \in DOMAIN new /\ lead = new[k]
    BY <1>6, <2>1
  <2> HIDE DEF k
  <2>3. lead.id \in j.B[e]
    <3> HIDE DEF lead, b, f, e
    <3> QED
      BY <1>5, <1>9 DEF Meets
  <2>4. Shortest(FwdOf(j.db), j.F, j.to, lead.id, Q) /\ Len(Q) = d + 2
    <3> HIDE DEF new, lead
    <3> QED
      BY <1>4, <2>2 DEF Finds
  <2>5. Shortest(BackOf(j.db), j.B, j.from, lead.id, P) /\ Len(P) - 1 \in 0 .. e
    <3> HIDE DEF lead, new
    <3> QED
      BY <1>1, <2>3 DEF SideOk
  <2> HIDE DEF lead, new, P, Q, stops
  <2>6. Len(P) \in Nat
    BY <2>5 DEF Shortest
  <2>7. Len(P) + Len(Q) <= e + d + 3
    <3> DEFINE p == Len(P)
               q == Len(Q)
    <3>1. d \in Nat /\ e \in Nat
      BY <1>3
    <3>2. q = d + 2 /\ p \in Nat /\ p - 1 \in 0 .. e
      BY <2>4, <2>5, <2>6
    <3> HIDE DEF d, e, p, q
    <3>3. p + q <= e + d + 3
      BY <3>1, <3>2
    <3> QED
      BY <3>3 DEF p, q
  <2>8. Connects(j, Spliced(P, Q))
    <3>1. e \in Nat /\ d \in Nat /\ e + d < j.max /\ j.B[e] \cap j.F[d] = {}
      BY <1>1, <1>3
    <3> HIDE DEF d, e
    <3> QED
      BY <2>4, <2>5, <2>7, <3>1, MeetingConnects
  <2>9. then.end = Ended("found", Spliced(P, Q)) /\ DOMAIN then = {"back", "fwd", "visited", "end"}
    BY <1>9
  <2> QED
    BY <2>8, <2>9 DEF Searched, Ended
<1>10. CASE then = [s EXCEPT !.end = Ended("exhausted", <<>>)]
  <2>1. then.end = Ended("exhausted", <<>>) /\ DOMAIN then = {"back", "fwd", "visited", "end"}
    BY <1>10
  <2> QED
    BY <2>1 DEF Searched, Ended
<1> HIDE DEF new, P, Q, on, b, f
<1> QED
  BY <1>7, <1>8, <1>9, <1>10 DEF LevelEnds

-----------------------------------------------------------------------------
(* The search from its start to its end.                                   *)

\* What a list of references means by hops is what the back side of a search does.
LEMMA WithinRings ==
    ASSUME NEW db, IsGraph(db), NEW from \in Nat, NEW max \in Nat
    PROVE  Rings(BackOf(db), Within(db, {from}, max), from, max)
<1> DEFINE W == Within(db, {from}, max)
<1>1. Levels(db, W, {from}, max)
  BY WithinIs
<1>2. Forms(db) \subseteq Nat
  BY DEF Forms, ToSet, IsGraph
<1> HIDE DEF W
<1>3. W \in [0 .. max -> SUBSET Nat] /\ W[0] = {from}
  <2>1. W \in [0 .. max -> SUBSET ({from} \cup Forms(db))] /\ W[0] = {from}
    BY <1>1 DEF Levels
  <2>2. {from} \cup Forms(db) \subseteq Nat
    BY <1>2
  <2> QED
    BY <2>1, <2>2
<1>4. ASSUME NEW T \in SUBSET Nat PROVE NextTo(db, T) = UNION {BackOf(db)[x] : x \in T}
  <2>1. \A x \in T : BackOf(db)[x] = NextTo(db, {x})
    BY DEF BackOf, Naming
  <2>2. NextTo(db, T) \subseteq UNION {BackOf(db)[x] : x \in T}
    <3> SUFFICES ASSUME NEW r \in NextTo(db, T) PROVE \E x \in T : r \in BackOf(db)[x]
      OBVIOUS
    <3>1. PICK x \in T : r \in NextTo(db, {x})
      BY DEF NextTo
    <3> QED
      BY <2>1, <3>1
  <2>3. \A x \in T : NextTo(db, {x}) \subseteq NextTo(db, T)
    BY DEF NextTo
  <2> QED
    BY <2>1, <2>2, <2>3
<1>5. \A n \in 1 .. max : W[n] = W[n - 1] \cup UNION {BackOf(db)[x] : x \in W[n - 1]}
  <2> TAKE n \in 1 .. max
  <2>1. W[n] = W[n - 1] \cup NextTo(db, W[n - 1])
    BY <1>1 DEF Levels
  <2>2. W[n - 1] \in SUBSET Nat
    BY <1>3
  <2> QED
    BY <1>4, <2>1, <2>2
<1>6. BackOf(db) \in [Nat -> SUBSET Nat]
  BY SidesSee DEF Sees
<1>7. Rings(BackOf(db), W, from, max)
  BY <1>3, <1>5, <1>6 DEF Rings
<1> QED
  BY <1>7 DEF W

\* What a search starts with: both sides are at their ends.
LEMMA SearchStarts ==
    ASSUME NEW j, IsSearch(j), j.from # j.to
    PROVE  Searched(j, 0, [back |-> SideOf(j.from), fwd |-> SideOf(j.to), visited |-> 2, end |-> Ended("none", <<>>)])
<1> DEFINE s == [back |-> SideOf(j.from), fwd |-> SideOf(j.to), visited |-> 2, end |-> Ended("none", <<>>)]
<1>1. Rings(BackOf(j.db), j.B, j.from, j.max) /\ Rings(FwdOf(j.db), j.F, j.to, j.max)
  BY DEF IsSearch
<1>2. SideOk(BackOf(j.db), j.B, j.from, j.max, SideOf(j.from)) /\ SideOk(FwdOf(j.db), j.F, j.to, j.max, SideOf(j.to))
  BY <1>1, SideStarts
<1>3. SideOf(j.from).depth = 0 /\ SideOf(j.to).depth = 0
  BY DEF SideOf
<1>4. j.B[0] = {j.from} /\ j.F[0] = {j.to}
  BY <1>1 DEF Rings
<1>5. /\ s.back = SideOf(j.from) /\ s.fwd = SideOf(j.to) /\ s.end.how = "none"
      /\ DOMAIN s = {"back", "fwd", "visited", "end"}
  BY DEF Ended
<1> HIDE DEF s
<1>6. Apart(j, 0, s)
  BY <1>2, <1>3, <1>4, <1>5 DEF Apart
<1>7. Searched(j, 0, s)
  BY <1>5, <1>6 DEF Searched
<1> QED
  BY <1>7 DEF s

\* A step of a search.
StepOn(db, s, budget) ==
    IF s.end.how # "none" \/ (s.back.level = <<>> /\ s.fwd.level = <<>>) THEN s ELSE ExpandLevel(db, s, budget)

LEMMA SearchSteps ==
    ASSUME NEW j, IsSearch(j), NEW n \in Nat, n < j.max, NEW s, Searched(j, n, s), NEW budget
    PROVE  Searched(j, n + 1, StepOn(j.db, s, budget))
<1> DEFINE d == s.back.depth + s.fwd.depth
           dry == s.back.level = <<>> /\ s.fwd.level = <<>>
<1>1. DOMAIN s = {"back", "fwd", "visited", "end"} /\ (s.end.how = "none" => Apart(j, n, s))
  BY DEF Searched
<1>2. CASE s.end.how # "none"
  BY <1>2 DEF Searched, StepOn
<1>3. CASE s.end.how = "none" /\ dry
  <2>1. StepOn(j.db, s, budget) = s
    BY <1>3 DEF StepOn
  <2>2. Apart(j, n + 1, s)
    <3>1. Apart(j, n, s)
      BY <1>1, <1>3
    <3>2. d <= n + 1
      <4>1. d <= n /\ s.back.depth \in 0 .. j.max /\ s.fwd.depth \in 0 .. j.max
        BY <3>1 DEF Apart, SideOk
      <4> QED
        BY <4>1
    <3> QED
      BY <1>3, <3>1, <3>2 DEF Apart
  <2> QED
    BY <2>1, <2>2 DEF Searched
<1>4. CASE s.end.how = "none" /\ ~dry
  <2>1. StepOn(j.db, s, budget) = ExpandLevel(j.db, s, budget)
    BY <1>4 DEF StepOn
  <2>2. Apart(j, n, s) /\ d = n
    BY <1>1, <1>4 DEF Apart
  <2> DEFINE then == ExpandLevel(j.db, s, budget)
  <2> HIDE DEF then
  <2>3. CASE BackTurn(j.db, s, budget, then)
    BY <1>1, <1>4, <2>1, <2>2, <2>3, BackStep DEF then
  <2>4. CASE FwdTurn(j.db, s, budget, then)
    BY <1>1, <1>4, <2>1, <2>2, <2>4, FwdStep DEF then
  <2> QED
    BY <2>3, <2>4, ExpandIs DEF then
<1> QED
  BY <1>2, <1>3, <1>4

\* A whole search.
LEMMA PathSearchIs ==
    ASSUME NEW j, IsSearch(j), j.from # j.to, NEW budget
    PROVE  \E s : Searched(j, j.max, s) /\ SearchPath(j.db, j.from, j.to, j.max, budget) = s.end
<1> DEFINE start == [back |-> SideOf(j.from), fwd |-> SideOf(j.to), visited |-> 2, end |-> Ended("none", <<>>)]
           More(s) == StepOn(j.db, s, budget)
           max == j.max
           Is(f) == f = [n \in 0 .. max |-> IF n = 0 THEN start ELSE More(f[n - 1])]
           search == CHOOSE f : Is(f)
<1>1. SearchPath(j.db, j.from, j.to, max, budget) = search[max].end
  BY Zenon DEF SearchPath, StepOn
<1>2. max \in Nat
  BY DEF IsSearch
<1>3. Searched(j, 0, start)
  BY SearchStarts
<1>4. \A n \in Nat : \A s : n < max /\ Searched(j, n, s) => Searched(j, n + 1, More(s))
  BY SearchSteps
<1> HIDE DEF start, More, max
<1> DEFINE Reached(m) == \E f : f = [n \in 0 .. m |-> IF n = 0 THEN start ELSE More(f[n - 1])]
           missing == {m \in 0 .. max : ~Reached(m)}
<1>5. Reached(0)
  <2> DEFINE f == [n \in 0 .. 0 |-> start]
  <2>1. f = [n \in 0 .. 0 |-> IF n = 0 THEN start ELSE More(f[n - 1])]
    OBVIOUS
  <2> QED
    BY <2>1
<1>6. ASSUME NEW m \in 1 .. max, Reached(m - 1) PROVE Reached(m)
  <2>1. PICK f : f = [n \in 0 .. m - 1 |-> IF n = 0 THEN start ELSE More(f[n - 1])]
    BY <1>6
  <2> DEFINE h == [n \in 0 .. m |-> IF n = m THEN More(f[m - 1]) ELSE f[n]]
  <2>2. \A n \in 0 .. m : h[n] = IF n = 0 THEN start ELSE More(h[n - 1])
    <3> TAKE n \in 0 .. m
    <3>1. CASE n = m
      <4>1. h[n - 1] = f[m - 1] /\ n # 0 /\ h[n] = More(f[m - 1])
        BY <1>2, <3>1
      <4> QED
        BY <4>1
    <3>2. CASE n # m
      <4>1. n \in 0 .. m - 1 /\ h[n] = f[n]
        BY <1>2, <3>2
      <4>2. n # 0 => h[n - 1] = f[n - 1]
        BY <1>2, <3>2
      <4>3. f[n] = IF n = 0 THEN start ELSE More(f[n - 1])
        BY <2>1, <4>1
      <4> QED
        BY <4>1, <4>2, <4>3
    <3> QED
      BY <3>1, <3>2
  <2>3. h = [n \in 0 .. m |-> h[n]]
    OBVIOUS
  <2> HIDE DEF h
  <2>4. h = [n \in 0 .. m |-> IF n = 0 THEN start ELSE More(h[n - 1])]
    BY <2>2, <2>3
  <2> QED
    BY <2>4
<1> HIDE DEF Reached
<1>7. missing = {}
  <2> SUFFICES ASSUME missing # {} PROVE FALSE
    OBVIOUS
  <2>1. missing \in SUBSET Nat
    OBVIOUS
  <2>2. PICK m \in missing : \A n \in missing : m <= n
    <3> HIDE DEF missing
    <3> QED
      BY <2>1, LeastOf
  <2>3. m \in 1 .. max /\ m - 1 \in 0 .. max /\ m - 1 \notin missing
    BY <1>2, <1>5, <2>2
  <2> QED
    BY <1>6, <2>2, <2>3
<1>8. Is(search)
  <2>1. Reached(max)
    BY <1>2, <1>7
  <2>2. \E f : Is(f)
    BY <2>1 DEF Reached
  <2> HIDE DEF Is
  <2> QED
    BY <2>2
<1>9. \A n \in 0 .. max : search[n] = IF n = 0 THEN start ELSE More(search[n - 1])
  <2> HIDE DEF search
  <2> QED
    BY <1>8
<1> HIDE DEF search
<1> DEFINE bad == {n \in 0 .. max : ~Searched(j, n, search[n])}
<1>10. bad = {}
  <2> SUFFICES ASSUME bad # {} PROVE FALSE
    OBVIOUS
  <2>1. PICK m \in bad : \A n \in bad : m <= n
    <3>1. bad \in SUBSET Nat
      OBVIOUS
    <3> HIDE DEF bad
    <3> QED
      BY <3>1, LeastOf
  <2>2. m # 0
    BY <1>2, <1>3, <1>9, <2>1
  <2>3. m - 1 \in 0 .. max /\ m - 1 \notin bad /\ m - 1 \in Nat /\ m - 1 < max /\ (m - 1) + 1 = m /\ m \in 0 .. max
    BY <1>2, <2>1, <2>2
  <2>4. Searched(j, m - 1, search[m - 1]) /\ search[m] = More(search[m - 1])
    BY <1>9, <2>2, <2>3
  <2>5. Searched(j, (m - 1) + 1, More(search[m - 1]))
    BY <1>4, <2>3, <2>4
  <2> QED
    BY <2>1, <2>3, <2>4, <2>5
<1>11. Searched(j, max, search[max])
  BY <1>2, <1>10
<1> QED
  BY <1>1, <1>11 DEF max

\* Without an end: either all hops are used, or nothing is left to go on with.
LEMMA NoneIsNone ==
    ASSUME NEW j, IsSearch(j), NEW s, Apart(j, j.max, s)
    PROVE  j.to \notin j.B[j.max]
<1> DEFINE b == s.back.depth
           f == s.fwd.depth
           max == j.max
<1>1. Rings(BackOf(j.db), j.B, j.from, max) /\ Rings(FwdOf(j.db), j.F, j.to, max) /\ max \in Nat
  BY DEF IsSearch
<1>2. /\ SideOk(BackOf(j.db), j.B, j.from, max, s.back) /\ SideOk(FwdOf(j.db), j.F, j.to, max, s.fwd)
      /\ j.B[b] \cap j.F[f] = {} /\ (b + f = max \/ (s.back.level = <<>> /\ s.fwd.level = <<>>))
  BY DEF Apart
<1>3. b \in 0 .. max /\ f \in 0 .. max
  BY <1>2 DEF SideOk
<1>4. CASE b + f = max
  <2>1. j.B[b] \cap j.F[f] = {}
    BY <1>2
  <2> HIDE DEF b, f
  <2>2. b \in Nat /\ f \in Nat /\ b + f \in 0 .. j.max /\ b + f = j.max
    BY <1>1, <1>3, <1>4 DEF max
  <2>3. j.to \in j.B[b + f] => FALSE
    BY <2>1, <2>2, WaysSplit
  <2> QED
    BY <2>2, <2>3
<1>5. CASE s.back.level = <<>>
  <2>1. \A x \in j.B[b] : ~AtHops(j.B, b, x)
    <3>1. ToSet(s.back.level) = {x \in j.B[b] : AtHops(j.B, b, x)}
      BY <1>2 DEF SideOk
    <3>2. ToSet(s.back.level) = {}
      BY <1>5 DEF ToSet
    <3> QED
      BY <3>1, <3>2
  <2>2. j.to \notin j.B[b]
    <3>1. j.F[0] = {j.to}
      BY <1>1 DEF Rings
    <3> HIDE DEF b, f, max
    <3>2. 0 \in 0 .. max /\ 0 <= f
      BY <1>1, <1>3
    <3>3. j.F[0] \subseteq j.F[f]
      BY <1>1, <1>3, <3>2, RingsGrow
    <3> QED
      BY <1>2, <3>1, <3>3
  <2> HIDE DEF b, f, max
  <2> SUFFICES ASSUME j.to \in j.B[max] PROVE FALSE
    BY DEF max
  <2> DEFINE later == {n \in 0 .. max : n > b /\ \E x \in j.B[n] : AtHops(j.B, n, x)}
  <2>3. PICK m \in 0 .. max : AtHops(j.B, m, j.to)
    BY <1>1, RingsGrow
  <2>4. m \in later
    <3>1. j.to \in j.B[m]
      BY <2>3 DEF AtHops
    <3>2. ~(m <= b)
      BY <1>1, <1>3, <2>2, <3>1, RingsGrow
    <3> QED
      BY <1>3, <2>3, <3>1, <3>2
  <2>5. PICK k \in later : \A n \in later : k <= n
    <3>1. later \in SUBSET Nat /\ later # {}
      BY <2>4
    <3> HIDE DEF later
    <3> QED
      BY <3>1, LeastOf
  <2>6. PICK y \in j.B[k] : AtHops(j.B, k, y)
    BY <2>5
  <2>7. k \in 1 .. max /\ k - 1 \in 0 .. max /\ k - 1 >= b
    BY <1>1, <1>3, <2>5
  <2>8. PICK x \in j.B[k - 1] : AtHops(j.B, k - 1, x)
    BY <1>1, <2>6, <2>7, RingBefore
  <2>9. k - 1 # b
    BY <2>1, <2>8
  <2>10. k - 1 \in later /\ ~(k <= k - 1)
    BY <1>3, <2>7, <2>8, <2>9
  <2> HIDE DEF later
  <2> QED
    BY <2>5, <2>10
<1> QED
  BY <1>2, <1>4, <1>5

-----------------------------------------------------------------------------
(* The request for a path.                                                 *)

\* A request for a path: of a reference graph, from a form that exists.
IsPathRequest(q) ==
    IsGraph(q.db) /\ q.from \in Nat /\ q.from \in Defined(q.db) /\ q.to \in Nat /\ q.hops \in Nat

HopsAsked(q) == IF q.hops = 0 THEN DefaultHops ELSE q.hops

\* What is found is a way from end to end, and no shorter one was missed.
LEMMA PathHolds ==
    ASSUME NEW q, IsPathRequest(q)
    PROVE  PathIsShortest(q, FindRefPath(q.db, q.from, q.to, q.hops, DefaultHops, q.budget))
<1> DEFINE hops == HopsAsked(q)
           within == Within(q.db, {q.from}, hops)
           out == FindRefPath(q.db, q.from, q.to, q.hops, DefaultHops, q.budget)
           found == /\ out.chain[1] = q.from /\ Last(out.chain) = q.to
                    /\ IsChain(q.db, out.chain) /\ AtHops(within, Len(out.chain) - 1, q.to)
<1> SUFFICES PathIsShortest(q, out)
  OBVIOUS
<1>1. hops \in Nat
  BY DEF IsPathRequest, HopsAsked, DefaultHops
<1>2. IsGraph(q.db) /\ q.from \in Nat /\ q.from \in Defined(q.db) /\ q.to \in Nat
  BY DEF IsPathRequest
<1>3. Rings(BackOf(q.db), within, q.from, hops)
  BY <1>1, <1>2, WithinRings
<1>4. PathIsShortest(q, out) =
        CASE out.how = "found" -> found [] out.how = "none" -> q.to \notin within[hops] [] OTHER -> out.how = "exhausted"
  BY Zenon DEF PathIsShortest, HopsAsked
<1> HIDE DEF out, within, hops
<1>8. ASSUME out.how = "found", found PROVE PathIsShortest(q, out)
  <2> HIDE DEF found
  <2>1. found = TRUE
    BY <1>8
  <2>2. PathIsShortest(q, out) = found
    BY <1>4, <1>8
  <2> QED
    BY <2>1, <2>2
<1>9. ASSUME out.how = "none", q.to \notin within[hops] PROVE PathIsShortest(q, out)
  <2> HIDE DEF found
  <2>1. out.how # "found"
    BY <1>9
  <2>2. PathIsShortest(q, out) = (q.to \notin within[hops])
    BY <1>4, <1>9, <2>1
  <2> QED
    BY <1>9, <2>2
<1>10. ASSUME out.how = "exhausted" PROVE PathIsShortest(q, out)
  <2> HIDE DEF found
  <2>1. out.how # "found" /\ out.how # "none"
    BY <1>10
  <2>2. PathIsShortest(q, out) = (out.how = "exhausted")
    BY <1>4, <1>10, <2>1
  <2> QED
    BY <1>10, <2>2
<1>5. out = IF q.from = q.to THEN Ended("found", <<q.from>>)
            ELSE SearchPath(q.db, q.from, q.to, hops, q.budget)
  BY Zenon DEF FindRefPath, HopsAsked, out, hops
<1>6. CASE q.from = q.to
  <2> DEFINE ch == <<q.from>>
  <2>1. out.how = "found" /\ out.chain = ch
    BY <1>5, <1>6 DEF Ended
  <2>2. Len(ch) = 1 /\ ch[1] = q.from
    OBVIOUS
  <2> HIDE DEF ch, out
  <2>3. IsChain(q.db, ch)
    BY <2>2 DEF IsChain
  <2>4. AtHops(within, 0, q.to)
    BY <1>3, <1>6 DEF Rings, AtHops
  <2>5. Last(ch) = q.to /\ Len(ch) - 1 = 0
    BY <1>6, <2>2 DEF Last
  <2>6. found
    BY <2>1, <2>2, <2>3, <2>4, <2>5
  <2> HIDE DEF found
  <2> QED
    BY <1>8, <2>1, <2>6
<1>7. CASE q.from # q.to
  <2>1. PICK F : Rings(FwdOf(q.db), F, q.to, hops)
    <3>1. FwdOf(q.db) \in [Nat -> SUBSET Nat]
      BY <1>2, SidesSee DEF Sees
    <3> QED
      BY <1>1, <1>2, <3>1, RingsExist
  <2> DEFINE j == [db |-> q.db, from |-> q.from, to |-> q.to, max |-> hops, B |-> within, F |-> F]
  <2>2. j.db = q.db /\ j.from = q.from /\ j.to = q.to /\ j.max = hops /\ j.B = within /\ j.F = F
    OBVIOUS
  <2> HIDE DEF j, out
  <2>3. IsSearch(j)
    BY <1>1, <1>2, <1>3, <2>1, <2>2 DEF IsSearch
  <2>4. PICK s : Searched(j, j.max, s) /\ SearchPath(j.db, j.from, j.to, j.max, q.budget) = s.end
    BY <1>7, <2>2, <2>3, PathSearchIs
  <2>5. out = s.end
    BY <1>5, <1>7, <2>2, <2>4
  <2>6. out.how \in {"none", "found", "exhausted"}
    BY <2>4, <2>5 DEF Searched
  <2>7. out.how = "found" => found
    BY <2>2, <2>4, <2>5 DEF Searched, Connects
  <2>8. out.how = "none" => q.to \notin within[hops]
    <3> HAVE out.how = "none"
    <3>1. Apart(j, j.max, s)
      BY <2>4, <2>5 DEF Searched
    <3> QED
      BY <2>2, <2>3, <3>1, NoneIsNone
  <2> HIDE DEF found
  <2> QED
    BY <1>8, <1>9, <1>10, <2>6, <2>7, <2>8
<1> QED
  BY <1>6, <1>7

\* Whatever the graph, the hops and the budget, two records are connected
\* exactly when one reaches the other within the hops, by a shortest chain,
\* unless the budget ran out.
THEOREM PathAlwaysShortest ==
    (\E q : IsPathRequest(q) /\ Asked(q)) /\ [][RefPath \/ Elsewhere("ref_path")]_vars => []RefPathIsShortest
<1> DEFINE Inv == IsPathRequest(request) /\ RefPathIsShortest
<1>1. (\E q : IsPathRequest(q) /\ Asked(q)) => Inv
  BY DEF Asked, Pending, RefPathIsShortest, Answered
<1>2. Inv /\ [RefPath \/ Elsewhere("ref_path")]_vars => Inv'
  <2> SUFFICES ASSUME Inv, [RefPath \/ Elsewhere("ref_path")]_vars
               PROVE  Inv'
    OBVIOUS
  <2>1. CASE RefPath
    <3> DEFINE out == FindRefPath(request.db, request.from, request.to, request.hops, DefaultHops, request.budget)
    <3>1. Run("ref_path", out)
      BY <2>1, Zenon DEF RefPath
    <3>2. PathIsShortest(request, out)
      BY PathHolds
    <3> HIDE DEF out
    <3>3. request' = request /\ Out' = out
      BY <3>1 DEF Run, Out
    <3> QED
      BY <3>2, <3>3 DEF RefPathIsShortest
  <2>2. CASE Elsewhere("ref_path")
    <3>1. request' = request /\ request.op # "ref_path"
      BY <2>2 DEF Elsewhere, Run, Refuse
    <3> QED
      BY <3>1 DEF RefPathIsShortest, Answered
  <2>3. CASE UNCHANGED vars
    BY <2>3 DEF vars, RefPathIsShortest, Answered, Out
  <2> QED
    BY <2>1, <2>2, <2>3
<1>3. Inv => RefPathIsShortest
  OBVIOUS
<1> HIDE DEF Inv
<1> QED
  BY <1>1, <1>2, <1>3, PTL

=============================================================================
