------------------------- MODULE Navigation_proofs --------------------------
(***************************************************************************)
(* What the renderer shows, for any files, records and loads in flight.    *)
(***************************************************************************)
EXTENDS Navigation, WellFoundedInduction, TLAPS

-----------------------------------------------------------------------------
(* The history without a file.                                             *)

LEMMA LeastOf ==
    ASSUME NEW T \in SUBSET Nat, T # {}
    PROVE  \E m \in T : \A n \in T : m <= n
<1>1. PICK m \in T : \A n \in T : <<n, m>> \notin OpToRel(<, Nat)
  BY NatLessThanWellFounded, WFMin
<1>2. \A n \in T : ~(n < m)
  BY <1>1 DEF OpToRel
<1> QED
  BY <1>2

\* A function given by its first value and a step from each to the next.
Iterates(g, N, S, a, step) ==
    /\ g \in [0 .. N -> S] /\ g[0] = a
    /\ \A n \in 1 .. N : g[n] = step[<<g[n - 1], n>>]

LEMMA Iteration ==
    ASSUME NEW N \in Nat, NEW S, NEW a \in S, NEW step \in [S \X (1 .. N) -> S]
    PROVE  \E g : Iterates(g, N, S, a, step)
<1> DEFINE Reached(m) == \E g : Iterates(g, m, S, a, step)
           missing == {m \in 0 .. N : ~Reached(m)}
<1>1. Reached(0)
  <2>1. Iterates([n \in 0 .. 0 |-> a], 0, S, a, step)
    BY DEF Iterates
  <2> QED
    BY <2>1
<1>2. ASSUME NEW m \in 1 .. N, Reached(m - 1)
      PROVE  Reached(m)
  <2>1. PICK g : Iterates(g, m - 1, S, a, step)
    BY <1>2
  <2> DEFINE h == [n \in 0 .. m |-> IF n = m THEN step[<<g[m - 1], m>>] ELSE g[n]]
  <2>2. g[m - 1] \in S /\ step[<<g[m - 1], m>>] \in S
    BY <2>1 DEF Iterates
  <2>3. h \in [0 .. m -> S] /\ h[0] = a
    BY <2>1, <2>2 DEF Iterates
  <2>4. \A n \in 1 .. m : h[n] = step[<<h[n - 1], n>>]
    <3> TAKE n \in 1 .. m
    <3>1. h[n - 1] = g[n - 1]
      OBVIOUS
    <3>2. CASE n = m
      <4>1. h[m] = step[<<g[m - 1], m>>] /\ h[m - 1] = g[m - 1]
        OBVIOUS
      <4> QED
        BY <3>2, <4>1
    <3>3. CASE n # m
      <4>1. h[n] = g[n] /\ n \in 1 .. m - 1
        BY <3>3
      <4> QED
        BY <2>1, <3>1, <4>1 DEF Iterates
    <3> QED
      BY <3>2, <3>3
  <2>5. Iterates(h, m, S, a, step)
    BY <2>3, <2>4 DEF Iterates
  <2> QED
    BY <2>5
<1> HIDE DEF Reached
<1>3. missing = {}
  <2> SUFFICES ASSUME missing # {}
               PROVE  FALSE
    OBVIOUS
  <2>1. missing \in SUBSET Nat
    OBVIOUS
  <2>2. PICK m \in missing : \A n \in missing : m <= n
    <3> HIDE DEF missing
    <3> QED
      BY <2>1, LeastOf
  <2>3. m \in 1 .. N /\ m - 1 \in 0 .. N /\ m - 1 \notin missing
    BY <1>1, <2>2
  <2> QED
    BY <1>2, <2>2, <2>3
<1>4. Reached(N)
  BY <1>3
<1> QED
  BY <1>4 DEF Reached

LEMMA PrunedIs ==
    ASSUME NEW f \in Files, nav.entries \in Seq(Entries)
    PROVE  /\ Pruned(f, 0) = <<>>
           /\ \A n \in 0 .. Len(nav.entries) : Pruned(f, n) \in Seq(Entries)
           /\ \A n \in 1 .. Len(nav.entries) :
                Pruned(f, n) = IF nav.entries[n].file = f THEN Pruned(f, n - 1)
                               ELSE Append(Pruned(f, n - 1), nav.entries[n])
<1> DEFINE N == Len(nav.entries)
           S == Seq(Entries)
           After(s, n) == IF nav.entries[n].file = f THEN s ELSE Append(s, nav.entries[n])
           Is(g) == g = [n \in 0 .. N |-> IF n = 0 THEN <<>>
                                          ELSE IF nav.entries[n].file = f THEN g[n - 1]
                                          ELSE Append(g[n - 1], nav.entries[n])]
           u == CHOOSE g : Is(g)
           step == [x \in S \X (1 .. N) |-> After(x[1], x[2])]
<1>1. N \in Nat /\ <<>> \in S /\ \A s \in S, n \in 1 .. N : After(s, n) \in S
  OBVIOUS
<1>2. \A n \in 0 .. N : Pruned(f, n) = u[n]
  BY DEF Pruned
<1> HIDE DEF N, S, After
<1>3. step \in [S \X (1 .. N) -> S]
  BY <1>1
<1>4. \A s \in S, n \in 1 .. N : step[<<s, n>>] = After(s, n)
  OBVIOUS
<1> HIDE DEF step
<1>5. PICK g : Iterates(g, N, S, <<>>, step)
  BY <1>1, <1>3, Iteration
<1>6. /\ g \in [0 .. N -> S] /\ g[0] = <<>>
      /\ \A n \in 1 .. N : g[n] = After(g[n - 1], n)
  <2>1. g \in [0 .. N -> S] /\ g[0] = <<>>
    BY <1>5 DEF Iterates
  <2>2. \A n \in 1 .. N : g[n] = After(g[n - 1], n)
    <3> TAKE n \in 1 .. N
    <3>1. g[n - 1] \in S
      BY <1>1, <2>1
    <3> QED
      BY <1>4, <1>5, <3>1 DEF Iterates
  <2> QED
    BY <2>1, <2>2
<1>7. Is(g)
  <2>1. g = [n \in 0 .. N |-> g[n]]
    BY <1>6
  <2>2. \A n \in 0 .. N : g[n] = IF n = 0 THEN <<>>
                                 ELSE IF nav.entries[n].file = f THEN g[n - 1]
                                 ELSE Append(g[n - 1], nav.entries[n])
    <3> TAKE n \in 0 .. N
    <3>1. CASE n = 0
      BY <1>6, <3>1
    <3>2. CASE n # 0
      <4>1. n \in 1 .. N
        BY <1>1, <3>2
      <4> QED
        BY <1>6, <3>2, <4>1 DEF After
    <3> QED
      BY <3>1, <3>2
  <2> QED
    BY <2>1, <2>2
<1>8. Is(u)
  BY <1>7
<1> HIDE DEF u
<1>9. /\ u[0] = <<>>
      /\ \A n \in 1 .. N : u[n] = After(u[n - 1], n)
  <2>1. u[0] = <<>>
    BY <1>1, <1>8
  <2>2. \A n \in 1 .. N : u[n] = After(u[n - 1], n)
    <3> TAKE n \in 1 .. N
    <3>1. n \in 0 .. N /\ n # 0
      BY <1>1
    <3> QED
      BY <1>8, <3>1 DEF After
  <2> QED
    BY <2>1, <2>2
<1>10. \A n \in 0 .. N : u[n] \in S
  <2> DEFINE bad == {n \in 0 .. N : u[n] \notin S}
  <2> SUFFICES ASSUME bad # {} PROVE FALSE
    OBVIOUS
  <2>1. PICK m \in bad : \A n \in bad : m <= n
    <3>1. bad \in SUBSET Nat
      OBVIOUS
    <3> HIDE DEF bad
    <3> QED
      BY <3>1, LeastOf
  <2>2. m \in 1 .. N /\ u[m - 1] \in S
    BY <1>1, <1>9, <2>1
  <2> QED
    BY <1>1, <1>9, <2>1, <2>2
<1>11. /\ Pruned(f, 0) = <<>>
       /\ \A n \in 0 .. N : Pruned(f, n) \in S
  BY <1>1, <1>2, <1>9, <1>10
<1>12. \A n \in 1 .. N : Pruned(f, n) = After(Pruned(f, n - 1), n)
  <2> TAKE n \in 1 .. N
  <2>1. n \in 0 .. N /\ n - 1 \in 0 .. N
    BY <1>1
  <2> QED
    BY <1>2, <1>9, <2>1
<1> QED
  BY <1>11, <1>12 DEF N, S, After

\* What is kept is of other files, and what is of other files is kept, at the
\* place where the history up to it ends.
KeepsOthers(f, n) ==
    /\ \A j \in 0 .. n : Len(Pruned(f, j)) <= Len(Pruned(f, n))
    /\ \A k \in DOMAIN Pruned(f, n) :
         /\ Pruned(f, n)[k].file # f
         /\ \E j \in 1 .. n : Pruned(f, n)[k] = nav.entries[j]
    /\ \A j \in 1 .. n : nav.entries[j].file # f =>
         /\ Len(Pruned(f, j)) \in DOMAIN Pruned(f, n)
         /\ Pruned(f, n)[Len(Pruned(f, j))] = nav.entries[j]

LEMMA PrunedKeepsOthers ==
    ASSUME NEW f \in Files, nav.entries \in Seq(Entries)
    PROVE  \A n \in 0 .. Len(nav.entries) : KeepsOthers(f, n)
<1> DEFINE N == Len(nav.entries)
           bad == {n \in 0 .. N : ~KeepsOthers(f, n)}
<1>1. KeepsOthers(f, 0)
  BY PrunedIs DEF KeepsOthers
<1>2. ASSUME NEW n \in 1 .. N, KeepsOthers(f, n - 1)
      PROVE  KeepsOthers(f, n)
  <2> DEFINE p == Pruned(f, n - 1)
             e == nav.entries[n]
  <2>1. /\ p \in Seq(Entries)
        /\ Pruned(f, n) = IF e.file = f THEN p ELSE Append(p, e)
    BY PrunedIs
  <2>2. /\ \A j \in 0 .. n - 1 : Len(Pruned(f, j)) <= Len(p)
        /\ \A k \in DOMAIN p : p[k].file # f /\ \E j \in 1 .. n - 1 : p[k] = nav.entries[j]
        /\ \A j \in 1 .. n - 1 : nav.entries[j].file # f =>
             Len(Pruned(f, j)) \in DOMAIN p /\ p[Len(Pruned(f, j))] = nav.entries[j]
    BY <1>2 DEF KeepsOthers
  <2>5. \A j \in 0 .. n : j \in 0 .. n - 1 \/ j = n
    OBVIOUS
  <2>6. \A j \in 0 .. n : Len(Pruned(f, j)) \in Nat
    BY PrunedIs
  <2> HIDE DEF p
  <2>3. CASE e.file = f
    <3>1. Pruned(f, n) = p
      BY <2>1, <2>3
    <3> QED
      BY <2>1, <2>2, <2>3, <2>5, <3>1 DEF KeepsOthers
  <2>4. CASE e.file # f
    <3>1. /\ Pruned(f, n) = Append(p, e)
          /\ DOMAIN Append(p, e) = 1 .. Len(p) + 1
          /\ DOMAIN p = 1 .. Len(p) /\ Len(p) \in Nat
          /\ Append(p, e)[Len(p) + 1] = e /\ Len(Append(p, e)) = Len(p) + 1
          /\ \A k \in 1 .. Len(p) : Append(p, e)[k] = p[k]
      BY <2>1, <2>4
    <3>2. \A k \in 1 .. Len(p) + 1 : k \in 1 .. Len(p) \/ k = Len(p) + 1
      BY <3>1
    <3>3. \A j \in 1 .. n : j \in 1 .. n - 1 \/ j = n
      OBVIOUS
    <3>4. \A j \in 0 .. n : Len(Pruned(f, j)) <= Len(Pruned(f, n))
      BY <2>2, <2>5, <2>6, <3>1
    <3>5. \A k \in DOMAIN Pruned(f, n) :
            /\ Pruned(f, n)[k].file # f
            /\ \E j \in 1 .. n : Pruned(f, n)[k] = nav.entries[j]
      <4> TAKE k \in DOMAIN Pruned(f, n)
      <4>1. CASE k \in 1 .. Len(p)
        <5>1. p[k].file # f /\ \E j \in 1 .. n - 1 : p[k] = nav.entries[j]
          BY <2>2, <3>1, <4>1
        <5> QED
          BY <3>1, <4>1, <5>1
      <4>2. CASE k = Len(p) + 1
        <5>1. Pruned(f, n)[k] = nav.entries[n] /\ n \in 1 .. n
          BY <3>1, <4>2
        <5> QED
          BY <2>4, <5>1
      <4> QED
        BY <3>1, <3>2, <4>1, <4>2
    <3>6. \A j \in 1 .. n : nav.entries[j].file # f =>
            /\ Len(Pruned(f, j)) \in DOMAIN Pruned(f, n)
            /\ Pruned(f, n)[Len(Pruned(f, j))] = nav.entries[j]
      BY <2>2, <3>1, <3>3
    <3> QED
      BY <3>4, <3>5, <3>6 DEF KeepsOthers
  <2> QED
    BY <2>3, <2>4
<1>3. bad = {}
  <2> SUFFICES ASSUME bad # {} PROVE FALSE
    OBVIOUS
  <2>1. PICK m \in bad : \A n \in bad : m <= n
    <3>1. bad \in SUBSET Nat
      OBVIOUS
    <3> HIDE DEF bad
    <3> QED
      BY <3>1, LeastOf
  <2>2. m \in 1 .. N /\ m - 1 \in 0 .. N /\ m - 1 \notin bad
    BY <1>1, <2>1
  <2> QED
    BY <1>2, <2>1, <2>2
<1> QED
  BY <1>3

-----------------------------------------------------------------------------
(* The invariant.                                                          *)

LoadRecords == {Free} \cup [kind : Kinds, file : Files, rec : Records, entry : Nat]

Types ==
    /\ open \subseteq Files /\ closing \subseteq Files
    /\ shown # None => shown \in Records
    /\ nav \in [entries : Seq(Entries), index : Nat]
    /\ load \in [Loads -> LoadRecords]
    /\ newest \in Loads \cup {None}

\* The cursor is in the history; a step knows where its entry is.
HistoryInv ==
    /\ Has(nav.index) \/ nav = NoNav
    /\ \A l \in Loads : load[l].entry # 0 =>
         /\ load[l].kind = "step" /\ Has(load[l].entry)
         /\ nav.entries[load[l].entry] = [file |-> load[l].file, rec |-> load[l].rec]

\* The newest load, if it may still land, has a place to land.
NewestInv ==
    /\ pending # None => pending = newest
    /\ newest # None => load[newest] # Free
    /\ newest # None /\ load[newest].file \in open =>
         /\ load[newest].kind = "step" => load[newest].entry # 0
         /\ load[newest].kind = "reload" => AtCursor(load[newest].file, load[newest].rec)

\* What the user chose last is being loaded, or shown, or its file is going.
ChoiceInv ==
    choice # None =>
        /\ choice.file \in Known
        /\ choice.file \in open =>
             IF newest = None THEN active = choice.file /\ shown = choice.rec
             ELSE load[newest].file = choice.file /\ load[newest].rec = choice.rec

Inv == /\ Types /\ HistoryInv /\ NewestInv /\ ChoiceInv
       /\ CursorNamesShown /\ NothingLeadsToClosed

-----------------------------------------------------------------------------
(* The steps.                                                              *)

\* What may happen to the list of open files while nothing is dropped.
FilesLast ==
    /\ closing' = closing
    /\ open' \subseteq open \cup Fresh
    /\ open \subseteq open' \cup closing

LEMMA FilesLastKnown ==
    ASSUME Types, FilesLast
    PROVE  /\ open' \subseteq Files /\ closing' \subseteq Files
           /\ Known \subseteq Known'
           /\ \A l \in Loads : load[l].file \in open' => load[l].file \in open
           /\ \A f \in closing : f \in open' => f \in open
BY DEF Types, FilesLast, Fresh, Known

LEMMA StartPendingKeeps ==
    ASSUME Inv, FilesLast, UNCHANGED <<nav, display>>,
           NEW l \in Loads, NEW kind \in {"new", "select", "step"},
           NEW f \in Known', NEW r \in Records, NEW id \in Nat,
           kind = "step" <=> id # 0,
           id # 0 => Has(id) /\ nav.entries[id] = [file |-> f, rec |-> r],
           StartPending(l, kind, f, r, id)
    PROVE  Inv'
<1> DEFINE new == [kind |-> kind, file |-> f, rec |-> r, entry |-> id]
<1>1. /\ load[l] = Free /\ load' = [load EXCEPT ![l] = new]
      /\ newest' = l /\ pending' = l /\ choice' = [file |-> f, rec |-> r]
      /\ nav' = nav /\ active' = active /\ shown' = shown /\ cols' = cols
  BY DEF StartPending, Start, display
<1>2. new \in LoadRecords /\ new # Free /\ l # None
  <2>1. f \in Files
    BY FilesLastKnown DEF Inv, Known
  <2> QED
    BY <2>1, NoneAssumption DEF LoadRecords, Kinds, Free
<1>3. load' \in [Loads -> LoadRecords] /\ load'[l] = new
      /\ \A m \in Loads : m # l => load'[m] = load[m]
  BY <1>1, <1>2 DEF Inv, Types
<1> HIDE DEF new
<1>4. new.kind = kind /\ new.file = f /\ new.rec = r /\ new.entry = id
  BY DEF new
<1>5. Types'
  BY <1>1, <1>3, FilesLastKnown DEF Inv, Types
<1>6. HistoryInv'
  BY <1>1, <1>3, <1>4 DEF Inv, HistoryInv, Has
<1>7. NewestInv'
  BY <1>1, <1>2, <1>3, <1>4 DEF NewestInv
<1>8. ChoiceInv'
  BY <1>1, <1>2, <1>3, <1>4 DEF ChoiceInv, Known
<1>9. CursorNamesShown' /\ NothingLeadsToClosed'
  BY <1>1, FilesLastKnown DEF Inv, CursorNamesShown, NothingLeadsToClosed, Has
<1> QED
  BY <1>5, <1>6, <1>7, <1>8, <1>9 DEF Inv

\* A file is selected while nothing is shown.
LEMMA SelectBareKeeps ==
    ASSUME Inv, FilesLast, UNCHANGED nav, shown = None,
           NEW l \in Loads, NEW f \in open', Select(l, f)
    PROVE  Inv'
<1>1. /\ active' = f /\ newest' = None /\ pending' = None
      /\ choice' = [file |-> f, rec |-> None]
      /\ nav' = nav /\ load' = load /\ shown' = None /\ cols' = cols
  BY DEF Select
<1>2. Types' /\ HistoryInv'
  BY <1>1, FilesLastKnown DEF Inv, Types, HistoryInv, Has
<1>3. NewestInv' /\ ChoiceInv'
  BY <1>1 DEF NewestInv, ChoiceInv, Known
<1>4. CursorNamesShown' /\ NothingLeadsToClosed'
  BY <1>1, FilesLastKnown DEF Inv, CursorNamesShown, NothingLeadsToClosed, Known
<1> QED
  BY <1>2, <1>3, <1>4 DEF Inv

LEMMA SelectKeeps ==
    ASSUME Inv, FilesLast, UNCHANGED nav,
           NEW l \in Loads, NEW f \in open', Select(l, f)
    PROVE  Inv'
<1>1. CASE shown = None
  BY <1>1, SelectBareKeeps
<1>2. CASE shown # None
  <2>1. f \in Known' /\ shown \in Records /\ StartPending(l, "select", f, shown, 0) /\ UNCHANGED display
    BY <1>2 DEF Select, Inv, Types, Known
  <2> QED
    BY <2>1, StartPendingKeeps
<1> QED
  BY <1>1, <1>2

LEMMA OpenedKeeps ==
    ASSUME Inv, NEW l \in Loads, NEW f \in Files, Opened(l, f)
    PROVE  Inv'
<1>1. PICK list \in Listed : f \in list /\ open' = list
  BY DEF Opened
<1>2. FilesLast
  BY <1>1 DEF Listed, FilesLast, Opened
<1>3. f \in open' /\ UNCHANGED nav /\ Select(l, f)
  BY <1>1 DEF Opened
<1> QED
  BY <1>2, <1>3, SelectKeeps

LEMMA StepKeeps ==
    ASSUME Inv, NEW l \in Loads, NEW to \in DOMAIN nav.entries, Step(l, to)
    PROVE  Inv'
<1>1. PICK e \in Entries : e = nav.entries[to] /\ to \in Nat /\ to # 0
  BY DEF Inv, Types
<1>2. e.file \in Files /\ e.rec \in Records /\ e = [file |-> e.file, rec |-> e.rec]
  BY <1>1 DEF Entries
<1>3. /\ StartPending(l, "step", e.file, e.rec, to)
      /\ UNCHANGED <<files, display, nav>>
  BY <1>1 DEF Step
<1>4. FilesLast /\ e.file \in Known'
  BY <1>1, <1>3 DEF FilesLast, files, Inv, NothingLeadsToClosed, Known
<1> QED
  BY <1>1, <1>2, <1>3, <1>4, StartPendingKeeps DEF Has

LEMMA ClosesKeeps ==
    ASSUME Inv, NEW f \in Files, Closes(f)
    PROVE  Inv'
<1>1. /\ open' = open /\ closing' = closing \cup {f}
      /\ UNCHANGED <<active, shown, cols, nav, load, newest, pending, choice>>
  BY DEF Closes, display
<1>2. Known \subseteq Known'
  BY <1>1 DEF Known
<1>3. Types' /\ HistoryInv' /\ NewestInv'
  BY <1>1 DEF Inv, Types, HistoryInv, NewestInv, Has, AtCursor
<1>4. ChoiceInv' /\ CursorNamesShown' /\ NothingLeadsToClosed'
  BY <1>1, <1>2 DEF Inv, ChoiceInv, CursorNamesShown, NothingLeadsToClosed, Has
<1> QED
  BY <1>3, <1>4 DEF Inv

LEMMA CancelKeeps ==
    ASSUME Inv, CancelNew
    PROVE  Inv'
<1>1. /\ newest' = None /\ pending' = None /\ choice' = None
      /\ UNCHANGED <<open, closing, active, shown, cols, nav, load>>
  BY DEF CancelNew, files, display
<1>2. Types' /\ HistoryInv' /\ NewestInv' /\ ChoiceInv'
  BY <1>1 DEF Inv, Types, HistoryInv, NewestInv, ChoiceInv, Has
<1>3. CursorNamesShown' /\ NothingLeadsToClosed'
  BY <1>1 DEF Inv, CursorNamesShown, NothingLeadsToClosed, Has, Known
<1> QED
  BY <1>2, <1>3 DEF Inv

\* A load ends without changing the history: it was not wanted any more,
\* failed, was a step or a reload.
LEMMA EndKeeps ==
    ASSUME Inv, NEW l \in Loads, load[l] # Free, End(l, load)
    PROVE  /\ load' \in [Loads -> LoadRecords]
           /\ load'[l] = Free
           /\ \A m \in Loads : m # l => load'[m] = load[m]
           /\ newest' = IF newest = l THEN None ELSE newest
           /\ newest' \in Loads \cup {None}
           /\ newest' # None => newest' # l /\ newest' = newest
           /\ pending' # None => pending' = newest'
<1>1. load' = [load EXCEPT ![l] = Free] /\ l # None
  BY NoneAssumption DEF End
<1> QED
  BY <1>1 DEF End, Inv, Types, NewestInv, LoadRecords

LEMMA EndKeepsLoads ==
    ASSUME Inv, NEW l \in Loads, load[l] # Free, End(l, load),
           UNCHANGED files, nav'.entries = nav.entries,
           newest = l \/ nav'.index = nav.index, nav' = [nav EXCEPT !.index = nav'.index],
           Has(nav'.index) \/ nav' = nav
    PROVE  Types' => HistoryInv' /\ NewestInv'
<1> SUFFICES ASSUME Types' PROVE HistoryInv' /\ NewestInv'
  OBVIOUS
<1>1. HistoryInv'
  BY EndKeeps DEF Inv, HistoryInv, Has, Free, NoNav
<1>2. NewestInv'
  BY EndKeeps DEF Inv, NewestInv, Has, AtCursor, files
<1> QED
  BY <1>1, <1>2

LEMMA LostAnswerKeeps ==
    ASSUME Inv, NEW l \in Loads, load[l] # Free, End(l, load),
           UNCHANGED <<files, nav>>,
           \/ ~Stands(l) /\ UNCHANGED <<display, choice>>
           \/ choice' = (IF newest = l THEN None ELSE choice) /\ UNCHANGED display
           \/ /\ Stands(l) /\ choice' = None
              /\ active' = load[l].file /\ shown' = None /\ cols' = {}
    PROVE  Inv'
<1>1. /\ UNCHANGED <<open, closing, nav>>
      /\ \/ UNCHANGED <<active, shown, cols>>
         \/ active' \in open /\ shown' = None /\ cols' = {}
  BY DEF files, display, Stands
<1>2. Types'
  BY <1>1, EndKeeps DEF Inv, Types
<1>3. HistoryInv' /\ NewestInv'
  BY <1>1, <1>2, EndKeepsLoads DEF Inv, Types
<1>4. CursorNamesShown' /\ NothingLeadsToClosed'
  BY <1>1 DEF Inv, CursorNamesShown, NothingLeadsToClosed, Has, Known
<1>5. ChoiceInv'
  <2>1. CASE newest = l
    BY <1>1, <2>1, EndKeeps DEF Inv, ChoiceInv, Stands, Known, display
  <2>2. CASE newest # l
    BY <1>1, <2>2, EndKeeps DEF Inv, ChoiceInv, Stands, Known, display
  <2> QED
    BY <2>1, <2>2
<1> QED
  BY <1>2, <1>3, <1>4, <1>5 DEF Inv

LEMMA RejectKeeps ==
    ASSUME Inv, NEW l \in Loads, Reject(l)
    PROVE  Inv'
BY LostAnswerKeeps DEF Reject, Stands

\* The loads as Moved leaves them.
LEMMA MovedIs ==
    ASSUME Types, HistoryInv, NEW place \in [DOMAIN nav.entries -> Nat]
    PROVE  /\ Moved(place) \in [Loads -> LoadRecords]
           /\ \A l \in Loads :
                /\ Moved(place)[l].kind = load[l].kind /\ Moved(place)[l].file = load[l].file
                /\ Moved(place)[l].rec = load[l].rec
                /\ Moved(place)[l].entry = IF load[l].entry = 0 THEN 0 ELSE place[load[l].entry]
                /\ load[l] = Free <=> Moved(place)[l] = Free
<1>1. ASSUME NEW l \in Loads
      PROVE  /\ Moved(place)[l] = [load[l] EXCEPT !.entry = IF @ = 0 THEN 0 ELSE place[@]]
             /\ load[l] \in LoadRecords
             /\ load[l].entry # 0 => place[load[l].entry] \in Nat
  BY <1>1 DEF Moved, Types, HistoryInv, Has
<1>2. \A l \in Loads :
        /\ Moved(place)[l] \in LoadRecords
        /\ Moved(place)[l].kind = load[l].kind /\ Moved(place)[l].file = load[l].file
        /\ Moved(place)[l].rec = load[l].rec
        /\ Moved(place)[l].entry = IF load[l].entry = 0 THEN 0 ELSE place[load[l].entry]
        /\ load[l] = Free <=> Moved(place)[l] = Free
  <2> TAKE l \in Loads
  <2> DEFINE a == load[l]
             b == Moved(place)[l]
             e == IF a.entry = 0 THEN 0 ELSE place[a.entry]
  <2>1. /\ b = [a EXCEPT !.entry = e] /\ a \in LoadRecords
        /\ a.entry # 0 => e \in Nat
    BY <1>1
  <2> HIDE DEF a, b
  <2>2. CASE a = Free
    <3>1. b = Free /\ a.entry = 0
      BY <2>1, <2>2 DEF Free
    <3> QED
      BY <2>2, <3>1 DEF LoadRecords, Free, a, b
  <2>3. CASE a # Free
    <3>1. a \in [kind : Kinds, file : Files, rec : Records, entry : Nat] /\ e \in Nat
      BY <2>1, <2>3 DEF LoadRecords
    <3>2. /\ b \in [kind : Kinds, file : Files, rec : Records, entry : Nat]
          /\ b.kind = a.kind /\ b.file = a.file /\ b.rec = a.rec /\ b.entry = e
      BY <2>1, <3>1
    <3>3. b # Free
      BY <3>2 DEF Kinds, Free
    <3> QED
      BY <2>3, <3>2, <3>3 DEF LoadRecords, a, b
  <2> QED
    BY <2>2, <2>3
<1> QED
  BY <1>2 DEF Moved

LEMMA PushKeeps ==
    ASSUME Inv, NEW f \in Known, NEW r \in Records, NavPush(f, r)
    PROVE  /\ nav' \in [entries : Seq(Entries), index : Nat]
           /\ nav'.index \in DOMAIN nav'.entries
           /\ nav'.entries[nav'.index] = [file |-> f, rec |-> r]
           /\ \A i \in DOMAIN nav'.entries : nav'.entries[i].file \in Known
           /\ nav' # nav => \A i \in 1 .. nav.index :
                              i \in DOMAIN nav'.entries /\ nav'.entries[i] = nav.entries[i]
<1> DEFINE e == [file |-> f, rec |-> r]
           kept == SubSeq(nav.entries, 1, nav.index)
<1>1. CASE AtCursor(f, r)
  BY <1>1 DEF NavPush, AtCursor, Inv, Types, Has, NothingLeadsToClosed
<1>2. CASE ~AtCursor(f, r)
  <2>1. nav' = [entries |-> Append(kept, e), index |-> nav.index + 1]
    BY <1>2 DEF NavPush
  <2>2. nav.index \in 0 .. Len(nav.entries) /\ nav.entries \in Seq(Entries)
    BY DEF Inv, Types, HistoryInv, Has, NoNav
  <2>3. e \in Entries
    BY DEF Entries, Known, Inv, Types
  <2> HIDE DEF e
  <2>4. /\ kept \in Seq(Entries) /\ Len(kept) = nav.index
        /\ \A i \in 1 .. nav.index : kept[i] = nav.entries[i]
    BY <2>2
  <2> HIDE DEF kept
  <2>5. /\ Append(kept, e) \in Seq(Entries) /\ Len(Append(kept, e)) = nav.index + 1
        /\ Append(kept, e)[nav.index + 1] = e
        /\ \A i \in 1 .. nav.index : Append(kept, e)[i] = nav.entries[i]
    BY <2>2, <2>3, <2>4
  <2>6. \A i \in 1 .. nav.index : nav.entries[i].file \in Known
    BY <2>2 DEF Inv, NothingLeadsToClosed
  <2>7. e.file \in Known
    BY DEF e
  <2> QED
    BY <2>1, <2>2, <2>5, <2>6, <2>7, SMTT(20) DEF e
<1> QED
  BY <1>1, <1>2

\* An answer that counts: afterwards no load is the newest one.
LEMMA ShowKeeps ==
    ASSUME Inv, NEW l \in Loads, load[l] # Free, Stands(l),
           NEW got \in SUBSET open, load[l].file \in got, Show(l, got),
           UNCHANGED <<files, choice>>
    PROVE  Inv'
<1> DEFINE f == load[l].file
           r == load[l].rec
           place == [i \in DOMAIN nav.entries |->
                       IF nav' # nav /\ i > nav.index THEN 0 ELSE i]
<1>1. /\ active' = f /\ shown' = r /\ cols' = got
      /\ UNCHANGED <<open, closing, choice>>
      /\ newest = l /\ f \in open /\ l # None
  BY NoneAssumption DEF Show, files, Stands
<1>2. f \in Files /\ r \in Records /\ f \in Known
  BY <1>1 DEF Inv, Types, LoadRecords, Known
<1>3. newest' = None /\ pending' = None
  BY <1>1 DEF Show, End, Inv, NewestInv
<1>4. ASSUME nav' \in [entries : Seq(Entries), index : Nat],
             nav'.index \in DOMAIN nav'.entries,
             nav'.entries[nav'.index] = [file |-> f, rec |-> r],
             \A i \in DOMAIN nav'.entries : nav'.entries[i].file \in Known,
             load' \in [Loads -> LoadRecords],
             \A m \in Loads : load'[m].entry # 0 =>
               /\ load'[m].kind = "step" /\ load'[m].entry \in DOMAIN nav'.entries
               /\ nav'.entries[load'[m].entry] = [file |-> load'[m].file, rec |-> load'[m].rec]
      PROVE  Inv'
  <2>1. Types'
    BY <1>1, <1>2, <1>3, <1>4 DEF Inv, Types
  <2>2. HistoryInv' /\ NewestInv'
    BY <1>3, <1>4 DEF HistoryInv, NewestInv, Has
  <2>3. ChoiceInv'
    BY <1>1, <1>3 DEF Inv, ChoiceInv, Known
  <2>4. CursorNamesShown' /\ NothingLeadsToClosed'
    BY <1>1, <1>2, <1>4 DEF CursorNamesShown, NothingLeadsToClosed, Has, Known
  <2> QED
    BY <2>1, <2>2, <2>3, <2>4 DEF Inv
<1>5. ASSUME End(l, load), nav' = [nav EXCEPT !.index = nav'.index],
             nav'.index \in DOMAIN nav.entries,
             nav.entries[nav'.index] = [file |-> f, rec |-> r]
      PROVE  Inv'
  <2>1. nav' \in [entries : Seq(Entries), index : Nat] /\ nav'.entries = nav.entries
    BY <1>5 DEF Inv, Types
  <2>2. \A m \in Loads : load'[m] = Free \/ load'[m] = load[m]
    BY <1>5, EndKeeps
  <2>3. load' \in [Loads -> LoadRecords]
    BY <1>5, EndKeeps
  <2>4. \A i \in DOMAIN nav.entries : nav.entries[i].file \in Known
    BY DEF Inv, NothingLeadsToClosed
  <2>5. \A m \in Loads : load[m].entry # 0 =>
          /\ load[m].kind = "step" /\ load[m].entry \in DOMAIN nav.entries
          /\ nav.entries[load[m].entry] = [file |-> load[m].file, rec |-> load[m].rec]
    BY DEF Inv, HistoryInv, Has
  <2>6. \A m \in Loads : load'[m].entry # 0 => load'[m] = load[m]
    BY <2>2 DEF Free
  <2> QED
    BY <1>4, <1>5, <2>1, <2>3, <2>4, <2>5, <2>6
<1>6. CASE load[l].kind \in {"new", "select"}
  <2>1. NavPush(f, r) /\ End(l, Moved(place))
    BY <1>6 DEF Show
  <2> DEFINE Places == [DOMAIN nav.entries -> Nat]
  <2>2. place \in [DOMAIN nav.entries -> Nat]
    BY DEF Inv, Types
  <2>3. \A i \in DOMAIN nav.entries : place[i] # 0 => place[i] = i /\ (nav' = nav \/ i <= nav.index)
    BY DEF Inv, Types
  <2> HIDE DEF place
  <2>4. /\ load' = [Moved(place) EXCEPT ![l] = Free]
        /\ Moved(place) \in [Loads -> LoadRecords]
    BY <2>1, <2>2, MovedIs DEF End, Inv
  <2>5. load' \in [Loads -> LoadRecords]
    BY <2>4 DEF LoadRecords
  <2>6. ASSUME NEW m \in Loads, load'[m].entry # 0
        PROVE  /\ load'[m].kind = "step" /\ load'[m].entry \in DOMAIN nav'.entries
               /\ nav'.entries[load'[m].entry] = [file |-> load'[m].file, rec |-> load'[m].rec]
    <3>1. m # l /\ load'[m] = Moved(place)[m]
      BY <2>4, <2>6 DEF Free
    <3>2. /\ load'[m].kind = load[m].kind /\ load'[m].file = load[m].file
          /\ load'[m].rec = load[m].rec
          /\ load'[m].entry = IF load[m].entry = 0 THEN 0 ELSE place[load[m].entry]
      BY <2>2, <3>1, MovedIs DEF Inv
    <3>3. /\ load[m].entry # 0 /\ load[m].kind = "step"
          /\ load[m].entry \in DOMAIN nav.entries
          /\ nav.entries[load[m].entry] = [file |-> load[m].file, rec |-> load[m].rec]
      BY <2>6, <3>2 DEF Inv, HistoryInv, Has
    <3>4. /\ load'[m].entry = load[m].entry /\ load[m].entry \in Nat
          /\ nav' = nav \/ load[m].entry <= nav.index
      BY <2>3, <2>6, <3>2, <3>3 DEF Inv, Types
    <3>5. CASE nav' = nav
      BY <3>2, <3>3, <3>4, <3>5
    <3>6. CASE nav' # nav
      <4>1. load[m].entry \in 1 .. nav.index
        BY <3>3, <3>4, <3>6 DEF Inv, Types
      <4>2. /\ load[m].entry \in DOMAIN nav'.entries
            /\ nav'.entries[load[m].entry] = nav.entries[load[m].entry]
        BY <1>2, <2>1, <3>6, <4>1, PushKeeps
      <4> QED
        BY <3>2, <3>3, <3>4, <4>2
    <3> QED
      BY <3>5, <3>6
  <2>7. /\ nav' \in [entries : Seq(Entries), index : Nat]
        /\ nav'.index \in DOMAIN nav'.entries
        /\ nav'.entries[nav'.index] = [file |-> f, rec |-> r]
        /\ \A i \in DOMAIN nav'.entries : nav'.entries[i].file \in Known
    BY <1>2, <2>1, PushKeeps
  <2> QED
    BY <1>4, <2>5, <2>6, <2>7
<1>7. CASE load[l].kind = "step"
  <2>1. nav' = [nav EXCEPT !.index = load[l].entry] /\ End(l, load)
    BY <1>7 DEF Show
  <2>2. /\ load[l].entry \in DOMAIN nav.entries
        /\ nav.entries[load[l].entry] = [file |-> f, rec |-> r]
    BY <1>1, <1>7 DEF Inv, NewestInv, HistoryInv, Has
  <2>3. nav'.index = load[l].entry
    BY <2>1 DEF Inv, Types
  <2> QED
    BY <1>5, <2>1, <2>2, <2>3
<1>8. CASE load[l].kind = "reload"
  <2>1. nav' = nav /\ End(l, load)
    BY <1>8 DEF Show
  <2>2. AtCursor(f, r)
    BY <1>1, <1>8 DEF Inv, NewestInv
  <2>3. nav' = [nav EXCEPT !.index = nav'.index]
    BY <2>1 DEF Inv, Types
  <2> QED
    BY <1>5, <2>1, <2>2, <2>3 DEF AtCursor, Has
<1> QED
  BY <1>6, <1>7, <1>8 DEF Inv, Types, LoadRecords, Kinds

LEMMA AnswerKeeps ==
    ASSUME Inv, NEW l \in Loads, Answer(l)
    PROVE  Inv'
<1>1. CASE Stands(l)
  BY <1>1, ShowKeeps DEF Answer
<1>2. CASE ~Stands(l)
  BY <1>2, LostAnswerKeeps DEF Answer, display
<1> QED
  BY <1>1, <1>2

-----------------------------------------------------------------------------
(* A file goes.                                                            *)

\* The history without f, and where its cursor and the steps are then.
LEMMA PrunedHistory ==
    ASSUME Inv, NEW f \in Files
    PROVE  LET kept  == Pruned(f, Len(nav.entries))
               index == CursorAfter(kept, Len(Pruned(f, nav.index)))
               place == [i \in DOMAIN nav.entries |->
                           IF nav.entries[i].file = f THEN 0 ELSE Len(Pruned(f, i))]
           IN  /\ kept \in Seq(Entries) /\ index \in Nat
               /\ index \in DOMAIN kept \/ (kept = <<>> /\ index = 0)
               /\ \A k \in DOMAIN kept : kept[k].file # f /\ kept[k].file \in Known
               /\ place \in [DOMAIN nav.entries -> Nat]
               /\ \A i \in DOMAIN nav.entries :
                    IF nav.entries[i].file = f THEN place[i] = 0
                    ELSE place[i] \in DOMAIN kept /\ kept[place[i]] = nav.entries[i]
               /\ Has(nav.index) /\ nav.entries[nav.index].file # f =>
                    index \in DOMAIN kept /\ kept[index] = nav.entries[nav.index]
<1> DEFINE N     == Len(nav.entries)
           kept  == Pruned(f, N)
           index == CursorAfter(kept, Len(Pruned(f, nav.index)))
           place == [i \in DOMAIN nav.entries |->
                       IF nav.entries[i].file = f THEN 0 ELSE Len(Pruned(f, i))]
<1>1. /\ nav.entries \in Seq(Entries) /\ N \in Nat /\ DOMAIN nav.entries = 1 .. N
      /\ nav.index \in 0 .. N
  BY DEF Inv, Types, HistoryInv, Has, NoNav
<1>2. \A n \in 0 .. N : Pruned(f, n) \in Seq(Entries) /\ KeepsOthers(f, n)
  BY <1>1, PrunedIs, PrunedKeepsOthers
<1>3. /\ kept \in Seq(Entries) /\ DOMAIN kept = 1 .. Len(kept) /\ Len(kept) \in Nat
      /\ \A k \in DOMAIN kept : /\ kept[k].file # f
                               /\ \E j \in 1 .. N : kept[k] = nav.entries[j]
      /\ \A j \in 1 .. N : nav.entries[j].file # f =>
           Len(Pruned(f, j)) \in DOMAIN kept /\ kept[Len(Pruned(f, j))] = nav.entries[j]
  <2>1. kept \in Seq(Entries) /\ KeepsOthers(f, N)
    BY <1>1, <1>2
  <2> QED
    BY <2>1 DEF KeepsOthers
<1>4. \A k \in DOMAIN kept : kept[k].file \in Known
  BY <1>1, <1>3 DEF Inv, NothingLeadsToClosed
<1>5. place \in [DOMAIN nav.entries -> Nat]
  BY <1>1, <1>2
<1>6. \A i \in DOMAIN nav.entries :
        IF nav.entries[i].file = f THEN place[i] = 0
        ELSE place[i] \in DOMAIN kept /\ kept[place[i]] = nav.entries[i]
  BY <1>1, <1>3
<1>7. ASSUME NEW n \in 0 .. N
      PROVE  Len(Pruned(f, n)) \in 0 .. Len(kept)
  <2>1. KeepsOthers(f, N) /\ Pruned(f, n) \in Seq(Entries)
    BY <1>1, <1>2
  <2>2. Len(Pruned(f, n)) <= Len(kept) /\ Len(Pruned(f, n)) \in Nat
    BY <2>1 DEF KeepsOthers
  <2> QED
    BY <1>3, <2>2
<1>8. index \in Nat /\ (index \in DOMAIN kept \/ (kept = <<>> /\ index = 0))
  BY <1>1, <1>2, <1>3, <1>7 DEF CursorAfter
<1>9. Has(nav.index) /\ nav.entries[nav.index].file # f =>
        index \in DOMAIN kept /\ kept[index] = nav.entries[nav.index]
  BY <1>1, <1>3 DEF Has, CursorAfter
<1> QED
  BY <1>1, <1>3, <1>4, <1>5, <1>6, <1>8, <1>9

LEMMA FileClosedKeeps ==
    ASSUME Inv, NEW l \in Loads, NEW f \in Files, FileClosed(l, f)
    PROVE  Inv'
<1> DEFINE kept   == Pruned(f, Len(nav.entries))
           index  == CursorAfter(kept, Len(Pruned(f, nav.index)))
           reload == kept # <<>> /\ (nav.entries[nav.index].file = f \/ active = f)
           place  == [i \in DOMAIN nav.entries |->
                        IF nav.entries[i].file = f THEN 0 ELSE Len(Pruned(f, i))]
           again  == [kind |-> "reload", file |-> kept[index].file,
                      rec |-> kept[index].rec, entry |-> 0]
<1>1. /\ kept \in Seq(Entries) /\ index \in Nat
      /\ index \in DOMAIN kept \/ (kept = <<>> /\ index = 0)
      /\ \A k \in DOMAIN kept : kept[k].file # f /\ kept[k].file \in Known
      /\ place \in [DOMAIN nav.entries -> Nat]
      /\ \A i \in DOMAIN nav.entries :
           IF nav.entries[i].file = f THEN place[i] = 0
           ELSE place[i] \in DOMAIN kept /\ kept[place[i]] = nav.entries[i]
      /\ Has(nav.index) /\ nav.entries[nav.index].file # f =>
           index \in DOMAIN kept /\ kept[index] = nav.entries[nav.index]
  BY PrunedHistory
<1>2. /\ closing' = closing \ {f} /\ nav' = [entries |-> kept, index |-> index]
      /\ cols' = IF active = f THEN {} ELSE cols \ {f}
      /\ IF active # f THEN active' = active /\ shown' = shown
         ELSE /\ shown' = None
              /\ IF reload THEN active' = kept[index].file
                 ELSE IF open' = {} THEN active' = None ELSE active' \in open'
      /\ pending' = None \/ (~reload /\ pending' = pending)
      /\ IF reload THEN /\ newest' = l /\ choice' = None
                        /\ load' = [Moved(place) EXCEPT ![l] = again]
         ELSE /\ newest' = newest /\ load' = Moved(place)
              /\ choice' = IF choice # None /\ choice.file = f THEN None ELSE choice
  <2>1. /\ closing' = closing \ {f} /\ nav' = [entries |-> kept, index |-> index]
        /\ cols' = IF active = f THEN {} ELSE cols \ {f}
    BY DEF FileClosed
  <2>2. IF active # f THEN active' = active /\ shown' = shown
        ELSE /\ shown' = None
             /\ IF reload THEN active' = kept[index].file
                ELSE IF open' = {} THEN active' = None ELSE active' \in open'
    BY DEF FileClosed
  <2>3. pending' = IF reload \/ (Stepping /\ load[pending].file = f) THEN None ELSE pending
    BY DEF FileClosed
  <2>4. IF reload THEN /\ newest' = l /\ choice' = None
                       /\ load' = [Moved(place) EXCEPT ![l] = again]
        ELSE /\ newest' = newest /\ load' = Moved(place)
             /\ choice' = IF choice # None /\ choice.file = f THEN None ELSE choice
    BY DEF FileClosed
  <2>5. pending' = None \/ (~reload /\ pending' = pending)
    <3> HIDE DEF reload
    <3> QED
      BY <2>3
  <2> QED
    BY <2>1, <2>2, <2>4, <2>5
<1>3. /\ open' \subseteq Files /\ f \notin open' /\ Known \ {f} \subseteq Known'
      /\ \A m \in Loads : load[m].file \in open' => load[m].file \in open
      /\ \A g \in Known : g \in open' => g \in open
  <2>1. PICK list \in Listed : f \notin list /\ open' = list
    BY DEF FileClosed
  <2> QED
    BY <1>2, <2>1 DEF Listed, Fresh, Known, Inv, Types
<1> HIDE DEF kept, index, place
<1>4. /\ Moved(place) \in [Loads -> LoadRecords]
      /\ \A m \in Loads :
           /\ Moved(place)[m].kind = load[m].kind /\ Moved(place)[m].file = load[m].file
           /\ Moved(place)[m].rec = load[m].rec
           /\ Moved(place)[m].entry = IF load[m].entry = 0 THEN 0 ELSE place[load[m].entry]
           /\ load[m] = Free <=> Moved(place)[m] = Free
  BY <1>1, MovedIs DEF Inv
<1> DEFINE Placed(m) == m.entry # 0 =>
             /\ m.kind = "step" /\ m.entry \in DOMAIN kept
             /\ kept[m.entry] = [file |-> m.file, rec |-> m.rec]
<1>5. \A m \in Loads : Placed(Moved(place)[m])
  <2> SUFFICES ASSUME NEW m \in Loads, Moved(place)[m].entry # 0
               PROVE  Placed(Moved(place)[m])
    OBVIOUS
  <2>1. load[m].entry # 0 /\ Moved(place)[m].entry = place[load[m].entry]
    BY <1>4
  <2>2. /\ load[m].kind = "step" /\ load[m].entry \in DOMAIN nav.entries
        /\ nav.entries[load[m].entry] = [file |-> load[m].file, rec |-> load[m].rec]
    BY <2>1 DEF Inv, HistoryInv, Has
  <2>3. /\ place[load[m].entry] \in DOMAIN kept
        /\ kept[place[load[m].entry]] = nav.entries[load[m].entry]
    BY <1>1, <2>1, <2>2
  <2> QED
    BY <1>4, <2>1, <2>2, <2>3
<1>6. /\ nav' \in [entries : Seq(Entries), index : Nat]
      /\ nav'.entries = kept /\ nav'.index = index
      /\ index \in DOMAIN kept \/ nav' = NoNav
  BY <1>1, <1>2 DEF NoNav
<1>7. closing' \subseteq Files /\ (shown' # None => shown' \in Records)
  BY <1>2 DEF Inv, Types
<1>8. CursorNamesShown'
  <2> SUFFICES ASSUME shown' # None
               PROVE  index \in DOMAIN kept /\ kept[index].file = active' /\ kept[index].rec = shown'
    BY <1>6 DEF CursorNamesShown, Has
  <2>1. active # f /\ active' = active /\ shown' = shown
    BY <1>2
  <2>2. Has(nav.index) /\ nav.entries[nav.index].file = active /\ nav.entries[nav.index].rec = shown
    BY <2>1 DEF Inv, CursorNamesShown
  <2> QED
    BY <1>1, <2>1, <2>2
<1>9. NothingLeadsToClosed'
  <2>1. \A k \in DOMAIN kept : kept[k].file \in Known'
    BY <1>1, <1>3
  <2>2. cols' \subseteq Known'
    BY <1>2, <1>3 DEF Inv, NothingLeadsToClosed
  <2>3. active' # None => active' \in Known'
    <3>1. CASE active # f
      BY <1>2, <1>3, <3>1 DEF Inv, NothingLeadsToClosed
    <3>2. CASE active = f /\ reload
      BY <1>1, <1>2, <2>1, <3>2
    <3>3. CASE active = f /\ ~reload
      BY <1>2, <3>3 DEF Known
    <3> QED
      BY <3>1, <3>2, <3>3
  <2> QED
    BY <1>6, <2>1, <2>2, <2>3 DEF NothingLeadsToClosed
<1>10. CASE reload
  <2>1. index \in DOMAIN kept /\ kept[index] \in Entries
    BY <1>1, <1>10
  <2>2. /\ again \in LoadRecords /\ again # Free /\ again.entry = 0 /\ again.kind = "reload"
        /\ [file |-> again.file, rec |-> again.rec] = kept[index]
    BY <2>1 DEF LoadRecords, Kinds, Entries, Free
  <2> HIDE DEF again
  <2>3. /\ load' \in [Loads -> LoadRecords] /\ load'[l] = again
        /\ \A m \in Loads : m # l => load'[m] = Moved(place)[m]
        /\ newest' = l /\ pending' = None /\ choice' = None /\ l # None
    BY <1>2, <1>4, <1>10, <2>2, NoneAssumption
  <2>4. Types'
    BY <1>3, <1>6, <1>7, <2>3 DEF Types
  <2>5. HistoryInv'
    <3>1. \A m \in Loads : Placed(load'[m])
      BY <1>5, <2>2, <2>3
    <3> QED
      BY <1>6, <3>1 DEF HistoryInv, Has
  <2>6. NewestInv'
    BY <1>6, <2>1, <2>2, <2>3 DEF NewestInv, AtCursor, Has
  <2>7. ChoiceInv'
    BY <2>3 DEF ChoiceInv
  <2> QED
    BY <1>8, <1>9, <2>4, <2>5, <2>6, <2>7 DEF Inv
<1>11. CASE ~reload
  <2>1. /\ load' = Moved(place) /\ newest' = newest
        /\ pending' = None \/ pending' = pending
        /\ choice' # None => choice' = choice /\ choice.file # f
    BY <1>2, <1>11
  <2>2. Types'
    BY <1>3, <1>4, <1>6, <1>7, <2>1 DEF Inv, Types
  <2>3. HistoryInv'
    BY <1>5, <1>6, <2>1 DEF HistoryInv, Has
  <2>4. NewestInv'
    <3>1. newest # None => newest \in Loads /\ load[newest] # Free /\ load'[newest] # Free
      BY <1>4, <2>1 DEF Inv, Types, NewestInv
    <3>2. ASSUME newest # None, load'[newest].file \in open'
          PROVE  /\ load'[newest].kind = "step" => load'[newest].entry # 0
                 /\ load'[newest].kind = "reload" =>
                      /\ index \in DOMAIN kept
                      /\ kept[index] = [file |-> load'[newest].file, rec |-> load'[newest].rec]
      <4>1. /\ load'[newest].file = load[newest].file /\ load'[newest].kind = load[newest].kind
            /\ load'[newest].rec = load[newest].rec
            /\ load[newest].file \in open /\ load[newest].file # f
        BY <1>3, <1>4, <2>1, <3>1, <3>2
      <4>2. /\ load[newest].kind = "step" => load[newest].entry # 0
            /\ load[newest].kind = "reload" => AtCursor(load[newest].file, load[newest].rec)
        BY <3>2, <4>1 DEF Inv, NewestInv
      <4>3. ASSUME load[newest].kind = "step"
            PROVE  load'[newest].entry # 0
        <5>1. /\ load[newest].entry # 0 /\ load[newest].entry \in DOMAIN nav.entries
              /\ nav.entries[load[newest].entry] = [file |-> load[newest].file, rec |-> load[newest].rec]
          BY <3>1, <3>2, <4>2, <4>3 DEF Inv, HistoryInv, Has
        <5>2. nav.entries[load[newest].entry].file # f
          BY <4>1, <5>1
        <5>3. place[load[newest].entry] \in DOMAIN kept
          BY <1>1, <5>1, <5>2
        <5>4. load'[newest].entry = place[load[newest].entry]
          BY <1>4, <2>1, <3>1, <3>2, <5>1
        <5> QED
          BY <1>1, <5>3, <5>4
      <4>4. ASSUME load[newest].kind = "reload"
            PROVE  index \in DOMAIN kept /\ kept[index] = [file |-> load[newest].file, rec |-> load[newest].rec]
        <5>1. /\ Has(nav.index)
              /\ nav.entries[nav.index] = [file |-> load[newest].file, rec |-> load[newest].rec]
          BY <4>2, <4>4 DEF AtCursor
        <5> QED
          BY <1>1, <4>1, <5>1
      <4> QED
        BY <4>1, <4>3, <4>4
    <3>3. pending' # None => pending' = newest'
      BY <2>1 DEF Inv, NewestInv
    <3> QED
      BY <1>6, <2>1, <3>1, <3>2, <3>3 DEF NewestInv, AtCursor, Has
  <2>5. ChoiceInv'
    <3> SUFFICES ASSUME choice' # None
                 PROVE  /\ choice.file \in Known'
                        /\ choice.file \in open' =>
                             IF newest = None THEN active' = choice.file /\ shown' = choice.rec
                             ELSE load'[newest].file = choice.file /\ load'[newest].rec = choice.rec
      BY <2>1 DEF ChoiceInv
    <3>1. choice # None /\ choice.file # f /\ choice.file \in Known
      BY <2>1 DEF Inv, ChoiceInv
    <3>2. choice.file \in Known' /\ (choice.file \in open' => choice.file \in open)
      BY <1>3, <3>1
    <3>3. CASE newest = None
      BY <1>2, <3>1, <3>2, <3>3 DEF Inv, ChoiceInv
    <3>4. CASE newest # None
      BY <1>4, <2>1, <3>1, <3>2, <3>4 DEF Inv, ChoiceInv, Types
    <3> QED
      BY <3>2, <3>3, <3>4
  <2> QED
    BY <1>8, <1>9, <2>2, <2>3, <2>4, <2>5 DEF Inv
<1> QED
  BY <1>10, <1>11

-----------------------------------------------------------------------------
(* The theorems.                                                           *)

LEMMA NextKeeps == Inv /\ [Next]_vars => Inv'
<1> SUFFICES ASSUME Inv, [Next]_vars
             PROVE  Inv'
  OBVIOUS
<1>1. CASE UNCHANGED vars
  BY <1>1 DEF vars, Inv, Types, HistoryInv, NewestInv, ChoiceInv, CursorNamesShown,
              NothingLeadsToClosed, Has, AtCursor, Known
<1>2. ASSUME NEW l \in Loads, NEW f \in Files, NEW r \in Records, Navigate(l, f, r)
      PROVE  Inv'
  <2>1. StartPending(l, "new", f, r, 0) /\ UNCHANGED <<files, display, nav>> /\ f \in open
    BY <1>2 DEF Navigate
  <2>2. FilesLast /\ f \in Known'
    BY <2>1 DEF FilesLast, files, Known
  <2> QED
    BY <2>1, <2>2, StartPendingKeeps
<1>3. ASSUME NEW l \in Loads, NEW f \in Files, SelectFile(l, f)
      PROVE  Inv'
  <2>1. f \in open' /\ FilesLast /\ Select(l, f) /\ UNCHANGED nav
    BY <1>3 DEF SelectFile, FilesLast, files
  <2> QED
    BY <2>1, SelectKeeps
<1>4. ASSUME NEW l \in Loads, LoadStep(l)
      PROVE  Inv'
  BY <1>2, <1>3, <1>4, AnswerKeeps, RejectKeeps, OpenedKeeps, FileClosedKeeps, StepKeeps
     DEF LoadStep
<1> QED
  BY <1>1, <1>4, CancelKeeps, ClosesKeeps DEF Next

LEMMA Invariant == Spec => []Inv
<1>1. Init => Inv
  BY DEF Init, Inv, Types, HistoryInv, NewestInv, ChoiceInv, CursorNamesShown,
         NothingLeadsToClosed, NoNav, Has, LoadRecords, Free, Entries
<1> QED
  BY <1>1, NextKeeps, PTL DEF Spec

(* The history cursor always names what is shown (store.ts, onShown).      *)
THEOREM CursorAlwaysNamesShown == Spec => []CursorNamesShown
<1>1. Inv => CursorNamesShown
  BY DEF Inv
<1> QED
  BY <1>1, Invariant, PTL

(* With no load in flight, what the user chose last is what is shown, as   *)
(* long as its file is open: late answers change nothing (loadRecord).     *)
THEOREM LastChoiceAlwaysWins == Spec => []LastChoiceWins
<1>1. Inv => LastChoiceWins
  BY DEF Inv, LastChoiceWins, ChoiceInv, NewestInv, InFlight, Types
<1> QED
  BY <1>1, Invariant, PTL

(* Neither the view nor the history names a file that is gone.             *)
THEOREM NothingEverLeadsToClosed == Spec => []NothingLeadsToClosed
<1>1. Inv => NothingLeadsToClosed
  BY DEF Inv
<1> QED
  BY <1>1, Invariant, PTL
=============================================================================
