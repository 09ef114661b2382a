------------------------------ MODULE DropTable ------------------------------
(***************************************************************************)
(* The drop odds of a leveled list (lvli.rs): its entries are filtered by  *)
(* level and gated by their conditions, one or all are selected, a chance  *)
(* of none is taken off, and a list among them is drawn from in turn.      *)
(*                                                                         *)
(* A database of lists is [lists, bad]: lists[id] is                       *)
(*   [useAll, firstMatch, calcAll, unmodelled, none, entries]              *)
(* and bad the ones that cannot be fetched; any other id is an item.  An   *)
(* entry is [target, legacy, extra, level, none, quantity, rows]; none,    *)
(* level and quantity are scalars [flat, global, curve], of which a legacy *)
(* entry has the flat one only; a row of its conditions is [random, op,    *)
(* percent, or].  Odds are exact fractions where the code has f64.         *)
(***************************************************************************)
EXTENDS Fractions, SequencesExt

NoForm == 0
Unset == -1
Unreadable == -2

-----------------------------------------------------------------------------
(* Scalars *)

\* A curve wins, read at its Global or else at the player's level; without a
\* curve a Global wins over the flat value.  A curve is a function of the
\* inputs it has, or <<>> when it is not loaded.
ResolveScalar(s, readsLevel, level) ==
  LET input == IF s.global = Unset THEN (IF readsLevel THEN level ELSE Unset) ELSE s.global
      curved == s.curve # Unset
      read == curved /\ input \notin {Unset, Unreadable} /\ input \in DOMAIN s.curve
  IN  [value |-> CASE read -> s.curve[input]
                   [] ~curved /\ s.global \notin {Unset, Unreadable} -> s.global
                   [] OTHER -> s.flat,
       notes |-> IF s.global = Unreadable \/ (curved /\ ~read) THEN {"unresolved"} ELSE {}]

ScalarOf(entry, s, readsLevel, level) ==
  IF entry.legacy THEN [value |-> s.flat, notes |-> {}] ELSE ResolveScalar(s, readsLevel, level)

PercentToProbability(n) == IF n = Unset THEN Zero ELSE Clamp(Frac(n, 100))

ResolveMinLevel(entry, level) == ScalarOf(entry, entry.level, FALSE, level)
EntryChanceNone(entry, level) == ScalarOf(entry, entry.none, TRUE, level)

\* A quantity of 0 means the sublist's own count.
ResolveQuantity(entry, level) ==
  [ScalarOf(entry, entry.quantity, TRUE, level) EXCEPT !.value = IF @ \in {Unset, 0} THEN 1 ELSE @]

-----------------------------------------------------------------------------
(* Gates *)

\* Only a random roll has odds; any other gate is guessed and noted.
ConditionRowProb(row, strict) ==
  IF ~row.random \/ row.percent = Unset \/ row.op \notin {"gt", "lt"}
  THEN [p |-> IF strict THEN Zero ELSE Unit, notes |-> {"gated"}]
  ELSE [p |-> Clamp(Frac(IF row.op = "gt" THEN 100 - row.percent ELSE row.percent, 100)),
        notes |-> {}]

\* Rows joined by OR form a group; the groups are joined by AND.
CloseGroup(acc) == [total |-> Times(acc.total, Rest(acc.fail)), fail |-> Unit]
EntryGateProb(rows, strict) ==
  LET fails(acc, i) == [acc EXCEPT !.fail = Times(@, Rest(ConditionRowProb(rows[i], strict).p))]
      step(acc, i) == IF rows[i].or /\ i < Len(rows) THEN fails(acc, i) ELSE CloseGroup(fails(acc, i))
  IN  [p |-> FoldLeft(step, [total |-> Unit, fail |-> Unit], [i \in DOMAIN rows |-> i]).total,
       notes |-> UNION {ConditionRowProb(row, strict).notes : row \in ToSet(rows)}]

-----------------------------------------------------------------------------
(* One list at a level *)

SelectionModel(list) ==
  CASE list.useAll -> "UseAll" [] ~list.useAll /\ list.firstMatch -> "UseFirstMatch" [] OTHER -> "Pool"

EntryAs(target, gate, none, quantity, least) ==
  [target |-> target, gate |-> gate.p, none |-> PercentToProbability(none.value),
   quantity |-> quantity.value, least |-> least.value,
   notes |-> gate.notes \union none.notes \union quantity.notes \union least.notes]
ResolveEntry(entry, opts) ==
  EntryAs(entry.target, EntryGateProb(entry.rows, opts.strict), EntryChanceNone(entry, opts.level),
          ResolveQuantity(entry, opts.level), ResolveMinLevel(entry, opts.level))

ListAs(list, entries, none) ==
  LET tiers == {e.least : e \in ToSet(entries)} \ {Unset}
      odd == \/ list.unmodelled
             \/ \E e \in ToSet(list.entries) : e.extra
             \/ ~list.calcAll /\ Cardinality(tiers) > 1
  IN  [model |-> SelectionModel(list), entries |-> entries,
       factor |-> Rest(PercentToProbability(none.value)),
       notes |-> none.notes \union (IF odd THEN {"unresolved"} ELSE {})]
ResolveList(list, opts) ==
  LET qualifies(e) == e.least <= opts.level
      all == [i \in DOMAIN list.entries |-> ResolveEntry(list.entries[i], opts)]
  IN  ListAs(list, SelectSeq(all, qualifies), ResolveScalar(list.none, TRUE, opts.level))

SumOf(f) == FoldFunction(Plus, Zero, f)
ProductOf(f) == FoldFunction(Times, Unit, f)

\* Every subset of the gates that may pass, by its odds, shared evenly.
ComputePoolOdds(gates) ==
  LET n == DOMAIN gates
      odds(passing) == ProductOf([i \in n |-> IF i \in passing THEN gates[i] ELSE Rest(gates[i])])
      share(i) == SumOf([s \in {s \in SUBSET n : i \in s} |-> Over(odds(s), Frac(Cardinality(s), 1))])
  IN  [i \in n |-> share(i)]

MeanFieldPoolOdds(gates) ==
  LET sum == SumOf(gates)
  IN  [i \in DOMAIN gates |-> Over(gates[i], IF Leq(sum, Unit) THEN Unit ELSE sum)]

SelectionOdds(list, maxExact) ==
  LET gates == [i \in DOMAIN list.entries |-> list.entries[i].gate]
      missed(i) == ProductOf([j \in 1..(i - 1) |-> Rest(gates[j])])
      capped == list.model = "Pool" /\ Len(gates) > maxExact
  IN  [capped |-> capped,
       odds |-> CASE list.model = "UseAll" -> gates
                  [] list.model = "UseFirstMatch" -> [i \in DOMAIN gates |-> Times(gates[i], missed(i))]
                  [] list.model = "Pool" /\ capped -> MeanFieldPoolOdds(gates)
                  [] OTHER -> ComputePoolOdds(gates)]

-----------------------------------------------------------------------------
(* The recursive walk *)

(* Mutant: the leaves of a pool are merged as if its entries were independent. *)
MergeLeaf_Independent(leaves, id, p, expected, disjoint, notes) ==
  LET old == IF id \in DOMAIN leaves THEN leaves[id] ELSE [p |-> Zero, expected |-> Zero, notes |-> {}]
  IN  (id :> [p |-> Rest(Times(Rest(old.p), Rest(p))),
              expected |-> Plus(old.expected, expected),
              notes |-> old.notes \union notes]) @@ leaves

\* Entries of one pool exclude each other, those of "use all" do not.
MergeLeaf(leaves, id, p, expected, disjoint, notes) ==
  LET old == IF id \in DOMAIN leaves THEN leaves[id] ELSE [p |-> Zero, expected |-> Zero, notes |-> {}]
      sum == Plus(old.p, p)
      both == Rest(Times(Rest(old.p), Rest(p)))
  IN  (id :> [p |-> IF ~disjoint THEN both ELSE IF Leq(sum, Unit) THEN sum ELSE Unit,
              expected |-> Plus(old.expected, expected),
              notes |-> old.notes \union notes]) @@ leaves

IsSublist(db, id) == id \in DOMAIN db.lists

Nothing == [empty |-> Unit, leaves |-> <<>>, truncated |-> FALSE, notes |-> {}, tree |-> <<>>]
Itself(id) == [Nothing EXCEPT !.empty = Zero,
                              !.leaves = id :> [p |-> Unit, expected |-> Unit, notes |-> {}]]

\* The odds of an entry and of what it brings, per root draw.
Scaled(scale, list, entry, effective) ==
  [levels |-> IF scale.levels = 0 THEN 0 ELSE scale.levels - 1,
   p |-> Times(scale.p, Times(list.factor, effective)),
   expected |-> Times(Times(scale.expected, list.factor), Times(effective, Frac(entry.quantity, 1)))]

\* The leaves of an entry's node are merged into those of the entries before.
AddEntry(got, entry, effective, disjoint, reached, drawn) ==
  LET node == drawn.node
      notes == entry.notes \union drawn.how
      merge(acc, leaf) ==
        MergeLeaf(acc, leaf, Times(effective, node.leaves[leaf].p),
                  Times(Times(effective, Frac(entry.quantity, 1)), node.leaves[leaf].expected),
                  disjoint, notes \union node.leaves[leaf].notes)
      survive == Times(effective, Rest(node.empty))
      branch == [target |-> entry.target,
                 expected |-> Times(reached.expected, SumOf([leaf \in DOMAIN node.leaves |-> node.leaves[leaf].expected])),
                 p |-> Times(reached.p, Rest(node.empty)),
                 notes |-> notes, sublist |-> node.tree]
  IN  [leaves |-> FoldLeft(merge, got.leaves, SetToSeq(DOMAIN node.leaves)),
       some |-> IF disjoint THEN Plus(got.some, survive) ELSE Rest(Times(Rest(got.some), Rest(survive))),
       truncated |-> got.truncated \/ node.truncated,
       tree |-> Append(got.tree, branch)]

\* scale holds the tree levels left and the odds of this node per root draw.
\* The entries are drawn in order; got is what they gave so far.
RECURSIVE WalkNode(_, _, _, _, _)

Draw(db, opts, entry, path, reached) ==
  LET target == entry.target
  IN  CASE ~IsSublist(db, target) -> [how |-> {}, node |-> Itself(target)]
        [] IsSublist(db, target) /\ target \in ToSet(path) -> [how |-> {"cycle"}, node |-> Nothing]
        [] IsSublist(db, target) /\ target \notin ToSet(path) /\ Len(path) > opts.maxDepth ->
             [how |-> {"depth_capped"}, node |-> [Itself(target) EXCEPT !.truncated = TRUE]]
        [] IsSublist(db, target) /\ target \notin ToSet(path) /\ Len(path) <= opts.maxDepth ->
             IF target \in db.bad THEN [how |-> {"unresolved"}, node |-> Nothing]
             ELSE [how |-> IF entry.quantity # 1 THEN {"quantity"} ELSE {},
                   node |-> WalkNode(db, opts, target, Append(path, target), reached)]

Enter(db, opts, list, path, scale, got, entry, effective) ==
  LET add(reached) ==
        AddEntry(got, entry, effective, list.model # "UseAll", reached, Draw(db, opts, entry, path, reached))
  IN  IF effective = Zero \/ entry.target = NoForm THEN got
      ELSE add(Scaled(scale, list, entry, effective))

\* A list's own chance of none and its notes apply to all that it gave.
Drawn(list, odds, scale, got) ==
  LET notes == list.notes \union (IF odds.capped THEN {"pool_capped"} ELSE {})
      scaled(leaf) == [p |-> Clamp(Times(leaf.p, list.factor)),
                       expected |-> Times(leaf.expected, list.factor), notes |-> leaf.notes \union notes]
      scale1(acc, leaf) == (leaf :> scaled(got.leaves[leaf])) @@ acc
  IN  [empty |-> Rest(Times(list.factor, Clamp(got.some))),
       leaves |-> FoldLeft(scale1, <<>>, SetToSeq(DOMAIN got.leaves)),
       truncated |-> got.truncated,
       notes |-> notes,
       tree |-> IF scale.levels = 0 THEN <<>> ELSE got.tree]

DrawAll(db, opts, path, scale, list, odds) ==
  LET enter(got, i) ==
        Enter(db, opts, list, path, scale, got, list.entries[i], Times(odds.odds[i], Rest(list.entries[i].none)))
      start == [leaves |-> <<>>, some |-> Zero, truncated |-> odds.capped, tree |-> <<>>]
  IN  Drawn(list, odds, scale, FoldLeft(enter, start, [i \in DOMAIN list.entries |-> i]))

WalkNode(db, opts, id, path, scale) ==
  LET walk(list) == DrawAll(db, opts, path, scale, list, SelectionOdds(list, opts.maxExact))
  IN  walk(ResolveList(db.lists[id], opts))

\* Rows and branches are sorted by their odds: a function and a sequence here.
DropTableOf(db, opts, root) ==
  WalkNode(db, opts, root, <<root>>, [levels |-> opts.treeDepth, p |-> Unit, expected |-> Unit])
=============================================================================
