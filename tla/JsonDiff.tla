------------------------------- MODULE JsonDiff -------------------------------
(***************************************************************************)
(* The diff of two decoded values (diff/mod.rs json_diff, the pairing of   *)
(* array elements in diff/array_diff.rs) and the references it touches     *)
(* (diff/provenance.rs).                                                   *)
(*                                                                         *)
(* A value is [k |-> "null"], [k |-> "val" or "hex", v |-> x],             *)
(* [k |-> "arr", items |-> seq] or [k |-> "obj", of |-> function], as JSON *)
(* has it; hex is a string that reads as a FormID.  The decoder's typed    *)
(* tree also has [k |-> "ref", v |-> x], a real FormID, rendered as hex.   *)
(*                                                                         *)
(* A diff is [d |-> "leaf", from, to], [d |-> "fields", of |-> function]   *)
(* or [d |-> "array", ...]; the diff with no fields says no change.        *)
(***************************************************************************)
EXTENDS Integers, SequencesExt, BagsExt

Null == [k |-> "null"]
Missing == [k |-> "missing"]
Obj(f) == [k |-> "obj", of |-> f]
Same == [d |-> "fields", of |-> <<>>]
Leaf(from, to) == [d |-> "leaf", from |-> from, to |-> to]

IsPrimitive(v) == v.k \notin {"obj", "arr"}
AllOf(kind, s) == \A v \in ToSet(s) : v.k = kind

-----------------------------------------------------------------------------
(* Keys: what identifies an array element *)

\* The only member of a wrapper object, when it is an object itself.
Wrapper(v) ==
  IF Cardinality(DOMAIN v.of) = 1 /\ \A name \in DOMAIN v.of : v.of[name].k = "obj"
  THEN CHOOSE name \in DOMAIN v.of : TRUE ELSE "none"
Body(v) == IF Wrapper(v) = "none" THEN v ELSE v.of[Wrapper(v)]

IndexNames == {"Index", "Edge Index", "Parent Index"}
IsFormIdShaped(v) == v.k = "hex" \/ (v.k = "obj" /\ "formid" \in DOMAIN v.of)

\* A key is a sequence of components, a component a sequence of alternative
\* paths, a path a sequence of member names.
One(name) == <<<< <<name>> >>>>
Ordered(names) == SetToSeq(names)

\* The first rule that applies to the sample element names the key.
KeyRules(wrapper, body) ==
  LET names == DOMAIN body.of
      indices == names \cap IndexNames
      ids == {n \in names : IsFormIdShaped(body.of[n])}
      has(n) == n \in names
      rule(when, key) == [when |-> when, key |-> key]
      key(members) == [i \in DOMAIN Ordered(members) |-> << <<Ordered(members)[i]>> >>]
  IN  << rule(has("Function Type") /\ has("Property"), One("Function Type") \o One("Property")),
         rule(wrapper = "Leveled List Entry",
              << << <<"Reference">>, <<"Item">> >>, << <<"Minimum Level">>, <<"Level">> >> >>),
         rule(wrapper = "Effect", One("Base Effect")),
         rule(has("Component"), One("Component")),
         rule(has("Item Type"), One("Item Type")),
         rule(wrapper = "Objective", One("Objective Index")),
         rule(wrapper = "Stage", << << <<"INDX", "Stage Index">> >> >>),
         rule(wrapper = "Bone Scale Modifier", One("Bone Name")),
         rule(wrapper = "Attack", One("Attack Event")),
         rule(has("Faction"), One("Faction")),
         rule(has("Perk"), One("Perk")),
         rule(has("Mod"), One("Mod")),
         rule(has("Keyword") /\ has("Sound"), One("Keyword")),
         rule(has("Alias ID"), One("Alias ID")),
         rule(indices # {}, IF indices = {} THEN <<>> ELSE <<Head(key(indices))>>),
         rule(has("name") /\ has("type") /\ has("value"), One("name")),
         rule(has("fragment_name") /\ has("quest_stage"), One("fragment_name")),
         rule(ids # {}, key(ids)) >>

ElementKeySpec(sample) ==
  LET rules == KeyRules(Wrapper(sample), Body(sample))
      hits == {i \in DOMAIN rules : rules[i].when}
  IN  IF hits = {} THEN <<>> ELSE rules[Min(hits)].key

\* The value at a path, Missing where the path leaves the objects.
GetPath(body, path) ==
  LET step(v, name) == IF v.k = "obj" /\ name \in DOMAIN v.of THEN v.of[name] ELSE Missing
  IN  FoldLeft(step, body, path)

CanonicalKeyValue(v) ==
  CASE v.k = "obj" /\ "value" \in DOMAIN v.of -> v.of["value"]
    [] v.k = "obj" /\ "value" \notin DOMAIN v.of /\ "formid" \in DOMAIN v.of -> v.of["formid"]
    [] v = Missing -> Null
    [] OTHER -> v

\* The first alternative that the element has.
KeyPath(body, alternatives) ==
  LET hits == {i \in DOMAIN alternatives : GetPath(body, alternatives[i]) # Missing}
  IN  IF hits = {} THEN alternatives[1] ELSE alternatives[Min(hits)]
KeyComponent(body, alternatives) ==
  CanonicalKeyValue(GetPath(body, KeyPath(body, alternatives)))

KeyOf(v, spec) == [i \in DOMAIN spec |-> KeyComponent(Body(v), spec[i])]

KeysUnique(s, spec) == \A i, j \in DOMAIN s : KeyOf(s[i], spec) = KeyOf(s[j], spec) => i = j

PruneDegenerate(a, b, spec) ==
  LET identifies(component) == \E v \in ToSet(a \o b) : KeyComponent(Body(v), component) # Null
  IN  SelectSeq(spec, identifies)

\* Members down to two objects deep that hold no array.
RECURSIVE ScalarLeafPaths(_, _)
ScalarLeafPaths(body, depth) ==
  UNION {LET v == body.of[name] IN
         IF v.k = "obj" /\ depth < 2 /\ ~IsFormIdShaped(v)
         THEN {<<name>> \o path : path \in ScalarLeafPaths(v, depth + 1)}
         ELSE IF v.k = "arr" THEN {} ELSE {<<name>>} : name \in DOMAIN body.of}

\* Components are added one at a time until both sides' keys are unique.
WidenUntilUnique(a, b, spec, sample) ==
  LET used == UNION {ToSet(component) : component \in ToSet(spec)}
      more == SetToSeq(ScalarLeafPaths(Body(sample), 0) \ used)
      widened(n) == spec \o [i \in 1..n |-> <<more[i]>>]
      good == {n \in 0..Len(more) : KeysUnique(a, widened(n)) /\ KeysUnique(b, widened(n))}
  IN  IF good = {} THEN <<>> ELSE widened(Min(good))

-----------------------------------------------------------------------------
(* The longest common subsequence, aligned in order *)

LcsOf(a, b) ==
  LET len[i \in 1..(Len(a) + 1), j \in 1..(Len(b) + 1)] ==
        IF i > Len(a) \/ j > Len(b) THEN 0
        ELSE IF a[i] = b[j] THEN len[i + 1, j + 1] + 1
        ELSE Max({len[i + 1, j], len[i, j + 1]})
      from[i \in 1..(Len(a) + 1), j \in 1..(Len(b) + 1)] ==
        CASE i > Len(a) \/ j > Len(b) ->
               [removed |-> SubSeq(a, i, Len(a)), added |-> SubSeq(b, j, Len(b))]
          [] i <= Len(a) /\ j <= Len(b) /\ a[i] = b[j] -> from[i + 1, j + 1]
          [] i <= Len(a) /\ j <= Len(b) /\ a[i] # b[j] /\ len[i + 1, j] >= len[i, j + 1] ->
               [from[i + 1, j] EXCEPT !.removed = <<a[i]>> \o @]
          [] OTHER -> [from[i, j + 1] EXCEPT !.added = <<b[j]>> \o @]
  IN  from[1, 1]

\* What both ends share is set aside first.
LcsAlign(a, b) ==
  LET shared(s, t) == Len(LongestCommonPrefix({s, t}))
      start == shared(a, b)
      rest(s) == SubSeq(s, start + 1, Len(s))
      tail == shared(Reverse(rest(a)), Reverse(rest(b)))
      middle(s) == SubSeq(s, start + 1, Len(s) - tail)
  IN  LcsOf(middle(a), middle(b))

-----------------------------------------------------------------------------
(* Order *)

OrderSignificantFields == {"Points", "Vertices", "Triangles", "Edge Links", "Cover Array", "Names"}
SlotIndexedFields == {"Biped Object Condition AVs", "RBPI - Unknown"}
PapyrusArray == [k |-> "val", v |-> "papyrus array"]

IsIndexedArray(name, parent) ==
  CASE name = "value" -> /\ {"name", "type"} \subseteq DOMAIN parent.of
                         /\ parent.of["type"] = PapyrusArray
    [] name = "items" -> "_variable_array" \in DOMAIN parent.of
    [] OTHER -> name \in SlotIndexedFields

IsOrderSignificant(name, parent) ==
  name \in OrderSignificantFields \/ IsIndexedArray(name, parent)

IsConditionList(items) ==
  \E v \in ToSet(items) : v.k = "obj" /\ DOMAIN v.of = {"Condition"}

\* A value with the order of its arrays forgotten, where it has no meaning.
RECURSIVE OrderFree(_, _)
OrderFree(v, keep) ==
  CASE v.k = "obj" -> Obj([n \in DOMAIN v.of |-> OrderFree(v.of[n], IsOrderSignificant(n, v))])
    [] v.k = "arr" ->
         LET items == [i \in DOMAIN v.items |-> OrderFree(v.items[i], FALSE)]
         IN  IF keep \/ IsConditionList(v.items)
             THEN [k |-> "arr", items |-> items] ELSE [k |-> "bag", items |-> ToBag(items)]
    [] OTHER -> v

IsReorderOnly(a, b) ==
  /\ ~IsConditionList(a) /\ ~IsConditionList(b)
  /\ LET free(s) == ToBag([i \in DOMAIN s |-> OrderFree(s[i], FALSE)])
     IN  free(a) = free(b)

-----------------------------------------------------------------------------
(* The diff *)

Envelope(strategy, removed, added, changed) ==
  IF removed = <<>> /\ added = <<>> /\ changed = <<>> /\ strategy # "unkeyed" THEN Same
  ELSE [d |-> "array", strategy |-> strategy, key |-> <<>>, removed |-> removed,
        added |-> added, changed |-> changed, reorderOnly |-> FALSE]

\* Primitives, as multisets.
SetDiff(a, b) ==
  LET left == ToBag(a) right == ToBag(b)
      flat(bag) == FoldLeft(LAMBDA s, v : s \o [i \in 1..bag[v] |-> v], <<>>, SetToSeq(DOMAIN bag))
  IN  Envelope("set", flat(left (-) right), flat(right (-) left), <<>>)

UnkeyedDiff(a, b) == LET lcs == LcsAlign(a, b) IN Envelope("unkeyed", lcs.removed, lcs.added, <<>>)

RECURSIVE Diff(_, _)

PairDiffs(pairs, a, b) ==
  LET change(p) == [from |-> p[1], to |-> p[2], changes |-> Diff(a[p[1]], b[p[2]])]
      real(c) == c.changes # Same
  IN  SelectSeq([i \in DOMAIN pairs |-> change(pairs[i])], real)

PositionalDiff(a, b) ==
  Envelope("positional", <<>>, <<>>, PairDiffs([i \in DOMAIN a |-> <<i, i>>], a, b))

\* Elements of one key pair up in order; what is left is removed or added.
KeyedDiff(a, b, spec) ==
  LET nth(s, i) == Cardinality({j \in 1..i : KeyOf(s[j], spec) = KeyOf(s[i], spec)})
      match(i, j) == KeyOf(a[i], spec) = KeyOf(b[j], spec) /\ nth(a, i) = nth(b, j)
      lone(s, t, same(_, _)) ==
        LET alone(i) == ~\E j \in DOMAIN t : same(i, j)
            kept == SelectSeq([i \in DOMAIN s |-> i], alone)
        IN  [n \in DOMAIN kept |-> s[kept[n]]]
      paired(i) == \E j \in DOMAIN b : match(i, j)
      from == SelectSeq([i \in DOMAIN a |-> i], paired)
      pairs == [n \in DOMAIN from |-> <<from[n], CHOOSE j \in DOMAIN b : match(from[n], j)>>]
      under(diff) == IF diff = Same THEN Same ELSE [diff EXCEPT !.key = spec]
  IN  under(Envelope("keyed", lone(a, b, match), lone(b, a, LAMBDA j, i : match(i, j)), PairDiffs(pairs, a, b)))

\* Without a key: positions, if there are as many on both sides.
KeylessDiff(a, b) ==
  IF Len(a) = Len(b) /\ (AllOf("arr", a \o b) \/ AllOf("obj", a \o b)) THEN PositionalDiff(a, b) ELSE UnkeyedDiff(a, b)

\* The pairing: a key if the elements have one, positions if the lengths
\* agree, multisets of primitives, and otherwise an alignment in order.
StrategyDiff(a, b) ==
  LET spec == IF AllOf("obj", a \o b) THEN PruneDegenerate(a, b, ElementKeySpec(Head(a \o b))) ELSE <<>>
      wide == WidenUntilUnique(a, b, spec, Head(a \o b))
  IN  IF a = b THEN Same
      ELSE IF \A v \in ToSet(a \o b) : IsPrimitive(v) THEN SetDiff(a, b)
      ELSE IF spec = <<>> THEN KeylessDiff(a, b)
      ELSE IF wide = <<>> THEN UnkeyedDiff(a, b) ELSE KeyedDiff(a, b, wide)

ArrayDiff(a, b) ==
  LET mark(diff) == IF diff = Same THEN Same ELSE [diff EXCEPT !.reorderOnly = IsReorderOnly(a, b)]
  IN  mark(StrategyDiff(a, b))

IndexedArrayDiff(a, b) ==
  IF a = b THEN Same ELSE IF Len(a) = Len(b) THEN PositionalDiff(a, b) ELSE UnkeyedDiff(a, b)

\* One member of an object: absent and null both mean no value, and the mark
\* of a mere reordering is taken off where order matters.
MemberDiff(name, a, b) ==
  LET at(v) == IF name \in DOMAIN v.of THEN v.of[name] ELSE Null
      both == name \in DOMAIN a.of /\ name \in DOMAIN b.of
      ordered(diff) == IF diff.d = "array" /\ IsOrderSignificant(name, a)
                       THEN [diff EXCEPT !.reorderOnly = FALSE] ELSE diff
  IN  IF ~both THEN (IF at(a) = at(b) THEN Same ELSE Leaf(at(a), at(b)))
      ELSE ordered(IF at(a).k = "arr" /\ at(b).k = "arr" /\ IsIndexedArray(name, a)
                   THEN IndexedArrayDiff(at(a).items, at(b).items) ELSE Diff(at(a), at(b)))

Diff(a, b) ==
  CASE a = b -> Same
    [] a # b /\ a.k = "obj" /\ b.k = "obj" ->
         LET real(changes) == {n \in DOMAIN changes : changes[n] # Same}
             fields(changes) == [d |-> "fields", of |-> Restrict(changes, real(changes))]
         IN  fields([n \in DOMAIN a.of \union DOMAIN b.of |-> MemberDiff(n, a, b)])
    [] a # b /\ a.k = "arr" /\ b.k = "arr" -> ArrayDiff(a.items, b.items)
    [] OTHER -> Leaf(a, b)

-----------------------------------------------------------------------------
(* The references a diff touches *)

RECURSIVE Rendered(_)
Rendered(v) ==
  CASE v.k = "ref" -> [k |-> "hex", v |-> v.v]
    [] v.k = "obj" -> Obj([n \in DOMAIN v.of |-> Rendered(v.of[n])])
    [] v.k = "arr" -> [k |-> "arr", items |-> [i \in DOMAIN v.items |-> Rendered(v.items[i])]]
    [] OTHER -> v

RECURSIVE FormIdsIn(_)
FormIdsIn(v) ==
  CASE v.k = "ref" -> {v.v}
    [] v.k = "obj" -> UNION {FormIdsIn(v.of[n]) : n \in DOMAIN v.of}
    [] v.k = "arr" -> UNION {FormIdsIn(w) : w \in ToSet(v.items)}
    [] OTHER -> {}

(* Mutant: of elements that render alike the first ones are taken. *)
ElementsOf_InOrder(rendering, side, other) ==
  SelectSeq(side, LAMBDA v : Rendered(v) = rendering)

\* The typed elements an added or removed rendering can have come from: of
\* those that render alike, the ones the other side has fewer of come first.
ElementsOf(rendering, side, other) ==
  LET count(s, v, n) == Cardinality({i \in 1..n : s[i] = v})
      alike == SelectSeq(side, LAMBDA v : Rendered(v) = rendering)
      extra(i) == count(alike, alike[i], i) > count(other, alike[i], Len(other))
      indices == [i \in DOMAIN alike |-> i]
      order == SelectSeq(indices, extra) \o SelectSeq(indices, LAMBDA i : ~extra(i))
  IN  [i \in DOMAIN order |-> alike[order[i]]]

\* Each listed element takes the next of the elements it can have come from.
TakenIds(listed, side, other) ==
  UNION {LET from == ElementsOf(listed[i], side, other)
             nth == Cardinality({j \in 1..i : listed[j] = listed[i]})
         IN  IF nth <= Len(from) THEN FormIdsIn(from[nth]) ELSE {} : i \in DOMAIN listed}

RECURSIVE ChangedRefs(_, _, _)
ChangedRefs(diff, a, b) ==
  LET at(v, n) == GetPath(v, <<n>>)
      keyIds(v) == {w.v : w \in {w \in {GetPath(Body(v), KeyPath(Body(v), c)) : c \in ToSet(diff.key)}
                                    : w.k = "ref"}}
  IN  CASE diff.d = "leaf" -> FormIdsIn(a) \union FormIdsIn(b)
        [] diff.d = "fields" -> UNION {ChangedRefs(diff.of[n], at(a, n), at(b, n)) : n \in DOMAIN diff.of}
        [] diff.d = "array" ->
             UNION {ChangedRefs(c.changes, a.items[c.from], b.items[c.to])
                      \union keyIds(a.items[c.from]) \union keyIds(b.items[c.to])
                    : c \in ToSet(diff.changed)}
               \union TakenIds(diff.removed, a.items, b.items)
               \union TakenIds(diff.added, b.items, a.items)
=============================================================================
