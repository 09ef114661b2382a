-------------------------------- MODULE Query --------------------------------
(***************************************************************************)
(* Questions about the records of a database: the field filter (filter.rs, *)
(* Database::filter_type_records) and the listings with their pages.       *)
(*                                                                         *)
(* A decoded value is                                                      *)
(*   [kind |-> "obj", fields]   fields: a function from keys to values; a  *)
(*     key is the sequence of the pieces between its dots, for a path is   *)
(*     cut at every dot ("Assoc. Item" of MGEF is a key of two pieces)     *)
(*   [kind |-> "arr", items]    items: a sequence of values                *)
(*   [kind |-> "str" or "num", text, num]   num: NotANumber when the text  *)
(*                                          is not one                     *)
(***************************************************************************)
EXTENDS Wildcard

Fan == "[]"
NotANumber == 1000
Absent == [kind |-> "absent"]

-----------------------------------------------------------------------------
(* Predicates on decoded fields *)

IsContainer(v) == v.kind \in {"obj", "arr"}

Inner(v) ==
  IF v.kind = "obj" THEN {v.fields[k] : k \in DOMAIN v.fields}
  ELSE IF v.kind = "arr" THEN ToSet(v.items) ELSE {}

EqMatches(v, value) ==
  IF v.kind = "num" /\ value.num # NotANumber THEN v.num = value.num ELSE v.text = value.text

NumericMatches(v, op, value) ==
  /\ v.num # NotANumber /\ value.num # NotANumber
  /\ CASE op = "gt" -> v.num > value.num
       [] op = "lt" -> v.num < value.num
       [] op = "gte" -> v.num >= value.num
       [] op = "lte" -> v.num <= value.num

ValueMatches(v, op, value) ==
  /\ ~IsContainer(v)
  /\ CASE op = "exists" -> TRUE
       [] op = "eq" -> EqMatches(v, value)
       [] op = "contains" -> Find(value.text, v.text, 0) <= Len(v.text)
       [] OTHER -> NumericMatches(v, op, value)

RECURSIVE DeepScanMatches(_, _, _)
DeepScanMatches(v, op, value) ==
  ValueMatches(v, op, value) \/ \E w \in Inner(v) : DeepScanMatches(w, op, value)

\* At the end of a path; only "contains" looks into a container there.
OpMatches(v, op, value) ==
  CASE op = "exists" -> TRUE
    [] op = "contains" /\ IsContainer(v) -> DeepScanMatches(v, op, value)
    [] OTHER -> ValueMatches(v, op, value)

RECURSIVE NavigateMatches(_, _, _, _)
NavigateMatches(v, path, op, value) ==
  IF path = <<>> THEN OpMatches(v, op, value)
  ELSE IF Head(path) = Fan
  THEN v.kind = "arr" /\ \E w \in Inner(v) : NavigateMatches(w, Tail(path), op, value)
  ELSE /\ v.kind = "obj" /\ <<Head(path)>> \in DOMAIN v.fields
       /\ NavigateMatches(v.fields[<<Head(path)>>], Tail(path), op, value)

PredicateMatches(v, path, op, value) ==
  IF path = <<>> THEN DeepScanMatches(v, op, value) ELSE NavigateMatches(v, path, op, value)

(* Mutant: the paths are collected from the first item of an array only. *)
RECURSIVE CollectFieldPaths_FirstItem(_, _)
CollectFieldPaths_FirstItem(v, prefix) ==
  CASE v.kind = "obj" ->
         UNION {{prefix \o k} \union CollectFieldPaths_FirstItem(v.fields[k], prefix \o k) : k \in DOMAIN v.fields}
    [] v.kind = "arr" -> {Append(prefix, Fan)} \union CollectFieldPaths_FirstItem(Head(v.items), Append(prefix, Fan))
    [] OTHER -> {}

\* Every path of a value, all indices of an array collapsed into one segment.
RECURSIVE CollectFieldPaths(_, _)
CollectFieldPaths(v, prefix) ==
  CASE v.kind = "obj" ->
         UNION {{prefix \o k} \union CollectFieldPaths(v.fields[k], prefix \o k) : k \in DOMAIN v.fields}
    [] v.kind = "arr" ->
         {Append(prefix, Fan)} \union UNION {CollectFieldPaths(w, Append(prefix, Fan)) : w \in Inner(v)}
    [] OTHER -> {}

-----------------------------------------------------------------------------
(* The operations *)

ListTypeRecords(rows, sig, offset, limit) ==
  LET all == ById({row \in rows : row.sig = sig})
  IN  EffectiveTake(SubSeq(all, offset + 1, Len(all)), limit)

\* At most cap records of a type are decoded, once; the rows are cut after
\* they were counted.
TypeSample(rows, sig, cap) ==
  LET all == ById({row \in rows : row.sig = sig})
  IN  [total |-> Len(all), entries |-> EffectiveTake(all, cap)]

FilterTypeRecords(rows, sig, path, op, value, limit, cap) ==
  LET sample == TypeSample(rows, sig, cap)
      hit(row) == PredicateMatches(row.fields, path, op, value)
      matches == SelectSeq(sample.entries, hit)
  IN  [rows |-> EffectiveTake(matches, limit),
       matched |-> Len(matches),
       scanned |-> Len(sample.entries),
       total |-> sample.total,
       capped |-> limit > 0 /\ Len(matches) > limit,
       scanCapped |-> Len(sample.entries) < sample.total]

ListTypeFieldPaths(rows, sig, cap) ==
  UNION {CollectFieldPaths(row.fields, <<>>) : row \in ToSet(TypeSample(rows, sig, cap).entries)}
=============================================================================
