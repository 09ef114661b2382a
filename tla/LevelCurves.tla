----------------------------- MODULE LevelCurves -----------------------------
(***************************************************************************)
(* Curve tables and the registry of the fields whose curve runs over the   *)
(* level of a player or creature (curves.rs, walk/level_curves.rs).        *)
(*                                                                         *)
(* A decoded value is [k]: "obj" with its fields in of, "ref" with the     *)
(* FormID id and the fields of the stub in of, "arr" with items, "text"    *)
(* and "num" with v, or "null".  Coordinates are whole numbers here and    *)
(* what a curve gives is an exact fraction, where the code has f32.        *)
(***************************************************************************)
EXTENDS Fractions, SequencesExt

Absent == [k |-> "absent"]
IsObject(v) == v.k \in {"obj", "ref"}
FieldOf(v, key) == IF IsObject(v) /\ key \in DOMAIN v.of THEN v.of[key] ELSE Absent
Items(v) == IF v.k = "arr" THEN v.items ELSE <<>>
IsText(v, text) == v.k = "text" /\ v.v = text

-----------------------------------------------------------------------------
(* Curves *)

\* A CURV record has its points under "Curve", a reference to one under
\* "curve"; a point without both numbers is left out.
CurveOf(v) == IF FieldOf(v, "Curve") # Absent THEN FieldOf(v, "Curve") ELSE FieldOf(v, "curve")
Points(v) ==
  LET complete(p) == FieldOf(p, "x").k = "num" /\ FieldOf(p, "y").k = "num"
      points(whole) == [i \in DOMAIN whole |-> [x |-> whole[i].of["x"].v, y |-> whole[i].of["y"].v]]
  IN  points(SelectSeq(Items(CurveOf(v)), complete))

\* Between the ends of a curve, on the line between the neighbours.
Interpolate(a, b, x) ==
  IF a.x = b.x THEN Frac(a.y, 1)
  ELSE Plus(Frac(a.y, 1), Times(Frac(x - a.x, b.x - a.x), Frac(b.y - a.y, 1)))

\* eval, of at least one point, sorted by x.
Eval(points, x) ==
  LET brackets == {i \in 2..Len(points) : points[i - 1].x <= x /\ x <= points[i].x}
      first == CHOOSE i \in brackets : \A j \in brackets : i <= j
  IN  CASE x <= points[1].x -> Frac(points[1].y, 1)
        [] x > points[1].x /\ x >= Last(points).x -> Frac(Last(points).y, 1)
        [] OTHER -> Interpolate(points[first - 1], points[first], x)

-----------------------------------------------------------------------------
(* The registry *)

\* A path leads through fields and, with Each, through the elements of one
\* array.  A label may be taken from a field beside the curve, and a curve may
\* run over something other than level when a field beside it says so.
At(key) == [key |-> key, each |-> FALSE]
Each(key) == [key |-> key, each |-> TRUE]
Keyed(sig, path, label) == [sig |-> sig, path |-> path, label |-> label, from |-> "", guard |-> ""]
LabelledBy(key, entry) == [entry EXCEPT !.from = key]
GuardedBy(key, entry) == [entry EXCEPT !.guard = key]

EffectCurve == <<Each("Effects"), At("Effect"), At("Curve Table")>>
Rows(key) == <<Each(key), At("Curve Table")>>

LevelKeyedCurves ==
  <<Keyed("WEAP", <<At("Damage Curve")>>, "damage"),
    Keyed("WEAP", <<At("Min Durability Curve")>>, "durability min"),
    Keyed("WEAP", <<At("Max Durability Curve")>>, "durability max"),
    Keyed("WEAP", <<At("Condition Loss Scale")>>, "condition loss"),
    Keyed("WEAP", <<At("Bash Condition Loss Scale")>>, "bash condition loss"),
    LabelledBy("Type", Keyed("WEAP", Rows("Damage Types"), "damage type")),
    LabelledBy("Actor Value", Keyed("NPC_", Rows("Properties"), "property")),
    LabelledBy("Actor Value", Keyed("RACE", Rows("Properties"), "property")),
    Keyed("RACE", <<At("EWS Actor Cost Curve")>>, "EWS actor cost"),
    LabelledBy("Type", Keyed("ARMO", Rows("Resistances"), "resistance")),
    Keyed("ARMO", <<At("Durability Min")>>, "durability min"),
    Keyed("ARMO", <<At("Durability Max")>>, "durability max"),
    Keyed("ARMO", <<At("Condition Damage Scale Factor")>>, "condition loss"),
    Keyed("EXPL", <<At("Data"), At("Damage Curve Table")>>, "damage"),
    LabelledBy("Type", Keyed("EXPL", Rows("Damage Types"), "damage type")),
    Keyed("ALCH", <<At("Effect Data"), At("Health")>>, "food health"),
    GuardedBy("Actor Value", Keyed("ENCH", EffectCurve, "effect")),
    GuardedBy("Actor Value", Keyed("SPEL", EffectCurve, "effect")),
    GuardedBy("Actor Value", Keyed("ALCH", EffectCurve, "effect"))>>

OfType(sig) == LET its(entry) == entry.sig = sig IN SelectSeq(LevelKeyedCurves, its)
FieldFor(sig, path) == LET its(entry) == entry.path = path IN SelectSeq(OfType(sig), its)

\* What a curve runs over instead of level, or Absent.
AxisLabel(v) ==
  CASE IsObject(v) /\ FieldOf(v, "editor_id").k = "text" -> FieldOf(v, "editor_id")
    [] IsObject(v) /\ FieldOf(v, "editor_id").k # "text" -> [k |-> "text", v |-> "?"]
    [] OTHER -> v
GuardAxis(guard, row) ==
  LET v == FieldOf(row, guard)
      level == \/ guard = "" \/ v = Absent \/ v.k = "null" \/ IsText(v, "None")
               \/ IsObject(v) /\ IsText(FieldOf(v, "editor_id"), "None")
  IN  IF level THEN Absent ELSE AxisLabel(v)

\* A frame is a value on the path, with the place it was found at and the
\* index of the element it lies in, 0 outside of arrays.
Frame(path, value, index) == [path |-> path, value |-> value, index |-> index]
Into(frame, step) ==
  LET v == FieldOf(frame.value, step.key)
      under(i) == Append(frame.path, [key |-> step.key, at |-> i])
  IN  CASE step.each -> [i \in DOMAIN Items(v) |-> Frame(under(i), Items(v)[i], i)]
        [] ~step.each /\ v = Absent -> <<>>
        [] OTHER -> <<Frame(under(0), v, frame.index)>>

Matched(frame, leaf) ==
  [field |-> Append(frame.path, [key |-> leaf.key, at |-> 0]), leaf |-> FieldOf(frame.value, leaf.key),
   row |-> frame.value, index |-> frame.index]
Navigate(fields, path) ==
  LET enter(frames, step) == FlattenSeq([i \in DOMAIN frames |-> Into(frames[i], step)])
      frames == FoldLeft(enter, <<Frame(<<>>, fields, 0)>>, Front(path))
      ends(frame) == FieldOf(frame.value, Last(path).key) # Absent
      matched(found) == [i \in DOMAIN found |-> Matched(found[i], Last(path))]
  IN  matched(SelectSeq(frames, ends))

\* A label beside the curve wins; without one to look for, the rows of an
\* array are told apart by their index.
ResolveLabel(entry, m) ==
  LET beside == FieldOf(m.row, entry.from)
      name == IF IsObject(beside) THEN FieldOf(beside, "editor_id") ELSE beside
  IN  CASE entry.from # "" /\ name.k = "text" -> <<name.v>>
        [] entry.from = "" /\ m.index # 0 -> <<entry.label, m.index>>
        [] OTHER -> <<entry.label>>

LevelCurveRow(entry, m, level) ==
  LET axis == GuardAxis(entry.guard, m.row)
  IN  [field |-> m.field, label |-> ResolveLabel(entry, m), curve |-> FieldOf(m.leaf, "editor_id"),
       axis |-> axis, value |-> IF axis = Absent THEN <<Eval(Points(m.leaf), level)>> ELSE <<>>]

\* A field without a curve, or with an empty one, gives no row.
EvalLevelCurves(sig, fields, level) ==
  LET drawn(m) == Points(m.leaf) # <<>>
      rowsOf(entry, found) == [i \in DOMAIN found |-> LevelCurveRow(entry, found[i], level)]
      rows(entry) == rowsOf(entry, SelectSeq(Navigate(fields, entry.path), drawn))
      entries == OfType(sig)
  IN  FlattenSeq([i \in DOMAIN entries |-> rows(entries[i])])
=============================================================================
