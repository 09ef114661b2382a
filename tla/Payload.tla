------------------------------- MODULE Payload -------------------------------
(***************************************************************************)
(* How the bytes of one subrecord become fields (decode/walk.rs,           *)
(* decode/scalars.rs, decode/derived.rs).                                  *)
(*                                                                         *)
(* A payload is a sequence of bytes [at, v]: where the byte lies in the    *)
(* record and its value, so that a node shows which bytes it was read      *)
(* from.  A node is                                                        *)
(*   [n |-> "int" or "form", bytes, value]                                 *)
(*   [n |-> "val", bytes]               floats, texts, colours, opaque     *)
(*   [n |-> "raw", bytes, reason]       bytes that are no fields           *)
(*   [n |-> "struct", of]  [n |-> "array", items]  [n |-> "derived"]  Null *)
(* and fields are a sequence of [key, node], keys unique, in decode order. *)
(*                                                                         *)
(* A schema member has kind, name and a version gate from <= fv < below;   *)
(* a fixed-size kind has size (an int also signed) and fromSize, the other *)
(* attributes are those of schema/defs.rs.  A variant is counted from 1,   *)
(* and 0 is none.  ctx is [fv, edid, outer, types, localized].             *)
(***************************************************************************)
EXTENDS Integers, SequencesExt

Unknown == -1
NullKey == -2
Null == [n |-> "null"]
Absent == [n |-> "absent"]
Derived == [n |-> "derived"]
NoOuter == <<>>

Raw(bytes, reason) == [n |-> "raw", bytes |-> bytes, reason |-> reason]
Struct(fields) == [n |-> "struct", of |-> fields]
Array(items) == [n |-> "array", items |-> items]

From(s, n) == SubSeq(s, n + 1, Len(s))
AtMost(a, b) == IF a < b THEN a ELSE b
FirstKnown(a, b) == IF a # Unknown THEN a ELSE b

-----------------------------------------------------------------------------
(* Fields *)

\* A key is a name with its copy number: a second "key" is "key 2".
Key(name) == [name |-> name, copy |-> 1]

IndexOf(fields, key) ==
  LET hits == {i \in DOMAIN fields : fields[i].key = key} IN IF hits = {} THEN 0 ELSE Min(hits)
Has(fields, key) == IndexOf(fields, key) # 0
Get(fields, key) == IF Has(fields, key) THEN fields[IndexOf(fields, key)].node ELSE Absent

Put(fields, key, node) ==
  IF Has(fields, key) THEN [fields EXCEPT ![IndexOf(fields, key)].node = node]
  ELSE Append(fields, [key |-> key, node |-> node])

PutUnique(fields, key, node) ==
  LET taken == {f.key.copy : f \in {f \in ToSet(fields) : f.key.name = key.name}}
      free == IF key.copy \in taken THEN Min((2..(Len(fields) + 2)) \ taken) ELSE key.copy
  IN  Append(fields, [key |-> [key EXCEPT !.copy = free], node |-> node])

\* field_node, and the scope of a count: a path leads through structs.
FieldNode(fields, path) ==
  LET step(node, name) == IF node.n = "struct" THEN Get(node.of, Key(name)) ELSE Absent
  IN  FoldLeft(step, Struct(fields), path)

\* The integer a node stands for, or Unknown.  A null FormID is no number.
IntValue(node) ==
  IF node.n = "int" \/ (node.n = "form" /\ node.value # 0)
  THEN (IF node.value >= 0 THEN node.value ELSE Unknown) ELSE Unknown

\* The key under which a decider's map has it.
ValueKey(node) ==
  CASE node = Null \/ (node.n = "form" /\ node.value = 0) -> NullKey
    [] node.n \in {"int", "form"} /\ node.value # 0 -> node.value
    [] node.n = "int" /\ node.value = 0 -> 0
    [] OTHER -> Unknown

-----------------------------------------------------------------------------
(* Scalars *)

\* Little endian; read_int and read_le_uint.
Unsigned(bytes) == FoldRight(LAMBDA byte, n : byte.v + 256 * n, bytes, 0)
ReadInt(bytes, signed) ==
  LET n == Unsigned(bytes)
  IN  IF signed /\ Last(bytes).v >= 128 THEN n - 256 ^ Len(bytes) ELSE n

ReadLeUint(bytes, at, width) ==
  IF at + width > Len(bytes) THEN Unknown ELSE Unsigned(SubSeq(bytes, at + 1, at + width))

FixedKinds == {"int", "float", "form", "rgba", "vec3"}

\* The value of a fixed-size kind, from bytes that are enough for it.
Scalar(m, data) ==
  LET bytes == SubSeq(data, 1, m.size)
  IN  CASE m.kind = "int" -> [n |-> "int", bytes |-> bytes, value |-> ReadInt(bytes, m.signed)]
        [] m.kind = "form" -> [n |-> "form", bytes |-> bytes, value |-> Unsigned(bytes)]
        [] OTHER -> [n |-> "val", bytes |-> bytes]

Nul == 0
\* The bytes of a text: of a fixed number, or up to the first NUL.
TextLength(data) ==
  LET nuls == {i \in DOMAIN data : data[i].v = Nul} IN IF nuls = {} THEN Len(data) ELSE Min(nuls) - 1
Text(m, data) ==
  [n |-> "val", bytes |-> SubSeq(data, 1, IF m.size > 0 THEN AtMost(m.size, Len(data)) ELSE TextLength(data))]

\* A length of Unknown takes all there is.
BytesOf(m, data) ==
  [n |-> "val", bytes |-> IF m.size = Unknown THEN data ELSE SubSeq(data, 1, AtMost(m.size, Len(data)))]

MemberVersionOk(ctx, m) == m.from <= ctx.fv /\ ctx.fv < m.below
MemberFromSizeOk(length, m) == m.kind \in FixedKinds \union {"bytes"} => length >= m.fromSize

-----------------------------------------------------------------------------
(* Deciders *)

Lookup(map, key, default) == IF key \in DOMAIN map THEN map[key] ELSE default

\* choose_union_variant: what needs no data.
StaticVariant(ctx, d, n) ==
  CASE d.by = "version" -> IF d.least <= ctx.fv /\ ctx.fv <= d.most THEN AtMost(2, n) ELSE 1
    [] d.by = "thresholds" ->
         LET above == {i \in DOMAIN d.list : ctx.fv < d.list[i]}
         IN  AtMost(IF above = {} THEN Len(d.list) + 1 ELSE Min(above), n)
    [] d.by = "edid" -> AtMost(Lookup(d.map, ctx.edid, d.default), n)
    [] OTHER -> 0

\* A field decider: a flag that is set, else the value, here and then outside.
ByField(fields, outer, d) ==
  LET set(value) == {i \in DOMAIN d.bits : value # Unknown /\ (value \div d.bits[i].mask) % 2 = 1}
      variant(bits, key) == IF bits # {} THEN d.bits[Min(bits)].variant ELSE Lookup(d.map, key, d.default)
      choose(here, outside) == variant(set(FirstKnown(IntValue(here), IntValue(outside))),
                                       FirstKnown(ValueKey(here), ValueKey(outside)))
  IN  choose(FieldNode(fields, d.field), FieldNode(outer, d.field))

\* The type of the record that a FormID field leads to.
TargetType(ctx, node) ==
  IF node.n = "form" /\ node.value # 0 /\ node.value \in DOMAIN ctx.types
  THEN ctx.types[node.value] ELSE "none"

ChooseVariant(ctx, d, n, fields, payload) ==
  CASE d.by = "field" -> ByField(fields, ctx.outer, d)
    [] d.by = "byte" -> Lookup(d.map, ReadLeUint(payload, d.at, d.width), d.default)
    [] d.by = "size" -> Lookup(d.map, Len(payload), d.default)
    [] d.by = "target" ->
         LET here == FieldNode(fields, d.field)
         IN  Lookup(d.map, TargetType(ctx, IF here = Absent THEN FieldNode(ctx.outer, d.field) ELSE here), d.default)
    [] OTHER -> StaticVariant(ctx, d, n)

-----------------------------------------------------------------------------
(* Sizes *)

\* field_byte_size: Unknown where the data decides.
RECURSIVE FieldByteSize(_, _)
FieldByteSize(ctx, m) ==
  LET sum(s) == LET add(total, f) == IF total = Unknown \/ FieldByteSize(ctx, f) = Unknown THEN Unknown
                                     ELSE total + FieldByteSize(ctx, f)
                IN  FoldLeft(add, 0, s)
      sizes == {FieldByteSize(ctx, v) : v \in ToSet(m.variants)}
      idx == StaticVariant(ctx, m.decider, Len(m.variants))
  IN  IF ~MemberVersionOk(ctx, m) THEN 0
      ELSE CASE m.kind \in FixedKinds \union {"unused", "bytes"} -> m.size
             [] m.kind = "str" -> IF m.size > 0 THEN m.size ELSE Unknown
             [] m.kind = "empty" -> 0
             [] m.kind = "struct" -> sum(m.fields)
             [] m.kind = "array" ->
                  IF m.count.by = "fixed" /\ FieldByteSize(ctx, m.element) # Unknown
                  THEN m.count.n * FieldByteSize(ctx, m.element) ELSE Unknown
             [] m.kind = "union" ->
                  IF m.decider.by \in {"byte", "field"}
                  THEN (IF Cardinality(sizes) = 1 THEN CHOOSE n \in sizes : TRUE ELSE Unknown)
                  ELSE IF idx \in DOMAIN m.variants THEN FieldByteSize(ctx, m.variants[idx]) ELSE Unknown
             [] OTHER -> Unknown

-----------------------------------------------------------------------------
(* Decoding *)

\* What decoding a member gives: the fields with its value, and for a struct
\* what it consumed and the key it is under.
Plain(out) == [out |-> out, bytes |-> Unknown, key |-> Key("")]

MarkTrailing(fields, key, rest) ==
  LET node == Get(fields, key)
      of == IF node.n = "struct" THEN node.of ELSE <<>>
  IN  Put(fields, key, Struct(Put(of, Key("_trailing"), Raw(rest, "trailing"))))

\* A struct with a count and a curve table has its quantity computed.
ApplyCraftingQuantity(fields) ==
  LET count == FirstKnown(IntValue(Get(fields, Key("Count"))), IntValue(Get(fields, Key("Scrap Component Count"))))
  IN  IF Has(fields, Key("Curve Table")) /\ count # Unknown
      THEN Put(Put(fields, Key("Quantity"), Derived), Key("Quantity Source"), Derived) ELSE fields

RECURSIVE DecodeMember(_, _, _, _)
RECURSIVE DecodeStructFields(_, _, _, _, _)

DecodeFieldValue(ctx, m, data) ==
  LET value(fields) == IF Len(fields) = 1 THEN fields[1].node ELSE Struct(fields)
  IN  value(DecodeMember(ctx, m, <<>>, data).out)

\* As many whole elements of a size as lie in the data, at most n.
Elements(ctx, m, data, size, n) ==
  [i \in 1..(IF size = 0 THEN n ELSE AtMost(n, Len(data) \div size)) |->
     DecodeFieldValue(ctx, m, SubSeq(data, (i - 1) * size + 1, i * size))]

PutArray(fields, name, items) == IF items = <<>> THEN fields ELSE Put(fields, Key(name), Array(items))

\* A variant without a name has its value under the union's.
KeepVariant(m, out, payload, subrecord, got) ==
  LET left == IF subrecord /\ got.bytes # Unknown THEN From(payload, got.bytes) ELSE <<>>
      marked(rest) == IF rest = <<>> THEN got.out ELSE MarkTrailing(got.out, got.key, rest)
      name(f) == IF f.key.name = "" THEN Key(m.name) ELSE f.key
      insert(acc, f) == PutUnique(acc, name(f), f.node)
      \* Where the struct that was measured has gone.
      keyIn(fields, tmp) ==
        LET at == {i \in DOMAIN tmp : tmp[i].key = got.key}
        IN  IF got.bytes = Unknown \/ at = {} THEN got.key ELSE fields[Len(fields) - Len(tmp) + Max(at)].key
      joined(fields, tmp) == [got EXCEPT !.out = fields, !.key = keyIn(fields, tmp)]
      insertAll(tmp) == joined(FoldLeft(insert, out, tmp), tmp)
  IN  insertAll(marked(left))

DecodeUnion(ctx, m, out, payload, subrecord) ==
  LET chosen == ChooseVariant(ctx, m.decider, Len(m.variants), out, payload)
  IN  IF chosen \notin DOMAIN m.variants THEN Plain(Put(out, Key(m.name), Raw(<<>>, "union")))
      ELSE KeepVariant(m, out, payload, subrecord, DecodeMember(ctx, m.variants[chosen], <<>>, payload))

DecodeMember(ctx, m, out, data) ==
  LET put(node) == Plain(Put(out, Key(m.name), node))
      struct(r) == [out |-> r.out, bytes |-> r.pos, key |-> Key(m.name)]
      whole(size) == IF size = Unknown THEN out
                     ELSE PutArray(out, m.name, Elements(ctx, m.element, data, size, m.count.n))
  IN  IF ~MemberVersionOk(ctx, m) THEN Plain(out)
      ELSE CASE m.kind = "struct" -> struct(DecodeStructFields(ctx, m.name, m.fields, data, out))
             [] m.kind \in FixedKinds \ {"rgba"} /\ Len(data) >= m.size -> put(Scalar(m, data))
             [] m.kind = "bytes" -> put(BytesOf(m, data))
             [] m.kind = "str" -> put(Text(m, data))
             [] m.kind = "opaque" -> put([n |-> "val", bytes |-> data])
             [] m.kind = "array" /\ m.count.by = "fixed" -> Plain(whole(FieldByteSize(ctx, m.element)))
             [] m.kind = "union" -> DecodeUnion(ctx, m, out, data, FALSE)
             [] OTHER -> Plain(out)

\* decode_measured: one element of varying size, and the bytes it took.
DecodeMeasured(ctx, m, data) ==
  LET node(of) == CASE Len(of) = 1 -> of[1].node
                    [] Len(of) > 1 -> Struct(of)
                    [] OTHER -> IF m.kind = "array" THEN Array(<<>>) ELSE Null
      one(r) == [bytes |-> r.pos, node |-> node(IF r.out = <<>> THEN <<>> ELSE r.out[1].node.of)]
  IN  one(DecodeStructFields(ctx, "", <<m>>, data, <<>>))

\* Elements are measured until the data or the count ends, or one is empty.
RECURSIVE MeasuredElements(_, _, _, _)
MeasuredElements(ctx, m, data, n) ==
  LET none == [items |-> <<>>, bytes |-> 0]
      first(one, more) == [items |-> <<one.node>> \o more.items, bytes |-> one.bytes + more.bytes]
      take(one) == IF one.bytes = 0 THEN none
                   ELSE first(one, MeasuredElements(ctx, m, From(data, one.bytes), n - 1))
  IN  IF data = <<>> \/ n = 0 THEN none ELSE take(DecodeMeasured(ctx, m, data))

\* How many elements an array has, Unknown if it fills the data, and the width
\* of the prefix that said so.
CountOf(ctx, count, fields, rest, length) ==
  CASE count.by = "fill" -> [n |-> Unknown, width |-> 0]
    [] count.by = "fixed" -> [n |-> count.n, width |-> 0]
    [] count.by = "prefix" -> IF count.width > Len(rest) THEN [n |-> 0, width |-> 0]
                              ELSE [n |-> ReadLeUint(rest, 0, count.width), width |-> count.width]
    [] count.by = "path" ->
         [n |-> Max({0, IntValue(FieldNode(IF count.up = 0 THEN fields ELSE ctx.outer, count.path))}), width |-> 0]
    [] count.by = "div" -> [n |-> length \div Max({1, count.n}), width |-> 0]

\* At most n elements, Unknown for as many as there are, and their bytes.
CountedElements(ctx, m, data, n) ==
  LET size == FieldByteSize(ctx, m)
      upTo == IF n = Unknown THEN Len(data) ELSE n
      sized(items) == [items |-> items, bytes |-> size * Len(items)]
  IN  IF size \in {Unknown, 0} THEN MeasuredElements(ctx, m, data, upTo)
      ELSE sized(Elements(ctx, m, data, size, upTo))

\* An array in a struct, from what is left of its data.
DecodeArray(ctx, m, of, rest, length) ==
  LET count == CountOf(ctx, m.count, of, rest, length)
      join(got) == [of |-> PutArray(of, m.name, got.items), bytes |-> count.width + got.bytes]
  IN  join(CountedElements([ctx EXCEPT !.outer = of], m.element, From(rest, count.width), count.n))

(* Mutant: a struct is taken for its declared size. *)
AdvanceUnion_Static(ctx, variant, rest) == AtMost(Max({0, FieldByteSize(ctx, variant)}), Len(rest))

\* advance_union: what a variant takes of the struct it sits in.
AdvanceUnion(ctx, variant, rest) ==
  IF variant.kind = "struct" THEN DecodeStructFields(ctx, variant.name, variant.fields, rest, <<>>).pos
  ELSE AtMost(Max({0, FieldByteSize(ctx, variant)}), Len(rest))

\* One field of a struct; at holds the fields and the bytes taken so far, and
\* whether the rest is spoken for.  A field that does not fit is passed over.
DecodeField(ctx, data, at, m) ==
  LET rest == From(data, at.pos)
      took(of, n) == [at EXCEPT !.of = of, !.pos = @ + AtMost(n, Len(rest))]
      all(of) == [at EXCEPT !.of = of, !.pos = Len(data), !.done = TRUE]
      put(node, n) == took(Put(at.of, Key(m.name), node), n)
      struct(r) == took(r.out, r.pos)
      array(r) == took(r.of, r.bytes)
      insert(of, f) == PutUnique(of, f.key, f.node)
      chosen == ChooseVariant(ctx, m.decider, Len(m.variants), at.of, rest)
      variant == m.variants[chosen]
  IN  IF at.done \/ ~MemberVersionOk(ctx, m) \/ ~MemberFromSizeOk(Len(data), m) THEN at
      ELSE CASE m.kind = "unused" -> took(at.of, m.size)
             [] m.kind \in FixedKinds /\ m.size <= Len(rest) -> put(Scalar(m, rest), m.size)
             [] m.kind = "str" -> put(Text(m, rest), IF m.size > 0 THEN m.size ELSE TextLength(rest) + 1)
             [] m.kind = "bytes" -> put(BytesOf(m, rest), IF m.size = Unknown THEN Len(rest) ELSE m.size)
             [] m.kind = "struct" -> struct(DecodeStructFields(ctx, m.name, m.fields, rest, at.of))
             [] m.kind = "union" /\ chosen = 0 -> all(Put(at.of, Key(m.name), Raw(rest, "union")))
             [] m.kind = "union" /\ chosen \in DOMAIN m.variants ->
                  took(FoldLeft(insert, at.of, DecodeMember(ctx, variant, <<>>, rest).out),
                       AdvanceUnion(ctx, variant, rest))
             [] m.kind = "array" -> array(DecodeArray(ctx, m, at.of, rest, Len(data)))
             [] m.kind = "unknown" ->
                  all(IF rest = <<>> THEN at.of ELSE PutUnique(at.of, Key(m.name), Raw(rest, "unknown")))
             [] OTHER -> at

DecodeStructFields(ctx, name, fields, data, out) ==
  LET put(of) == IF of = <<>> THEN out ELSE Put(out, Key(name), Struct(of))
      decoded(at) == [out |-> put(ApplyCraftingQuantity(at.of)), pos |-> at.pos]
  IN  decoded(FoldLeft(LAMBDA at, m : DecodeField(ctx, data, at, m), [of |-> <<>>, pos |-> 0, done |-> FALSE], fields))

\* Structs of varying size, packed end to end, while one takes anything.
RECURSIVE MeasuredStructs(_, _, _)
MeasuredStructs(ctx, m, data) ==
  LET item(node) == IF node = Absent THEN <<>> ELSE <<node>>
      take(r) == IF r.pos = 0 THEN <<>>
                 ELSE item(Get(r.out, Key(m.name))) \o MeasuredStructs(ctx, m, From(data, r.pos))
  IN  IF data = <<>> THEN <<>> ELSE take(DecodeStructFields(ctx, m.name, m.fields, data, <<>>))

\* The elements in one subrecord: several of a size, else one.
PayloadItems(ctx, m, size, data) ==
  CASE size > 0 /\ Len(data) > size -> Elements(ctx, m, data, size, Len(data))
    [] size = Unknown /\ m.kind = "struct" -> MeasuredStructs(ctx, m, data)
    [] OTHER -> <<DecodeFieldValue(ctx, m, data)>>

\* decode_array_payloads: a packed array from one or several subrecords.
DecodeArrayPayloads(ctx, m, run, out) ==
  LET size == FieldByteSize(ctx, m.element)
      partial(data) ==
        IF size > 0 /\ Len(data) > size /\ Len(data) % size > 0
        THEN <<Raw(From(data, size * (Len(data) \div size)), "malformed")>> ELSE <<>>
      cut(kept) == IF m.count.by = "fixed" THEN SubSeq(kept, 1, AtMost(m.count.n, Len(kept))) ELSE kept
  IN  PutArray(out, m.name, cut(FlattenSeq([i \in DOMAIN run |-> PayloadItems(ctx, m.element, size, run[i])]))
                              \o FlattenSeq([i \in DOMAIN run |-> partial(run[i])]))
=============================================================================
