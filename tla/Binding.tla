-------------------------------- MODULE Binding --------------------------------
(***************************************************************************)
(* Which schema member each subrecord of a record belongs to               *)
(* (decode/bind.rs), the record that comes of it (decode/mod.rs) and the   *)
(* markers that the coverage report counts in it (ops/coverage.rs).        *)
(*                                                                         *)
(* A subrecord is [sig, data].  A record's schema is [members, unordered]; *)
(* a member is one of Payload with sig, "none" for one without, or         *)
(*   rstruct   [members, unordered, anyMember, terminators]                *)
(*   rarray    [element]                                                   *)
(* A cursor is the subrecords left and those that no member took.  ctx     *)
(* also says whether the file is localized.  The bash damage of a weapon   *)
(* is left out: it adds a computed field.                                  *)
(***************************************************************************)
EXTENDS Payload

Cursor(subs) == [rest |-> subs, unbound |-> <<>>]
Pop(cur) == [cur EXCEPT !.rest = Tail(@)]
SkipOne(cur) == [rest |-> Tail(cur.rest), unbound |-> Append(cur.unbound, Head(cur.rest))]
Sig(cur) == Head(cur.rest).sig

RECURSIVE CanHandle(_, _, _)
CanHandle(ctx, m, sig) ==
  /\ MemberVersionOk(ctx, m)
  /\ CASE m.kind = "rstruct" ->
            \E i \in DOMAIN m.members :
              /\ m.unordered \/ m.anyMember \/ i = 1
              /\ CanHandle(ctx, m.members[i], sig)
       [] m.kind = "rarray" -> CanHandle(ctx, m.element, sig)
       [] m.kind = "union" /\ m.sig = "none" -> \E v \in ToSet(m.variants) : CanHandle(ctx, v, sig)
       [] OTHER -> m.sig = sig

-----------------------------------------------------------------------------
(* One subrecord *)

\* Whether a struct must be decoded with the fields around it in view.
RECURSIVE ContainsFieldValueUnion(_)
ContainsFieldValueUnion(m) ==
  CASE m.kind = "union" -> m.decider.by = "field" \/ \E v \in ToSet(m.variants) : ContainsFieldValueUnion(v)
    [] m.kind = "struct" -> \E f \in ToSet(m.fields) : ContainsFieldValueUnion(f)
    [] m.kind = "array" -> ContainsFieldValueUnion(m.element)
    [] OTHER -> FALSE
CountsFromEnclosingScope(m) == m.kind = "array" /\ m.count.by = "path" /\ m.count.up >= 1

\* A localized string is an id, 0 for none; otherwise the text, none if empty.
LString(ctx, m, data) ==
  IF ~ctx.localized THEN (IF TextLength(data) = 0 THEN Null ELSE Text([m EXCEPT !.size = 0], data))
  ELSE IF Len(data) < m.size \/ Unsigned(SubSeq(data, 1, m.size)) = 0 THEN Null
  ELSE [n |-> "val", bytes |-> SubSeq(data, 1, m.size)]

DecodeSubrecord(ctx, m, data, out) ==
  LET put(node) == Put(out, Key(m.name), node)
      around == \E f \in ToSet(m.fields) : ContainsFieldValueUnion(f) \/ CountsFromEnclosingScope(f)
      inside == IF around THEN [ctx EXCEPT !.outer = out] ELSE ctx
      mark(r, rest) == IF rest = <<>> THEN r.out ELSE MarkTrailing(r.out, Key(m.name), rest)
      decoded(r) == mark(r, From(data, r.pos))
  IN  CASE m.kind = "struct" -> decoded(DecodeStructFields(inside, m.name, m.fields, data, out))
        [] m.kind \in FixedKinds /\ Len(data) >= m.size -> put(Scalar(m, data))
        [] m.kind = "str" -> put(Text(m, data))
        [] m.kind = "lstring" -> put(LString(ctx, m, data))
        [] m.kind = "bytes" -> put(BytesOf(m, data))
        [] m.kind = "empty" -> put(Null)
        [] m.kind = "unknown" -> put(Raw(data, "unknown"))
        [] m.kind = "opaque" -> put([n |-> "val", bytes |-> data])
        [] m.kind = "union" -> DecodeUnion(ctx, m, out, data, TRUE).out
        [] OTHER -> out

-----------------------------------------------------------------------------
(* Binding: each of these takes a cursor and fields, and returns both. *)

RECURSIVE BindMember(_, _, _, _)
RECURSIVE BindStruct(_, _, _)
RECURSIVE BindElements(_, _, _)

\* Fields by the member they came from; one under its member's own name goes
\* to the first member of that name.
InMemberOrder(members, fields, origin) ==
  LET named(key) == {i \in DOMAIN members : Key(members[i].name) = key}
      position(n) == IF origin[n] \in named(fields[n].key) THEN Min(named(fields[n].key)) ELSE origin[n]
      at(i) == LET here(n) == position(n) = i
                   ns == SelectSeq([n \in DOMAIN fields |-> n], here)
               IN  [k \in DOMAIN ns |-> fields[ns[k]]]
  IN  FlattenSeq([i \in DOMAIN members |-> at(i)])

Resize(origin, n, i) == [k \in 1..n |-> IF k \in DOMAIN origin THEN origin[k] ELSE i]

\* One step of binding a container's i-th member; moved says whether it took
\* anything.
BindHere(ctx, members, st, i) ==
  LET bound(r) == [st EXCEPT !.cur = r.cur, !.out = r.out,
                             !.origin = Resize(@, Len(r.out), i),
                             !.moved = r.cur.rest # st.cur.rest]
  IN  bound(BindMember(ctx, members[i], st.cur, st.out))

BindStruct(ctx, m, st) ==
  LET able == {i \in DOMAIN m.members : CanHandle(ctx, m.members[i], Sig(st.cur))}
      i == IF m.unordered THEN Min(able) ELSE st.defPos
      ends == m.members[i].sig # "none" /\ m.members[i].sig \in m.terminators
      on(s, pos) == BindStruct(ctx, m, [s EXCEPT !.defPos = pos])
      after(next) ==
        IF ~next.moved THEN (IF m.unordered THEN next ELSE on(next, i + 1))
        ELSE IF ends THEN next
        ELSE on([next EXCEPT !.bound = @ \union {i}], IF m.unordered THEN 1 ELSE i + 1)
  IN  IF st.cur.rest = <<>> \/ st.defPos > Len(m.members) \/ able = {} THEN st
      ELSE IF i \notin able THEN on(st, i + 1)
      ELSE IF i \in st.bound THEN st
      ELSE after(BindHere(ctx, m.members, st, i))

Start(cur) == [cur |-> cur, out |-> <<>>, origin |-> <<>>, bound |-> {}, defPos |-> 1, moved |-> FALSE]

\* The elements of an rarray, as long as the next subrecord starts one.
BindElements(ctx, m, cur) ==
  LET first(item, more) == [more EXCEPT !.items = <<item>> \o @]
      take(r) == IF r.cur.rest = cur.rest THEN [cur |-> cur, items |-> <<>>]
                 ELSE first(Struct(r.out), BindElements(ctx, m, r.cur))
  IN  IF cur.rest = <<>> \/ ~CanHandle(ctx, m, Sig(cur))
      THEN [cur |-> cur, items |-> <<>>]
      ELSE take(BindMember(ctx, m, cur, <<>>))

\* A union of members: the decided variant if it can take the subrecord, or
\* else the first that can.
BindRUnion(ctx, m, cur, out) ==
  LET able == {i \in DOMAIN m.variants : CanHandle(ctx, m.variants[i], Sig(cur))}
      first == IF able = {} THEN 0 ELSE Min(able)
      orElse(n, other) == IF n = 0 THEN other ELSE n
      outside == orElse(ByField(ctx.outer, <<>>, m.decider), first)
      chosen == CASE m.decider.by = "signature" -> first
                  [] m.decider.by = "field" -> orElse(ByField(out, <<>>, [m.decider EXCEPT !.default = 0]), outside)
                  [] OTHER -> StaticVariant(ctx, m.decider, Len(m.variants))
      insert(fields, f) == PutUnique(fields, IF f.key.name = "" THEN Key(m.name) ELSE f.key, f.node)
      bind(r) == [r EXCEPT !.out = FoldLeft(insert, out, @)]
      choose(n) == IF n = 0 THEN [cur |-> cur, out |-> Put(out, Key(m.name), Raw(<<>>, "union"))]
                   ELSE IF n \notin able THEN [cur |-> cur, out |-> out]
                   ELSE bind(BindMember(ctx, m.variants[n], cur, <<>>))
  IN  choose(chosen)

\* Consecutive subrecords of one signature.
RunOf(subs, sig) ==
  LET other == {i \in DOMAIN subs : subs[i].sig # sig}
      n == IF other = {} THEN Len(subs) ELSE Min(other) - 1
  IN  [i \in 1..n |-> subs[i].data]

BindOne(ctx, m, cur, out) ==
  LET grouped(fields) == IF fields = <<>> THEN out ELSE Put(out, Key(m.name), Struct(fields))
      struct(st) == [cur |-> st.cur, out |-> grouped(InMemberOrder(m.members, st.out, st.origin))]
      array(r) == [cur |-> r.cur, out |-> PutArray(out, m.name, r.items)]
      run == RunOf(cur.rest, m.sig)
  IN  CASE m.kind = "rstruct" -> struct(BindStruct(ctx, m, Start(cur)))
        [] m.kind = "rarray" -> array(BindElements(ctx, m.element, cur))
        [] m.kind = "union" /\ m.sig = "none" -> BindRUnion(ctx, m, cur, out)
        [] m.kind = "array" /\ m.sig # "none" ->
             [cur |-> [cur EXCEPT !.rest = From(@, Len(run))], out |-> DecodeArrayPayloads(ctx, m, run, out)]
        [] OTHER -> [cur |-> Pop(cur), out |-> DecodeSubrecord(ctx, m, Head(cur.rest).data, out)]

Without(fields, key) == LET other(f) == f.key # key IN SelectSeq(fields, other)

\* fields with the value that was at `at` before its member was bound again:
\* arrays are continued, anything else becomes a second copy.
Rejoined(fields, key, at, prior) ==
  LET back(others, node) == InsertAt(others, at, [key |-> key, node |-> node])
      join(new) == IF prior.n = "array" /\ new.n = "array"
                   THEN back(Without(fields, key), Array(prior.items \o new.items))
                   ELSE IF new = Absent THEN back(fields, prior)
                   ELSE PutUnique(back(Without(fields, key), prior), key, new)
  IN  join(Get(fields, key))

\* A member whose name has a value already is bound beside it.
BindMember(ctx, m, cur, out) ==
  LET key == Key(m.name)
      again == Has(out, key) /\ ~(m.kind = "union" /\ m.sig = "none")
      rejoin(r) == [r EXCEPT !.out = IF again THEN Rejoined(@, key, IndexOf(out, key), Get(out, key)) ELSE @]
  IN  rejoin(BindOne(ctx, m, cur, IF again THEN Without(out, key) ELSE out))

-----------------------------------------------------------------------------
(* The record *)

ContinuesAcrossRuns(m) == m.kind = "rarray" \/ (m.kind = "array" /\ m.sig # "none")

\* Members at or after the cursor first, then the rest; a subrecord that none
\* of them takes stays unbound.
RECURSIVE TryMembers(_, _, _, _)
TryMembers(ctx, def, st, order) ==
  LET i == Head(order)
      m == def.members[i]
      after == IF ~def.unordered /\ i >= st.defPos THEN i + 1 ELSE st.defPos
      tried(next) == IF ~next.moved THEN TryMembers(ctx, def, next, Tail(order))
                     ELSE [next EXCEPT !.bound = @ \union {i}, !.defPos = after]
  IN  IF order = <<>> THEN [st EXCEPT !.cur = SkipOne(@)]
      ELSE IF ~CanHandle(ctx, m, Sig(st.cur)) \/ (i \in st.bound /\ ~ContinuesAcrossRuns(m))
      THEN TryMembers(ctx, def, st, Tail(order))
      ELSE tried(BindHere(ctx, def.members, st, i))

(* Mutant: members before the cursor are not tried again. *)
RECURSIVE BindAll_Forward(_, _, _)
BindAll_Forward(ctx, def, st) ==
  LET first == IF def.unordered THEN 1 ELSE st.defPos
      order == [k \in 1..(Len(def.members) + 1 - first) |-> first + k - 1]
  IN  IF st.cur.rest = <<>> THEN st ELSE BindAll_Forward(ctx, def, TryMembers(ctx, def, st, order))

RECURSIVE BindAll(_, _, _)
BindAll(ctx, def, st) ==
  LET n == Len(def.members)
      first == IF def.unordered THEN 1 ELSE st.defPos
      order == [k \in 1..n |-> IF first + k - 1 <= n THEN first + k - 1 ELSE first + k - 1 - n]
  IN  IF st.cur.rest = <<>> THEN st ELSE BindAll(ctx, def, TryMembers(ctx, def, st, order))

BindRecord(ctx, def, subs) ==
  LET bound(st) == [fields |-> InMemberOrder(def.members, st.out, st.origin), unbound |-> st.cur.unbound]
  IN  bound(BindAll(ctx, def, Start(Cursor(subs))))

\* The letter that decides the type of a game setting.
EdidChar(subs) ==
  LET edids == {i \in DOMAIN subs : subs[i].sig = "EDID"}
      data == subs[Min(edids)].data
  IN  IF edids = {} \/ data = <<>> THEN Unknown ELSE data[1].v

\* What no member took, by signature; a record without a schema is all that.
RecordNode(ctx, schema, sig, subs) ==
  LET known == sig \in DOMAIN schema
      inside == [ctx EXCEPT !.edid = EdidChar(subs), !.outer = NoOuter]
      add(by, sub) ==
        LET key == Key(sub.sig)
            old == IF Has(by, key) THEN Get(by, key).items ELSE <<>>
        IN  Put(by, key, Array(Append(old, Raw(sub.data, "unmapped"))))
      with(fields, unmapped) == IF unmapped = <<>> THEN fields ELSE Put(fields, Key("_unmapped"), Struct(unmapped))
      record(bound) == Struct(with(bound.fields, FoldLeft(add, <<>>, bound.unbound)))
  IN  record(IF known THEN BindRecord(inside, schema[sig], subs)
             ELSE [fields |-> <<[key |-> Key("_unknown_record"), node |-> Null]>>, unbound |-> subs])

-----------------------------------------------------------------------------
(* The coverage report *)

\* count_markers: how often each reason for bytes that are no fields occurs.
RECURSIVE CountMarkers(_, _)
CountMarkers(node, reason) ==
  LET add(n, child) == n + CountMarkers(child, reason)
  IN  CASE node.n = "struct" -> FoldLeft(LAMBDA n, f : add(n, f.node), 0, node.of)
        [] node.n = "array" -> FoldLeft(add, 0, node.items)
        [] node.n = "raw" -> IF node.reason = reason THEN 1 ELSE 0
        [] OTHER -> 0

\* coverage --gate: every marker of an incomplete decode; what the schema
\* itself declares unknown is none.
Gated == {"union", "malformed", "trailing", "unmapped"}
DecodeGaps(node) ==
  (IF Has(node.of, Key("_unknown_record")) THEN 1 ELSE 0)
    + FoldLeft(LAMBDA n, reason : n + CountMarkers(node, reason), 0, SetToSeq(Gated))
=============================================================================
