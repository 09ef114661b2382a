----------------------------- MODULE MCOperations -----------------------------
(* Requests for the operations: small, and with each of the cases that matter. *)
EXTENDS Operations

CONSTANTS DottedKeys,   \* whether a field name may contain a dot
          EdgeLinks     \* whether the arrays compared are navmesh edge links

Sequences(S, n) == UNION {[1..i -> S] : i \in 0..n}
Some(S) == {SetToSeq(s) : s \in S}

-----------------------------------------------------------------------------
(* Files: a TES4 header and up to four pieces after it. *)

Group(size, label) == [sig |-> Grup, size |-> size, type |-> 0, label |-> label]
Record(id, size, edid, refs) ==
  [size |-> size, id |-> id, sig |-> "MISC", edid |-> edid, refs |-> refs]
Data == Record(9, 0, "none", <<>>)
Pieces == {<<Group(n, "MISC")>> : n \in 1..5}
            \union {<<Record(1, 0, "a", <<2, 2>>)>>, <<Record(2, 0, "a", <<1, 2>>)>>,
                    <<Record(2, 1, "b", <<1, 3>>), Data>>, <<Record(3, 0, "none", <<1>>)>>}

AskScan ==
  \E s \in Sequences(Pieces, 4) :
    LET file == <<Record(0, 0, "none", <<>>)>> \o FlattenSeq(s)
    IN  Asked([op |-> "scan", file |-> file])

-----------------------------------------------------------------------------
(* Texts over two letters, patterns with stars among them. *)

Texts == Sequences({"a", "b"}, 4)
Patterns == Sequences({"a", "b", "*"}, 4)
Row(id, edid, name) == [id |-> id, sig |-> IF id = 2 THEN "WEAP" ELSE "MISC", edid |-> edid, name |-> name, desc |-> NoText]
SearchRequest(p, types, field, n, rows) ==
  [op |-> "search", pattern |-> p, types |-> types, field |-> field, limit |-> n, rows |-> rows]
ThreeRows == {Row(3, <<"a", "b">>, <<"b">>), Row(1, <<"b", "a">>, <<"a">>), Row(2, NoText, <<"b", "b">>)}

AskSearch ==
  \/ \E p \in Patterns, t \in Texts : Asked(SearchRequest(p, {}, "both", 0, {Row(1, t, NoText)}))
  \/ \E p \in Sequences({"a", "b", "*"}, 2), f \in {"edid", "name", "both"}, n \in 0..3,
        types \in {{}, {"MISC"}, {"MISC", "WEAP"}, {BadType}} :
       Asked(SearchRequest(p, types, f, n, ThreeRows))

-----------------------------------------------------------------------------
(* Records with fields two levels deep; a key has one piece, or with DottedKeys *)
(* perhaps two. *)

Plain(n) == [kind |-> "num", text |-> <<"a">>, num |-> n]
Object(f) == [kind |-> "obj", fields |-> f]
Items(s) == [kind |-> "arr", items |-> s]
Keys == {<<"f">>, <<"g">>} \union (IF DottedKeys THEN {<<"f", "g">>} ELSE {})
Flat == {Plain(1)} \union {Object(k :> Plain(1)) : k \in Keys}
Deep == Flat \union {Items(<<v>>) : v \in Flat} \union {Items(<<Plain(1), v>>) : v \in Flat}
Bodies == {Object(k :> v) : k \in Keys, v \in Deep}
            \union {Object((<<"f">> :> v) @@ (<<"g">> :> w)) : v, w \in Flat}
Paths == Sequences({"f", "g", "[]"}, 3) \ {<<>>}
Sample(a, b) == {[id |-> 1, sig |-> "MISC", fields |-> a], [id |-> 2, sig |-> "MISC", fields |-> b]}

AskFilter ==
  \E a, b \in Bodies, cap \in 1..2 :
    Asked([op |-> "filter", paths |-> Paths, cap |-> cap, rows |-> Sample(a, b)])

-----------------------------------------------------------------------------
(* Records to decode: first one struct over many payloads, then many orders of *)
(* subrecords.  A value of a fixed size is given all its bytes or none.        *)

Member1(kind, name, size) ==
  [kind |-> kind, name |-> name, sig |-> "none", from |-> 0, below |-> 9, fromSize |-> 0, size |-> size, signed |-> FALSE]
In(sig, m) == [m EXCEPT !.sig = sig]
U8(name) == Member1("int", name, 1)
U16(name) == Member1("int", name, 2)
Zstring(name) == Member1("str", name, 0)
Of(kind, name, attributes) == Member1(kind, name, 0) @@ attributes
StructOf(name, fields) == Of("struct", name, [fields |-> fields])
ArrayOf(name, element, count) == Of("array", name, [element |-> element, count |-> count])
ByKind(map) == [by |-> "field", field |-> <<"Kind">>, bits |-> <<>>, map |-> map, default |-> 0]
ByByte(map) == [by |-> "byte", at |-> 0, width |-> 1, map |-> map, default |-> 0]
UnionOf(name, decider, variants) == Of("union", name, [decider |-> decider, variants |-> variants])
Choice(decider) == UnionOf("Choice", decider, <<U8("a"), StructOf("b", <<U8("Low"), Zstring("Text")>>)>>)

Fill == [by |-> "fill"]
Prefixed == [by |-> "prefix", width |-> 1]
AsKind == [by |-> "path", up |-> 0, path |-> <<"Kind">>]
Item == StructOf("", <<U8("Low"), Zstring("Text")>>)
Data1(fields) == In("DATA", StructOf("Data", fields))
Layouts ==
  {<<U8("Kind"), Choice(ByKind((1 :> 1) @@ (2 :> 2))), U8("End")>>,
   <<Choice(ByByte((1 :> 1) @@ (2 :> 2))), [U16("New") EXCEPT !.from = 2, !.fromSize = 4]>>,
   <<U8("Kind"), ArrayOf("Few", U8(""), AsKind), Zstring("Text"), Member1("bytes", "Rest", B!Unknown)>>,
   <<ArrayOf("Items", Item, Prefixed), U8("End")>>,
   <<U8("Kind"), ArrayOf("Nested", StructOf("", <<U8("Kind"), ArrayOf("Inner", U8(""), AsKind)>>), AsKind), U16("End")>>,
   <<U8("Kind"), StructOf("Inner", <<U8("Count"), U8("Curve Table")>>), Member1("unknown", "Unknown", 0)>>}

Schema(members, unordered) == "MISC" :> [members |-> members, unordered |-> unordered]
Sub(sig, data) == [sig |-> sig, data |-> data]
Placed(subs) ==
  [i \in DOMAIN subs |-> Sub(subs[i].sig, [j \in DOMAIN subs[i].data |-> [at |-> <<i, j>>, v |-> subs[i].data[j]]])]
Get(schema, fv, sig, subs, counts) ==
  Asked([op |-> "get", schema |-> schema, sig |-> sig, subs |-> Placed(subs), counts |-> counts,
         ctx |-> [fv |-> fv, edid |-> 0, outer |-> B!NoOuter, types |-> <<>>, localized |-> fv = 2]])

AskPayload ==
  \E layout \in Layouts, bytes \in Sequences(0..2, 5), fv \in 1..2 :
    Get(Schema(<<Data1(layout)>>, FALSE), fv, "MISC", <<Sub("DATA", bytes)>>,
        IF layout[1].kind = "array" THEN {<<1, 1>>} ELSE {})

Group1(name, members, attributes) ==
  Of("rstruct", name, attributes @@ [members |-> members, unordered |-> FALSE, anyMember |-> FALSE, terminators |-> {}])
Effect(attributes) ==
  Group1("", <<In("EFID", U8("Base")), In("EFIT", U8("Size")),
               Of("rarray", "Conditions", [element |-> Group1("", <<In("CTDA", U8("Test")), In("CIS1", Zstring("Text"))>>, <<>>)])>>,
         attributes)
Terms == {[anyMember |-> FALSE], [unordered |-> TRUE], [anyMember |-> TRUE, terminators |-> {"EFIT"}]}
Members(attributes) ==
  <<In("EDID", Zstring("EditorID")), In("DESC", Member1("lstring", "Text", 1)),
    In("KWDA", ArrayOf("Keywords", U8(""), Fill)),
    Of("rarray", "Effects", [element |-> Effect(attributes)]),
    UnionOf("Either", [by |-> "signature"], <<In("EFIT", U8("")), In("CIS1", Zstring(""))>>),
    In("CTDA", U8("Test")), [In("CTDA", U8("Again")) EXCEPT !.from = 2]>>
Subs == {Sub("EDID", <<1, 1>>), Sub("DESC", <<1>>), Sub("KWDA", <<1, 2>>), Sub("EFID", <<1>>), Sub("EFIT", <<1>>),
         Sub("CTDA", <<1>>), Sub("CIS1", <<2>>)}

AskMembers ==
  \E first \in {<<>>, <<Sub("EFID", <<1>>), Sub("CTDA", <<1>>)>>}, subs \in Sequences(Subs, 3), terms \in Terms, unordered \in BOOLEAN :
    Get(Schema(Members(terms), unordered), IF unordered THEN 1 ELSE 2, "MISC", first \o subs, {})

AskUnknown == Get(Schema(<<>>, FALSE), 1, "NONE", <<Sub("DATA", <<1>>), Sub("DATA", <<2>>)>>, {})

-----------------------------------------------------------------------------
(* Inputs that name records: FormIDs are 0 to 8, of two digits of base 3, and *)
(* "decimal" is base 2; 3 is a letter. *)

Digits == [hex |-> 3, dec |-> 2, width |-> 2]
Tokens == [prefix : BOOLEAN, body : Sequences(0..3, 3)]
NameTokens == {[prefix |-> FALSE, body |-> b] : b \in {<<3>>, <<1>>, <<1, 0>>, <<1, 0, 0>>}}
Bulk(records, names, engine, inputs, base) ==
  Asked([op |-> "get_bulk", w |-> Digits, base |-> base, inputs |-> inputs,
         db |-> [records |-> records, names |-> names, engine |-> engine]])
Inputs == [how : {"formid", "edid", "target", "entry_point"}, token : Tokens]
Missing == [how |-> "edid", token |-> [prefix |-> FALSE, body |-> <<3, 3>>]]

AskBulk ==
  \/ \E base \in {"hex", "dec"}, n \in NameTokens, e \in {Sel!NoName, [prefix |-> FALSE, body |-> <<3>>]}, input \in Inputs :
       Bulk({2, 3, 4, 6}, n :> 6, (1 :> e) @@ (5 :> e) @@ (4 :> Sel!NoName), <<Missing, input>>, base)
  \/ \E base \in {"hex", "dec"}, a, b \in 0..8, how \in {"formid", "target"} :
       Bulk({a}, <<>>, <<>>, <<[how |-> how, token |-> Sel!DisplayBase(Digits, a, base)], [how |-> how, token |-> Sel!DisplayBase(Digits, b, base)]>>, base)

-----------------------------------------------------------------------------
(* Reference graphs: records 1 to 4, each naming some of the others, and an   *)
(* engine form 9. *)

Graph(body) == [order |-> <<2, 1, 4, 3>>, engine |-> {9}, body |-> body,
                type |-> [id \in 1..4 |-> IF id = 4 THEN "PERK" ELSE "MISC"]]
Graphs ==
  {Graph(<<a, b, c, d>>) : a \in Some({{}, {2}, {3, 9}, {4}}), b \in Some({{}, {1}, {1, 9}, {3}, {4}}),
                           c \in Some({{}, {1}, {1, 2}, {4}}), d \in Some({{}, {1, 3}, {2}, {3, 9}, {1, 2, 3}})}
NoReferences == Graph(<< <<>>, <<>>, <<>>, <<>> >>)

Carriers == <<[id |-> 2, effects |-> <<[id |-> 5, name |-> "e"], [id |-> 7, name |-> "g"]>>],
              [id |-> 1, effects |-> <<[id |-> 6, name |-> "f"], [id |-> 7, name |-> "g"]>>],
              [id |-> 3, effects |-> <<[id |-> 7, name |-> "g"]>>]>>
Token(kind, names) == [kind |-> kind, names |-> names, scoped |-> FALSE, id |-> 5]
Named(by, names) == [by |-> by, token |-> Token("name", names)]
ByForm(id) == [by |-> "formid", id |-> id]
RefRequest(g, sel, named, h, n, filter) ==
  [op |-> "referenced_by", db |-> g, sel |-> sel, named |-> named, sample |-> Carriers,
   depth |-> h, cap |-> 3, limit |-> n, filter |-> filter, byDepth |-> filter = "any"]

AskReferences ==
  \/ \E g \in Graphs, h \in {0, 1, 2, 8},
        sel \in {ByForm(1), ByForm(9), Named("entry_point", {"e", "f"}), Named("edid", {"e"})} :
       Asked(RefRequest(g, sel, 0, h, 0, "any"))
  \/ \E g \in Graphs, n \in 0..1, sel \in {ByForm(1), Named("edid", {"e"})} :
       Asked(RefRequest(g, sel, 1, 8, n, "MISC"))
  \/ \E sel \in {Named("edid", {"none"}), Named("omod_property", {"g"}),
                 [by |-> "omod_property", token |-> Token("digits", {})],
                 [by |-> "entry_point", token |-> Token("hex", {})],
                 [by |-> "entry_point", token |-> Token("digits", {})]} :
       Asked(RefRequest(NoReferences, sel, 0, 1, 0, "any"))

AskPath ==
  \E g \in Graphs, to \in {1, 2, 4}, h \in 0..3, b \in {4, 100} :
    Asked([op |-> "ref_path", db |-> g, from |-> 1, to |-> to, hops |-> h, budget |-> b])

-----------------------------------------------------------------------------
(* Databases to compare: of one record with an array under some name, and of *)
(* two records with a member of each kind that noise suppression knows. *)

Val(x) == [k |-> "val", v |-> x]
Hex(x) == [k |-> "hex", v |-> x]
Ref(x) == [k |-> "ref", v |-> x]
NoValue == D!Null
Arrays(S, n) == {[k |-> "arr", items |-> s] : s \in Sequences(S, n)}
Components ==
  {D!Obj([Component |-> c, Count |-> d]) : c \in {Ref("r1"), Ref("r2")}, d \in {Val("x"), Val("y")}}
Conditions ==
  {D!Obj([Condition |-> D!Obj("Condition Data" :> D!Obj("Parameter 1" :> c))]) : c \in {Val("x"), Ref("r1"), Ref("r2")}}
Links == {D!Obj([Navmesh |-> c] @@ ("Edge Index" :> d)) : c \in {Ref("r1"), Ref("r2")}, d \in {Val("x"), Val("y")}}
Unkeyed == {D!Obj([f |-> c, g |-> d]) : c \in {Val("x"), Val("y")}, d \in {Val("x"), NoValue}}
Loose == {Val("x"), Val("y"), Ref("r1"), Ref("r2"), Hex("r1")}
Families ==
  IF EdgeLinks THEN {<<"Edge Links", Arrays(Links, 2)>>}
  ELSE {"f"} \X {Arrays(Components, 2), Arrays(Loose, 2), Arrays(Conditions, 3), Arrays(Unkeyed, 2),
                 Arrays(Arrays({Val("x"), Ref("r1")}, 1), 2)}
       \union {<<"Points", Arrays(Unkeyed, 2)>>}

Form(sig, fv, fields) ==
  [sig |-> sig, fv |-> fv, edid |-> "e", payload |-> fields, bad |-> FALSE, fields |-> D!Obj(fields)]
Options(suppress) == [suppress |-> suppress, bodies |-> TRUE, exclude |-> {}, only |-> "all", minCount |-> 2]
Database(localized, forms) == [localized |-> localized, forms |-> forms]
Compare(a, b, suppress, schema) ==
  Asked([op |-> "diff", a |-> a, b |-> b, opts |-> Options(suppress), schema |-> schema])
One(name, v) == Database(FALSE, "1" :> Form("MISC", 1, name :> v))

AskDiff ==
  \E family \in Families : \E v, w \in family[2] \union {NoValue} :
    Compare(One(family[1], v), One(family[1], w), FALSE, <<>>)

(* A record of many members; New is read from form version 2 on. *)
Gates == "MISC" :> {[name |-> "New", from |-> 2, below |-> 9, kids |-> {}]}
Rank(faction, rank) == D!Obj([Faction |-> Ref(faction), Rank |-> Val(rank)])
Member(text, hex, level, ranks, keywords, late) ==
  D!Obj(("Name" :> Val(text)) @@ ("Object Bounds" :> Val(level))
          @@ ("Data" :> D!Obj([hex |-> Val(hex), Level |-> Val(level)]))
          @@ ("Factions" :> [k |-> "arr", items |-> ranks])
          @@ ("Keywords" :> [k |-> "arr", items |-> keywords]) @@ late).of
Before == Member("a~b", "1f", "x", <<Rank("r1", "x")>>, <<>>, <<>>)
Late == {<<>>} \union {n :> Val(v) : n \in {"New", "Extra"}, v \in {"d", "e"}}
Both(localized, fv, fields, late) ==
  Database(localized, ("1" :> Form("MISC", fv, fields)) @@ ("2" :> Form("MISC", fv, late)))

AskSuppressed ==
  \E text \in {"a~b", "a b", "c"}, hex \in {"1f", "2f", "00"}, level \in {"x", "y"}, late \in Late,
    ranks \in {<<Rank("r1", "x")>>, <<Rank("r1", "y")>>, <<Rank("r1", "x"), Rank("r2", "x")>>},
    keywords \in {<<>>, <<Ref("r1")>>}, localized \in BOOLEAN, fv \in 1..2 :
    LET old == Both(FALSE, 1, Before, [f |-> Val("x")])
        new == Both(localized, fv, Member(text, hex, level, ranks, keywords, late),
                    [f |-> Val("x"), Extra |-> Val("d")])
    IN  Compare(old, new, TRUE, Gates) \/ Compare(new, old, TRUE, Gates)

-----------------------------------------------------------------------------
(* Modifications 1 to 3 that include each other, keywords 4 and 5, a perk 6   *)
(* and a spell 7 that may read them. *)

NoFields == [props |-> <<>>, includes |-> <<>>, effects |-> <<>>, told |-> FALSE, kwType |-> "None",
             perk |-> 0, ability |-> 0, explosion |-> 0]
Mod(props, mods) ==
  [NoFields EXCEPT !.props = props, !.includes = [i \in DOMAIN mods |-> [mod |-> mods[i], level |-> 1]]]
Reader(tests) == [NoFields EXCEPT !.effects = <<[base |-> 0, target |-> 0, tests |-> tests]>>, !.told = TRUE]
NamedBy(rec) ==
  SelectSeq(rec.props, LAMBDA id : id # NoForm)
    \o [i \in DOMAIN rec.includes |-> rec.includes[i].mod]
    \o FlattenSeq([i \in DOMAIN rec.effects |-> rec.effects[i].tests])
ChaseDb(rec, roles, bad) ==
  [order |-> <<1, 2, 3, 4, 5, 6, 7>>, engine |-> {9}, bad |-> bad, rec |-> rec, role |-> roles,
   body |-> [id \in DOMAIN rec |-> NamedBy(rec[id])],
   type |-> [id \in 1..9 |-> IF id <= 3 THEN "OMOD" ELSE IF id <= 5 THEN "KYWD" ELSE IF id = 6 THEN "PERK"
                             ELSE IF id = 7 THEN "SPEL" ELSE "AVIF"]]

AskChase ==
  \E p \in {<<>>, <<4>>, <<4, 5>>, <<6, 9>>}, a \in {<<>>, <<2>>, <<2, 3, 2>>}, b \in {<<>>, <<3>>, <<1>>},
     role \in {"compose", "alternatives"}, t \in {<<>>, <<4>>, <<4, 5>>}, u \in {<<>>, <<6>>, <<5>>},
     bad \in {{}, {2}, {4}, {6}}, depth \in 1..2 :
    LET rec == <<Mod(p, a), Mod(<<4>>, b), Mod(<<0, 5>>, <<>>), NoFields,
                 [NoFields EXCEPT !.kwType = IF p = <<>> THEN "Mod" ELSE "None"], Reader(t), Reader(u)>>
        roles == <<"compose", role, role, "compose", "compose", "compose", "compose">>
    IN  \E root \in {1, 6} :
          Asked([op |-> "chase", db |-> ChaseDb(rec, roles, bad), root |-> root,
                 caps |-> [includes |-> 9, includeDepth |-> 2, effects |-> 3, depth |-> depth, refs |-> 9]])

-----------------------------------------------------------------------------
(* A leveled list 1 with a list 2 in it; 10 and 11 are items. *)

Number(n) == [flat |-> n, global |-> T!Unset, curve |-> T!Unset]
Random(op, n, or) == [random |-> TRUE, op |-> op, percent |-> n, or |-> or]
Entry(target, none, level, quantity, rows) ==
  [target |-> target, legacy |-> FALSE, extra |-> FALSE, level |-> Number(level), none |-> Number(none),
   quantity |-> Number(quantity), rows |-> rows]
List(model, none, entries) ==
  [useAll |-> model = "all", firstMatch |-> model = "first", calcAll |-> FALSE, unmodelled |-> FALSE,
   none |-> Number(none), entries |-> entries]
Models == {"all", "first", "pool"}
Half == <<Random("lt", 50, FALSE)>>
EitherOr == <<Random("lt", 50, TRUE), Random("gt", 50, FALSE)>>
Entries ==
  {Entry(10, 0, 1, 1, <<>>), Entry(10, 50, 1, 2, Half), Entry(11, 0, 9, 1, <<>>), Entry(11, 50, 1, 1, EitherOr),
   Entry(2, 0, 1, 1, Half), Entry(2, 50, 1, 2, <<>>)}
Lower == {<<Entry(10, 0, 1, 1, Half)>>, <<Entry(10, 0, 1, 1, <<>>), Entry(11, 50, 1, 1, Half)>>}

AskDrop ==
  \E outer, inner \in Models, upper \in {s \in Sequences(Entries, 3) : IsInjective(s)}, lower \in Lower :
    Asked([op |-> "drop_table", root |-> 1,
           db |-> [lists |-> <<List(outer, IF Len(lower) = 1 THEN 50 ELSE T!Unset, upper), List(inner, T!Unset, lower)>>, bad |-> {}],
           opts |-> [level |-> 5, strict |-> FALSE, maxExact |-> 9, maxDepth |-> 3, treeDepth |-> 1]])

-----------------------------------------------------------------------------
(* Records that lead to each other: mods 1 and 2, an enchantment 3, a         *)
(* projectile 4, a keyword 5, magic effects 6 and 13, an explosion 7, a perk  *)
(* 8, a spell 9, lists 10 and 12, an item 11.                                 *)

TextOf(t) == [k |-> "text", v |-> t]
NumberOf(n) == [k |-> "num", v |-> n]
Struct(of) == [k |-> "obj", of |-> of]
ListOf(items) == [k |-> "arr", items |-> items]
Stub(id, type) == [k |-> "ref", id |-> id, of |-> ("record_type" :> TextOf(type)) @@ ("editor_id" :> TextOf("e"))]
NoneAxis == [k |-> "ref", id |-> 99, of |-> ("editor_id" :> TextOf("None"))]
Point(p) == Struct(("x" :> NumberOf(p[1])) @@ ("y" :> NumberOf(p[2])))
Curve(points) ==
  LET stub == Stub(98, "CURV")
  IN  [stub EXCEPT !.of = @ @@ ("curve" :> ListOf([i \in DOMAIN points |-> Point(points[i])]))]

WalkTypes == <<"OMOD", "OMOD", "ENCH", "PROJ", "KYWD", "MGEF", "EXPL", "PERK", "SPEL", "LVLI", "MISC", "LVLI", "MGEF">>
Bare == NoFields @@ [fields |-> Struct(<<>>), scripts |-> <<>>]
EffectOf(base, row) == [base |-> base, target |-> 0, tests |-> <<5>>, kind |-> "Entry Point", tabs |-> <<[tab |-> 2, tests |-> <<5>>]>>, row |-> row]
AbilityOf(id) == [EffectOf(0, Struct(<<>>)) EXCEPT !.target = id, !.kind = "Ability", !.tests = <<>>]
Script(value) == <<[name |-> "s", props |-> <<[name |-> "p", value |-> value]>>]>>
NamesOf(rec) ==
  NamedBy(rec) \o FlattenSeq([i \in DOMAIN rec.effects |-> <<rec.effects[i].base, rec.effects[i].target>>])
    \o <<rec.perk, rec.ability, rec.explosion>>
    \o FlattenSeq([i \in DOMAIN rec.scripts |-> SetToSeq(RefsIn(rec.scripts[i].props[1].value))])
Nested == (10 :> List("all", T!Unset, <<Entry(11, 0, 1, 1, <<>>), Entry(12, 0, 1, 1, <<>>)>>))
            @@ (12 :> List("all", T!Unset, <<Entry(11, 0, 1, 1, <<>>)>>))
WalkDb(rec, type, role, bad) ==
  [order |-> [i \in DOMAIN rec |-> i], engine |-> {}, bad |-> bad, rec |-> rec, type |-> type, lists |-> Nested,
   role |-> [i \in DOMAIN rec |-> IF i = 1 THEN role ELSE "compose"],
   body |-> [i \in DOMAIN rec |-> Distinct(SelectSeq(NamesOf(rec[i]), LAMBDA id : id \in DOMAIN rec))]]
WalkRequest(db, root, depth, level) ==
  [op |-> "walk", db |-> db, root |-> root, wantRefs |-> TRUE, none |-> NoneAxis, decoys |-> {"Other"},
   opts |-> [depth |-> depth, level |-> level,
             odds |-> [level |-> 1, strict |-> FALSE, maxExact |-> 9, maxDepth |-> 3, treeDepth |-> 1],
             caps |-> [includes |-> 9, includeDepth |-> 2, effects |-> 3, depth |-> 1, refs |-> 9, rows |-> 1, enqueue |-> 2, sample |-> 1]]]

AskWalk ==
  \E props \in {<<>>, <<3, 4, 5>>}, mods \in {<<2>>, <<2, 1, 9>>}, role \in {"compose", "alternatives"},
     grants \in {<<0, 0>>, <<8, 9>>, <<8, 6>>, <<13, 0>>}, ability \in {0, 9},
     value \in {Stub(10, "LVLI"), ListOf(<<Stub(12, "LVLI"), Struct("f" :> Stub(10, "LVLI"))>>), Stub(11, "MISC")} :
    LET rec == <<Mod(props, mods) @@ Bare, Mod(<<4>>, <<>>) @@ Bare, [Bare EXCEPT !.effects = <<EffectOf(6, Struct(<<>>)), EffectOf(13, Struct(<<>>))>>],
                 [Bare EXCEPT !.explosion = 7], Bare, [Bare EXCEPT !.perk = grants[1], !.ability = grants[2]], Bare,
                 [Bare EXCEPT !.effects = <<EffectOf(0, Struct(<<>>)), AbilityOf(ability)>>],
                 [Bare EXCEPT !.effects = <<EffectOf(6, Struct(<<>>))>>], Bare, Bare, Bare,
                 [Bare EXCEPT !.perk = 8, !.scripts = Script(value)]>>
    IN  \E root \in {1, 5, 6, 10}, depth \in {W!Unset, 0, 1, 3}, bad \in {{}, {6}, {8}} :
          Asked(WalkRequest(WalkDb(rec, WalkTypes, role, bad), root, depth, 1))

Curves == {Curve(<<>>), Curve(<< <<1, 4>> >>), Curve(<< <<1, 0>>, <<4, 6>> >>), Curve(<< <<0, 5>>, <<2, 1>>, <<2, 3>>, <<4, 0>> >>)}
Rows1(key, beside, a, b) ==
  Struct(key :> ListOf(<<Struct("Curve Table" :> a), Struct(("Curve Table" :> b) @@ (beside :> Stub(5, "KYWD")))>>))
Leveled(type, a, b) ==
  CASE type = "WEAP" -> Struct(("Damage Curve" :> a) @@ Rows1("Damage Types", "Type", a, b).of @@ ("Other" :> b))
    [] type = "EXPL" -> Struct(("Data" :> Struct("Damage Curve Table" :> a)) @@ Rows1("Damage Types", "Type", b, a).of)
    [] type = "ARMO" -> Struct(("Durability Max" :> a) @@ Rows1("Resistances", "Type", a, b).of @@ ("Icon" :> TextOf("")))
    [] OTHER -> Struct(Rows1("Properties", "Actor Value", a, b).of @@ ("Other" :> a) @@ ("Data" :> Struct("_raw" :> NumberOf(1))))
Axes == {W!L!Absent, TextOf("None"), [k |-> "null"], NoneAxis, Stub(5, "AVIF")}

AskLevels ==
  \/ \E type \in {"WEAP", "EXPL", "ARMO", "NPC_", "RACE"}, a, b \in Curves, level \in 0..5 :
       Asked(WalkRequest(WalkDb(<<[Bare EXCEPT !.fields = Leveled(type, a, b)]>>, <<type>>, "compose", {}), 1, 0, level))
  \/ \E type \in {"SPEL", "ENCH", "ALCH"}, a \in Curves, axis \in Axes, level \in 0..5 :
       LET row == Struct(("Curve Table" :> a) @@ (IF axis = W!L!Absent THEN <<>> ELSE "Actor Value" :> axis))
       IN  Asked(WalkRequest(WalkDb(<<[Bare EXCEPT !.effects = <<EffectOf(0, row)>>]>>, <<type>>, "compose", {}), 1, 0, level))

-----------------------------------------------------------------------------
(* Files to pack: general ones of a few runs of bytes, and textures with all  *)
(* their mips, one byte short of them or one byte more.                      *)

Word(w) == [word |-> w, upper |-> FALSE]
Shout(w) == [word |-> w, upper |-> TRUE]
Bytes(n, v) == A!Piece(n, [what |-> "data", v |-> v])
Packing(kind, codec) == [kind |-> kind, codec |-> codec, shrink |-> 100, maxFile |-> 9, maxName |-> 3]
CreateRequest(how, sources, base, opts) ==
  [op |-> "create", how |-> how, sources |-> sources, base |-> base, opts |-> opts, lost |-> 0, version |-> 1,
   codec |-> "auto", limit |-> 7, filter |-> {}]
At(path, data) == [at |-> path, data |-> data, comment |-> FALSE, name |-> <<>>]

Spellings == {<<Word("a")>>, <<Word("d"), Shout("a")>>}
Contents1 == {<<>>, <<Bytes(5, A!ZlibLike)>>, <<Bytes(1, 0), Bytes(1, A!ZlibLike)>>, <<Bytes(3, 0), Bytes(4, 9)>>, <<Bytes(8, 0)>>,
              <<Bytes(10, 0)>>}
Files == {At(p, data) : p \in Spellings, data \in Contents1}
General(codec) == Packing("GNRL", codec)
Codecs == {"lz4", "zlib", "store"}

AskCreate ==
  \/ \E files \in Sequences(Files, 2), codec \in Codecs, how \in {"from", "files"}, back \in {"auto", "given"} :
       Asked([CreateRequest(how, files, <<>>, General(codec)) EXCEPT
                !.codec = IF back = "given" /\ codec # "store" THEN codec ELSE "auto"])
  \/ \E files \in Sequences({At(p, <<Bytes(5, A!ZlibLike)>>) : p \in Spellings}, 2), kept \in 0..120, v \in 1..2 :
       Asked([CreateRequest("from", files, <<>>, General("lz4")) EXCEPT !.lost = kept, !.version = v])
  \/ \E files \in Sequences({[f EXCEPT !.comment = c, !.name = n] : f \in {At(p, <<Bytes(5, A!ZlibLike)>>) : p \in Spellings},
                              c \in BOOLEAN, n \in {<<>>, <<Word("a")>>, <<Word("d"), Word("."), Word("a")>>, <<Word("d"), Word("..")>>}}, 2),
        base \in {<<>>, <<Word("d")>>}, filter \in {{}, {<<"a">>}} :
       Asked([CreateRequest("list", files, base, General("lz4")) EXCEPT !.filter = filter])

Blocked == DOMAIN A!Formats \ {10, 11, 28, 29, 61, 87}
Side(n, level, blocks) == IF blocks THEN 4 * ((A!Larger(n \div 2 ^ level, 1) + 3) \div 4) ELSE A!Larger(n \div 2 ^ level, 1)
MipBytes(d, level) ==
  (Side(d.width, level, d.format \in Blocked) * Side(d.height, level, d.format \in Blocked) * A!Formats[d.format].bits) \div 8
Levels(d) == [i \in 1..A!Larger(d.mips, 1) |-> Bytes(MipBytes(d, i - 1), i)]
Head1(d, extended) ==
  [what |-> "dds", height |-> d.height, width |-> d.width, mips |-> d.mips, total |-> A!Size(Levels(d)),
   pixels |-> IF extended THEN "DX10" ELSE A!Formats[d.format].pixels, cube |-> d.cube,
   ext |-> IF extended THEN [format |-> d.format, cube |-> d.cube] ELSE <<>>]
Dds(d, extended, end) ==
  LET mips == Levels(d)
      cut == IF end = "short" THEN A!Cut(mips, 0, A!Size(mips) - 1) ELSE IF end = "long" THEN Append(mips, Bytes(1, 0)) ELSE mips
  IN  <<A!Piece(IF extended THEN 148 ELSE 128, Head1(d, extended))>> \o cut
Sides == {<<4, 4>>, <<6, 1>>, <<512, 512>>, <<1024, 256>>, <<2048, 1024>>}
Descs(formats) == {[format |-> f, width |-> s[1], height |-> s[2], mips |-> m, cube |-> c] :
                     f \in formats, s \in Sides, m \in {0, 1, 3, 5}, c \in BOOLEAN}
Texture(d, extended, end) == At(<<Word("a")>>, Dds(d, extended, end))

AskTexture ==
  \/ \E d \in Descs({71, 98, 61, 28}), end \in {"whole", "short", "long"}, codec \in {"zlib", "store"} :
       Asked([CreateRequest("files", <<Texture(d, TRUE, end)>>, <<>>, Packing("DX10", codec)) EXCEPT !.limit = 2 ^ 30])
  \/ \E f \in DOMAIN A!Formats, g \in {71, 10}, n \in 0..2, c \in BOOLEAN :
       LET d == [format |-> f, width |-> 512, height |-> 512, mips |-> 2, cube |-> c]
           e == [d EXCEPT !.format = g, !.width = 16]
       IN  Asked([CreateRequest("files", <<Texture(d, A!Formats[f].pixels = "DX10", "whole"), [Texture(e, TRUE, "whole") EXCEPT !.at = <<Word("b")>>]>>,
                                <<>>, Packing("DX10", "default")) EXCEPT !.limit = 2 ^ 30, !.lost = n])

-----------------------------------------------------------------------------

Init ==
  AskScan \/ AskSearch \/ AskFilter \/ AskPayload \/ AskMembers \/ AskUnknown \/ AskBulk \/ AskReferences \/ AskPath \/ AskDiff \/ AskSuppressed \/ AskChase \/ AskDrop \/ AskWalk \/ AskLevels \/ AskCreate \/ AskTexture
Spec == Init /\ [][Next]_vars
===============================================================================
