------------------------------ MODULE Operations ------------------------------
(***************************************************************************)
(* The registry of operations (ops/mod.rs): a request names one operation  *)
(* and its arguments, and running it answers with that operation's output. *)
(* Each operation reads a database and changes nothing, so the state is    *)
(* the request and its response; the work is in the modules instantiated   *)
(* here, one per subsystem.  Beside the registry stands the create command *)
(* of the ba2 tool, answered by the archive it writes.                     *)
(*                                                                         *)
(* Every property compares a response with an independent definition of    *)
(* what the operation promises.                                            *)
(***************************************************************************)
EXTENDS Integers, SequencesExt, BagsExt, Searches, Scans, Connections

Q == INSTANCE Query
B == INSTANCE Binding
D == INSTANCE RecordDiff
C == INSTANCE Chase
T == INSTANCE DropTable
A == INSTANCE Archive
W == INSTANCE Walk
Sel == INSTANCE Selector

-----------------------------------------------------------------------------
(* Filters *)

\* The filter panel asks for the paths of a type and offers them, so a request
\* here is both: the paths, and for each of them the filter "exists".
FilterPaths ==
  LET asked(path) == Q!FilterTypeRecords(request.rows, "MISC", path, "exists", Q!Absent, 0, request.cap)
  IN  Run("filter", [path \in request.paths |->
            [listed |-> path \in Q!ListTypeFieldPaths(request.rows, "MISC", request.cap), found |-> asked(path)]])

\* A path is offered for a type exactly when some record of the sample has a
\* field there to be filtered by (list_type_field_paths and filter_type_records
\* read one sample but walk it in two ways).
ListedPathsMatch ==
  Answered("filter") =>
    \A path \in request.paths : Out[path].listed <=> Out[path].found.matched > 0

-----------------------------------------------------------------------------
(* The decoding of a record *)

GetRecord ==
  LET got(node) == [node |-> node, gaps |-> B!DecodeGaps(node)]
  IN  Run("get", got(B!RecordNode(request.ctx, request.schema, request.sig, request.subs)))

\* The bytes that the leaves of a record show, in order.
RECURSIVE Shown(_)
Shown(node) ==
  CASE node.n = "struct" -> FlattenSeq([i \in DOMAIN node.of |-> Shown(node.of[i].node)])
    [] node.n = "array" -> FlattenSeq([i \in DOMAIN node.items |-> Shown(node.items[i])])
    [] "bytes" \in DOMAIN node -> node.bytes
    [] OTHER -> <<>>

\* Every byte of a record, but for padding (0 here) and the counts in front of
\* arrays (whose places the request names), is shown by exactly one field or marker,
\* whatever lengths, counts and deciders the bytes before it gave: nothing is
\* read twice and nothing is passed over (walk.rs advances by what a field
\* took, and in a union by a second computation of it).  A union that no
\* variant fits is the one marker without bytes.
BytesAreTold ==
  Answered("get") =>
    LET shown == Shown(Out.node)
        undecided == B!CountMarkers(Out.node, "union") > 0
    IN  /\ IsInjective(shown)
        /\ undecided \/ \A sub \in ToSet(request.subs) : \A byte \in ToSet(sub.data) :
                          byte.v # 0 /\ byte.at \notin request.counts => byte \in ToSet(shown)
        /\ undecided => Out.gaps > 0

\* Every subrecord goes to a member in whatever order the file has them: the
\* fields come out in the order of the schema, and a subrecord is left over
\* only if each member that could take it has its value from another one
\* (bind.rs walks the members from a cursor, and around to those before it).
FieldsInOrder ==
  Answered("get") /\ request.sig \in DOMAIN request.schema =>
    LET members == request.schema[request.sig].members
        fields == SelectSeq(Out.node.of, LAMBDA f : f.key # B!Key("_unmapped"))
        place(f) == {i \in DOMAIN members : members[i].name = f.key.name}
        leftOver == B!Get(Out.node.of, B!Key("_unmapped"))
    IN  /\ \A i, j \in DOMAIN fields : i < j => Min(place(fields[i])) <= Max(place(fields[j]))
        /\ leftOver # B!Absent =>
             \A sub \in {f.key.name : f \in ToSet(leftOver.of)} : \A m \in ToSet(members) :
               B!CanHandle(request.ctx, m, sub) => B!Has(fields, B!Key(m.name))

-----------------------------------------------------------------------------
(* The records that requests name *)

\* The client makes a selector of each input and asks for all of them.
GetBulk ==
  LET q == request
      sels == [i \in DOMAIN q.inputs |-> Sel!FromParts(q.w, q.inputs[i].how, q.inputs[i].token, q.base)]
  IN  /\ q.op = "get_bulk"
      /\ IF \E i \in DOMAIN sels : Sel!IsFailed(sels[i]) THEN Refuse(q.op) ELSE Run(q.op, Sel!RecordBulk(q.w, q.db, sels))

\* The FormIDs that a token may be the text of, in a base, zeros in front or
\* not: decimal if asked for or if too long for hexadecimal without a prefix.
Readings(w, token, base) ==
  LET long == ~token.prefix /\ Len(token.body) > w.width
      decimal == ~token.prefix /\ \A c \in ToSet(token.body) : c < w.dec
      digits(id) == Sel!DigitsOf(id, IF decimal /\ (long \/ base = "dec") THEN w.dec ELSE w.hex)
      written(id) == \E n \in 0..Len(token.body) : token.body = [i \in 1..n |-> 0] \o digits(id)
  IN  IF long /\ ~decimal THEN {} ELSE {id \in 0..(w.hex ^ w.width - 1) : written(id)}

\* What a client shows of a record names that record when it is put in again
\* in the same base: its FormID always, its name unless that reads as the
\* FormID of another record; an engine form hides no record of its name, and
\* an input that names nothing spoils no other one of the request.  (In
\* decimal a FormID of more than w.width digits has to be given as a FormID:
\* alone it is taken for a name.)
ShownIsFound ==
  Answered("get_bulk") =>
    LET q == request
        found(i) == IF Sel!IsFailed(Out[i]) THEN {} ELSE {Out[i].id}
        fits(token) == Len(token.body) <= q.w.width
    IN  /\ Len(Out) = Len(q.inputs)
        /\ \A i \in DOMAIN q.inputs :
             LET token == q.inputs[i].token
                 how == q.inputs[i].how
                 read == IF how = "edid" \/ (how = "target" /\ ~fits(token)) THEN {} ELSE Readings(q.w, token, q.base)
                 decimal == q.base = "dec" /\ ~token.prefix /\ \A c \in ToSet(token.body) : c < q.w.dec
                 committed == how = "formid" \/ (how = "target" /\ read # {} /\ (token.prefix \/ decimal))
                 named == IF committed \/ token \notin DOMAIN q.db.names THEN {} ELSE {q.db.names[token]}
                 meant == IF how = "entry_point" THEN {} ELSE IF read \cap q.db.records # {} THEN read ELSE named
                 engine == read \union {id \in DOMAIN q.db.engine : ~committed /\ q.db.engine[id] = token}
             IN  /\ found(i) = meant \cap q.db.records
                 /\ (how = "target" /\ found(i) = {} /\ Out[i].error = "hardcoded") =>
                      engine \cap DOMAIN q.db.engine # {}
                 /\ (how = "formid" \/ (how = "target" /\ fits(token))) =>
                      \A id \in q.db.records : token = Sel!DisplayBase(q.w, id, q.base) => found(i) = {id}

-----------------------------------------------------------------------------
(* The diff of two databases *)

\* A request names two databases; the host maps both (Host), the diff reads them.
DiffDatabases ==
  LET q == request
      tell(out) == IF out = D!Error THEN Refuse(q.op) ELSE Run(q.op, out)
  IN  q.op = "diff" /\ tell(D!DiffDatabasesWith(q.a, q.b, q.opts, q.schema, {}))

\* How often a value names a form, or says the same text without naming one.
RECURSIVE Mentions(_, _)
Mentions(v, what) ==
  CASE v.k = "obj" -> FoldFunction(LAMBDA w, n : n + Mentions(w, what), 0, v.of)
    [] v.k = "arr" -> FoldFunction(LAMBDA w, n : n + Mentions(w, what), 0, v.items)
    [] v.k = "null" -> 0
    [] OTHER -> IF v = what THEN 1 ELSE 0
Named1(v, id) == Mentions(v, [k |-> "ref", v |-> id])
Spelt(v, id) == Mentions(v, [k |-> "hex", v |-> id])

\* Without noise suppression a record that is not listed as changed has the
\* same content on both sides, but for the order of arrays that have none; and
\* a changed one names every form that it mentions more or less often than it
\* did (array_diff.rs pairs elements, provenance.rs finds the forms again from
\* what the diff kept of them).
DiffTellsAll ==
  Answered("diff") /\ ~request.opts.suppress =>
    \A id \in DOMAIN request.a.forms \cap DOMAIN request.b.forms :
      LET from == request.a.forms[id].fields
          to == request.b.forms[id].fields
          free(v) == D!OrderFree(D!Rendered(v), FALSE)
      IN  IF id \notin DOMAIN Out.changed THEN free(from) = free(to)
          ELSE \A ref \in D!FormIdsIn(from) \union D!FormIdsIn(to) :
                 Named1(from, ref) # Named1(to, ref) /\ Spelt(from, ref) = Spelt(to, ref)
                   => ref \in Out.changed[id].refs

\* The members of two structs that both have a value and not the same, as
\* paths; an element of a keyed list is a member under its key.
RECURSIVE Edits(_, _)
Edits(a, b) ==
  UNION {LET x == a.of[n] y == b.of[n] IN
         CASE x = y \/ x.k = "null" \/ y.k = "null" -> {}
           [] x.k = "obj" /\ y.k = "obj" -> {<<n>> \o p : p \in Edits(x, y)}
           [] OTHER -> {<<n>>} : n \in DOMAIN a.of \cap DOMAIN b.of}

\* What the rules say may go: fields that are noise, a text whose spelling the
\* string tables changed, a blob that became zeros.
Excused(q, sig, a, b, path) ==
  LET at(v) == D!GetPath(v, path)
      flipped == q.a.localized # q.b.localized
  IN  \/ Head(path) \in D!NoiseFields(sig)
      \/ flipped /\ at(a).k = "val" /\ at(b).k = "val"
           /\ D!TableNormalized(at(a).v) = D!TableNormalized(at(b).v)
      \/ Last(path) = "hex" /\ at(b).v \in D!ZeroHex

RECURSIVE Shows(_, _)
Shows(changes, path) ==
  /\ Head(path) \in DOMAIN changes
  /\ Len(path) = 1 \/ Shows(changes[Head(path)].of, Tail(path))

\* What somebody wrote survives every stage of noise suppression: a value that
\* both sides have and that differs for no excused reason is still there, as
\* are the elements that came or went; and nothing is shown that is equal.
EditsSurvive ==
  Answered("diff") /\ request.opts.suppress =>
    \A id \in DOMAIN request.a.forms \cap DOMAIN request.b.forms :
      LET q == request
          from == D!Rendered(q.a.forms[id].fields)
          to == D!Rendered(q.b.forms[id].fields)
          shown == IF id \in DOMAIN Out.changed THEN Out.changed[id].changes ELSE <<>>
          sig == q.b.forms[id].sig
      IN  /\ \A path \in Edits(from, to) : Excused(q, sig, from, to, path) \/ Shows(shown, path)
          /\ \A n \in DOMAIN shown : D!GetPath(from, <<n>>) # D!GetPath(to, <<n>>)

-----------------------------------------------------------------------------
(* The chase of a unique effect *)

Chase ==
  LET tell(tree) == IF tree = C!Error THEN Refuse("chase") ELSE Run("chase", tree)
  IN  request.op = "chase" /\ tell(C!ChaseTree(request.db, request.caps, request.root))

\* The mods that compose into the root, through at most n includes.
RECURSIVE Composed(_, _, _)
Composed(db, id, n) ==
  IF n = 0 \/ ~C!Fetched(db, id) \/ db.role[id] # "compose" THEN {}
  ELSE LET mods == {inc.mod : inc \in ToSet(db.rec[id].includes)} \cap C!Forms(db)
       IN  (mods \ db.bad) \union UNION {Composed(db, mod, n - 1) : mod \in mods}

\* A consumer of a keyword or value: a spell or perk that leads to it.
Consumers(db, id, n) ==
  {r \in Within(db, {id}, n)[n] \ {id} : db.type[r] \in ToSet(C!ConsumerTypes)}

\* Chasing a modification follows every property of the root and of the mods
\* composed into it, and of nothing else, each once (the root twice if it
\* includes itself); a keyword without a type is followed to every spell and
\* perk that reads it and called a tag only when there is none.
ChaseFollowsAll ==
  Answered("chase") /\ Out.effectHops = <<>> =>
    LET db == request.db
        sources == {request.root} \union Composed(db, request.root, request.caps.includeDepth)
        rows == UNION {{<<s, i>> : i \in DOMAIN db.rec[s].props} : s \in sources}
        hop(i) == <<Out.hops[i].source, Out.hops[i].index>>
        sourcesOf(h) == {e.source : e \in ToSet(h.evidence)}
    IN  /\ {hop(i) : i \in DOMAIN Out.hops} = rows
        /\ \A i, j \in DOMAIN Out.hops : hop(i) = hop(j) => i = j \/ Out.hops[i].source = request.root
        /\ \A h \in ToSet(Out.hops) :
             LET mod == db.rec[h.source].props[h.index]
                 readers == Consumers(db, mod, request.caps.depth)
             IN  mod \in C!Forms(db) /\ db.type[mod] = "KYWD" /\ db.rec[mod].kwType = "None" =>
                   /\ h.target = mod
                   /\ IF readers = {} /\ mod \notin db.bad THEN h.kind = "tag_keyword"
                      ELSE h.kind = "keyword_hook" /\ sourcesOf(h) = readers

-----------------------------------------------------------------------------
(* Drop tables *)

DropTable == Run("drop_table", T!DropTableOf(request.db, request.opts, request.root))

\* What the game does: the gates of a list pass or not, each on its own, and
\* all of the passing entries, the first or any one of them is drawn, unless
\* the list or the entry gives nothing.  Average is the mean of some amount
\* over the sets of gates that may pass.
Average(list, amount(_)) ==
  LET n == DOMAIN list.entries
      odds(s) == T!ProductOf([i \in n |-> IF i \in s THEN list.entries[i].gate ELSE T!Rest(list.entries[i].gate)])
  IN  T!SumOf([s \in SUBSET n |-> T!Times(odds(s), amount(s))])
Even(s, amount(_)) == T!Over(T!SumOf([i \in s |-> amount(i)]), T!Frac(Cardinality(s), 1))
Either(odds, p, q) == T!Plus(T!Times(odds, p), T!Times(T!Rest(odds), q))

\* The chance that a draw brings none of some items.
RECURSIVE Misses(_, _, _, _)
Misses(db, opts, id, items) ==
  IF ~T!IsSublist(db, id) THEN IF id \in items THEN T!Zero ELSE T!Unit
  ELSE LET list == T!ResolveList(db.lists[id], opts)
           missed(i) == LET e == list.entries[i] IN Either(e.none, T!Unit, Misses(db, opts, e.target, items))
           amount(s) ==
             CASE s = {} -> T!Unit
               [] s # {} /\ list.model = "UseAll" -> T!ProductOf([i \in s |-> missed(i)])
               [] s # {} /\ list.model = "UseFirstMatch" -> missed(Min(s))
               [] OTHER -> Even(s, missed)
       IN  Either(list.factor, Average(list, amount), T!Unit)

\* How many of an item a draw brings on average.
RECURSIVE Brings(_, _, _, _)
Brings(db, opts, id, item) ==
  IF ~T!IsSublist(db, id) THEN IF id = item THEN T!Unit ELSE T!Zero
  ELSE LET list == T!ResolveList(db.lists[id], opts)
           brought(i) == LET e == list.entries[i] IN
             Either(e.none, T!Zero, T!Times(T!Frac(e.quantity, 1), Brings(db, opts, e.target, item)))
           amount(s) ==
             CASE s = {} -> T!Zero
               [] s # {} /\ list.model = "UseAll" -> T!SumOf([i \in s |-> brought(i)])
               [] s # {} /\ list.model = "UseFirstMatch" -> brought(Min(s))
               [] OTHER -> Even(s, brought)
       IN  T!Times(list.factor, Average(list, amount))

\* The chance of an item, its expected number and the chance of nothing are
\* those of drawing from the lists, however they nest (lvli.rs merges the
\* leaves of each entry by formulas and never looks at a set of gates that is
\* not of one pool).
OddsAreExact ==
  Answered("drop_table") =>
    LET q == request
        items == UNION {{e.target : e \in ToSet(q.db.lists[l].entries)} : l \in DOMAIN q.db.lists} \ DOMAIN q.db.lists
        shown(item) == IF item \in DOMAIN Out.leaves THEN Out.leaves[item] ELSE [p |-> T!Zero, expected |-> T!Zero]
    IN  /\ Out.empty = Misses(q.db, q.opts, q.root, items)
        /\ \A item \in items :
             /\ shown(item).p = T!Rest(Misses(q.db, q.opts, q.root, {item}))
             /\ shown(item).expected = Brings(q.db, q.opts, q.root, item)

-----------------------------------------------------------------------------
(* The walk from a record *)

Walk == Run("walk", W!WalkWithRefs(request.db, request.opts, request.root, request.wantRefs))

RECURSIVE RefsIn(_)
RefsIn(v) ==
  CASE v.k = "ref" -> {v.id}
    [] v.k = "obj" -> UNION {RefsIn(v.of[key]) : key \in DOMAIN v.of}
    [] v.k = "arr" -> UNION {RefsIn(v.items[i]) : i \in DOMAIN v.items}
    [] OTHER -> {}

\* The records that one hands on to, by what its type means: a magic effect
\* grants, an item has such effects, a perk has abilities, a projectile
\* explodes, and a mod attaches its own and its templates' properties, or
\* stands for the first of its alternatives.
Leads(db, caps, id) ==
  LET rec == db.rec[id]
      type == db.type[id]
      lists(r) == {x \in UNION {RefsIn(p.value) : p \in UNION {ToSet(s.props) : s \in ToSet(r.scripts)}} : db.type[x] = "LVLI"}
      grants(m) == {db.rec[m].perk, db.rec[m].ability} \union lists(db.rec[m])
      bases == {e.base : e \in ToSet(rec.effects)} \cap C!Forms(db)
      attached == UNION {ToSet(db.rec[m].props) : m \in {id} \union Composed(db, id, caps.includeDepth)}
      chosen == {rec.includes[i].mod : i \in {i \in DOMAIN rec.includes : i <= caps.enqueue}}
  IN  C!Forms(db) \cap
      CASE type = "MGEF" -> grants(id)
        [] type \in {"SPEL", "ENCH", "ALCH"} -> UNION {grants(m) : m \in bases \ db.bad}
        [] type = "PERK" -> {e.target : e \in {e \in ToSet(rec.effects) : e.kind = "Ability"}}
        [] type = "PROJ" -> {rec.explosion}
        [] type = "OMOD" -> {x \in attached \cap C!Forms(db) : db.type[x] \in {"ENCH", "PROJ"}}
                              \union (IF db.role[id] = "alternatives" THEN chosen ELSE {})
        [] OTHER -> {}

\* The records within some hops of the root, through records that decode.
Reach(q, hops) ==
  LET step(done, i) == done \union (UNION {Leads(q.db, q.opts.caps, id) : id \in done} \ q.db.bad)
  IN  FoldLeft(step, {q.root}, [i \in 1..hops |-> i])

\* The levels of a shown tree, and those that there are to show.
RECURSIVE TreeLevels(_)
TreeLevels(tree) ==
  IF tree = <<>> THEN 0 ELSE 1 + Max({TreeLevels(tree[i].sublist) : i \in DOMAIN tree})
RECURSIVE Nesting(_, _)
Nesting(db, id) ==
  IF ~T!IsSublist(db, id) \/ id \in db.bad THEN 0
  ELSE 1 + Max({Nesting(db, e.target) : e \in ToSet(db.lists[id].entries)})

\* A curve gives its points, the lines between them, and its ends beyond them.
Fits(points, x, y) ==
  LET on(i) == points[i].x = x /\ y = T!Frac(points[i].y, 1)
      between(a, b) == /\ a.x < x /\ x < b.x
                       /\ T!Times(T!Minus(y, T!Frac(a.y, 1)), T!Frac(b.x - a.x, 1)) = T!Frac((x - a.x) * (b.y - a.y), 1)
  IN  \/ \E i \in DOMAIN points : on(i)
      \/ \E i \in 1..(Len(points) - 1) : between(points[i], points[i + 1])
      \/ x < points[1].x /\ y = T!Frac(points[1].y, 1)
      \/ x > Last(points).x /\ y = T!Frac(Last(points).y, 1)

\* The curves of a record: their places, and the one at a place.
RECURSIVE CurvePlaces(_, _)
CurvePlaces(v, place) ==
  CASE v.k = "ref" -> IF W!L!Points(v) # <<>> THEN {place} ELSE {}
    [] v.k = "obj" -> UNION {CurvePlaces(v.of[key], Append(place, [key |-> key, at |-> 0])) : key \in DOMAIN v.of}
    [] v.k = "arr" -> UNION {CurvePlaces(v.items[i], Append(Front(place), [Last(place) EXCEPT !.at = i])) : i \in DOMAIN v.items}
    [] OTHER -> {}
CurveAt(fields, place) ==
  LET enter(v, step) == IF step.at = 0 THEN v.of[step.key] ELSE v.of[step.key].items[step.at]
  IN  W!L!Points(FoldLeft(enter, fields, place))

\* A walk shows every record within the asked hops of the root once, at its
\* shortest distance and after one that leads there, and no other (mod.rs
\* checks what it visited both when it queues a record and when it takes it
\* off, and skips what does not resolve); a list among them shows as many
\* levels as hops are left, a keyword the count of all its consumers, and a
\* record each of its level curves at the level, but none that runs over
\* something else.
WalkShowsAll ==
  Answered("walk") =>
    LET q == request
        db == q.db
        max == IF q.opts.depth = W!Unset THEN (IF db.type[q.root] = "LVLI" THEN 1 ELSE 2) ELSE q.opts.depth
        nodes == Out.nodes
        direct(id, type) == {r \in Forms(db) \ {id} : db.type[r] = type /\ id \in ToSet(db.body[r])}
        ofType(types) == {n \in ToSet(nodes) : n.type \in types}
        axis(row) == W!L!FieldOf(row, "Actor Value")
        named(row) == axis(row).k = "ref" /\ axis(row) # q.none
    IN  /\ Out.notFound <=> q.root \in db.bad
        /\ ~Out.notFound =>
             /\ {n.id : n \in ToSet(nodes)} = Reach(q, max) /\ Len(nodes) = Cardinality(Reach(q, max))
             /\ \A i \in DOMAIN nodes :
                  /\ nodes[i].id \in Reach(q, nodes[i].depth)
                  /\ nodes[i].depth = 0 \/ nodes[i].id \notin Reach(q, nodes[i].depth - 1)
                  /\ i = 1 \/ \E j \in 1..(i - 1) :
                       nodes[j].depth = nodes[i].depth - 1 /\ nodes[i].id \in Leads(db, q.opts.caps, nodes[j].id)
             /\ \A n \in ofType({"LVLI"}) :
                  TreeLevels(n.digest.table.tree) = Min({Nesting(db, n.id), Max({1, max - n.depth})})
             /\ \A n \in ofType({"KYWD", "AVIF"}), type \in {"SPEL", "PERK"} :
                  LET groups == {g \in ToSet(n.digest.consumers) : g.type = type} IN
                  IF direct(n.id, type) = {} THEN groups = {} ELSE
                    \E g \in groups : g.total = Cardinality(direct(n.id, type)) /\ Len(g.rows) = Min({g.total, q.opts.caps.rows})
             /\ \A n \in ofType({"WEAP", "EXPL", "NPC_", "RACE", "ARMO"}) :
                  /\ {row.field : row \in ToSet(n.digest.curves)}
                       = {p \in CurvePlaces(db.rec[n.id].fields, <<>>) : p[1].key \notin q.decoys}
                  /\ \A row \in ToSet(n.digest.curves) :
                       Fits(CurveAt(db.rec[n.id].fields, row.field), q.opts.level, row.value[1])
             /\ \A n \in ofType({"SPEL", "ENCH", "ALCH"}) : \A i \in DOMAIN n.digest.effects :
                  LET row == db.rec[n.id].effects[i].row
                      points == W!L!Points(W!L!FieldOf(row, "Curve Table"))
                      shown == n.digest.effects[i].curve
                  IN  IF points = <<>> \/ named(row) THEN shown = <<>>
                      ELSE Len(shown) = 1 /\ Fits(points, q.opts.level, shown[1])
             /\ q.wantRefs => \A type \in {db.type[r] : r \in Forms(db)} :
                  LET groups == {g \in Out.refs : g.type = type}
                  IN  FoldSet(LAMBDA g, sum : sum + g.count, 0, groups) = Cardinality(direct(q.root, type))

-----------------------------------------------------------------------------
(* The archives that ba2 creates and ba2 and esm read *)

\* What becomes of an archive on its way to its reader: the last bytes are
\* lost, or it is of another version.
Received(q, file) ==
  A!Cut([file EXCEPT ![1].is.version = q.version], 0, A!Size(file) - q.lost)

ReadBack(q, file, opened) ==
  [made |-> TRUE, file |-> file, opened |-> opened, esm |-> A!EsmOpen(file),
   out |-> IF A!Failed(opened) THEN <<>> ELSE A!ExtractAll(file, opened.of, q.filter, q.codec, q.limit)]
Receive(q, file) == ReadBack(q, file, A!Open(file))
SendOn(q, made) == IF A!Failed(made) THEN [made |-> FALSE] ELSE Receive(q, Received(q, A!Publish(<<>>, made)))
ArchiveOf(q) == SendOn(q, A!CmdCreate(q.how, q.sources, q.base, q.opts))

CreateArchive == Run("create", ArchiveOf(request))

\* Neighbouring pieces of one value are one; of a texture, its description and
\* the mips.
Joined(data) ==
  LET join(s, p) ==
        IF s # <<>> /\ Last(s).is = p.is THEN Append(Front(s), A!Piece(Last(s).len + p.len, p.is)) ELSE Append(s, p)
  IN  FoldLeft(join, <<>>, data)
Contents(kind, data) ==
  IF kind = "GNRL" THEN Joined(data)
  ELSE [desc |-> A!ParseHeader(data).desc, mips |-> Joined(Tail(data))]
Packable(opts, data) ==
  IF opts.kind = "GNRL" THEN A!Size(data) <= opts.maxFile
  ELSE ~A!Failed(A!ParseHeader(data)) /\ A!Size(data) >= data[1].len + data[1].is.total

\* A chunk holds the mips it says it does; the pieces of a mip are numbered,
\* from 1 for the largest, and 0 is what follows them all.
HoldsItsMips(q, chunk) ==
  LET data == A!ReadBlob(Out.file, chunk.blob, q.codec, q.limit)
  IN  {p.is.v : p \in ToSet(data)} \ {0} = {level + 1 : level \in chunk.first..chunk.last}

\* A name finds what was packed last under it, byte for byte, in both readers
\* and in an extracted tree, except what is larger than the readers unpack;
\* and an archive of which anything is missing, or that is of another version,
\* is not opened (writer.rs computes every offset before the data is written,
\* and a name table at the end says where the data ends).
PackedIsRead ==
  Answered("create") =>
    LET q == request
        pairs == A!Collect(q.how, q.sources, q.base)
        path(i) == A!NormalizeName(pairs[i].name)
        lastOf(i) == Max({j \in DOMAIN pairs : path(j) = path(i)})
        entries == Out.opened.of
        read(i) == A!Read(Out.file, entries, path(i), q.codec, q.limit)
        isBack(data, i) ==
          IF A!Unread(data) THEN A!Size(pairs[lastOf(i)].data) > q.limit
          ELSE Contents(q.opts.kind, data) = Contents(q.opts.kind, pairs[lastOf(i)].data)
        whole == q.lost = 0
    IN  /\ (pairs # <<>> /\ \A i \in DOMAIN pairs : pairs[i].name # A!NoName /\ Packable(q.opts, pairs[i].data)) => Out.made
        /\ Out.made => (A!Failed(Out.opened) <=> ~whole \/ q.version # A!Version)
        /\ Out.made /\ ~whole => A!Failed(Out.esm)
        /\ Out.made /\ ~A!Failed(Out.opened) => \A i \in DOMAIN pairs :
             /\ isBack(read(i), i)
             /\ ~A!Unread(read(i)) => A!Size(read(i)) = A!UnpackedSize(entries[lastOf(i)])
             /\ Out.out.ok /\ q.filter = {} => Contents(q.opts.kind, Out.out.tree[A!SafeOutputPath(path(i)).of])
                                               = Contents(q.opts.kind, pairs[lastOf(i)].data)
             /\ q.opts.kind = "DX10" /\ Packable(q.opts, pairs[i].data) =>
                  \A c \in ToSet(entries[i].chunks) : HoldsItsMips(q, c)
             /\ q.opts.kind = "GNRL" /\ q.opts.codec # "zlib" => isBack(A!EsmRead(Out.file, Out.esm.of, path(i), q.limit), i)

-----------------------------------------------------------------------------

Next ==
  \/ Scan \/ SearchRecords \/ FilterPaths \/ GetRecord \/ GetBulk \/ ReferencedBy \/ RefPath
  \/ DiffDatabases \/ Chase \/ DropTable \/ Walk \/ CreateArchive
=============================================================================
