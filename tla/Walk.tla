--------------------------------- MODULE Walk ---------------------------------
(***************************************************************************)
(* The walk from a record through what it leads to (walk/mod.rs): a        *)
(* breadth-first search that digests each record it meets by its type, and *)
(* follows the references that the digest found worth it.                  *)
(*                                                                         *)
(* db is the database of Chase and of DropTable, and more of each record:  *)
(*   fields   its decoded fields, a value of LevelCurves                   *)
(*   scripts  sequence of [name, props], props of [name, value]            *)
(*   effects  with, for each, the kind of a perk's effect, the tabs of its *)
(*            conditions [tab, tests] and the row it was decoded to        *)
(* opts is [depth, level, odds, caps]: depth Unset asks for the default of *)
(* the root's type, odds and caps are the options of DropTable and Chase   *)
(* (a direct walk to the consumers, at most caps.rows of a type, and       *)
(* caps.enqueue alternatives).  Names and scalars that a digest passes on  *)
(* as they are, and an explosion's figures, are left out.                  *)
(***************************************************************************)
EXTENDS Chase

L == INSTANCE LevelCurves
T == INSTANCE DropTable

Unset == -1
DefaultDepth(type) == IF type = "LVLI" THEN 1 ELSE 2

\* A reference to follow, and the edge that the record it leads to is shown with.
Edge(id, by, of) == [id |-> id, via |-> [by |-> by, of |-> of]]
EdgeTo(db, id, by) == IF IsTarget(db, id) THEN <<Edge(id, by, <<>>)>> ELSE <<>>
Digest(digest, enqueue) == [digest |-> digest, enqueue |-> enqueue]

-----------------------------------------------------------------------------
(* Effects *)

\* The leveled lists anywhere in a value.
RECURSIVE Collect(_)
Collect(v) ==
  LET keys == IF v.k = "obj" THEN SetToSeq(DOMAIN v.of) ELSE <<>>
  IN  CASE v.k = "ref" -> IF L!IsText(L!FieldOf(v, "record_type"), "LVLI") THEN <<v.id>> ELSE <<>>
        [] v.k = "obj" -> FlattenSeq([i \in DOMAIN keys |-> Collect(v.of[keys[i]])])
        [] OTHER -> FlattenSeq([i \in DOMAIN L!Items(v) |-> Collect(L!Items(v)[i])])

ScriptLeveledLists(rec) ==
  LET ofProp(script, prop) ==
        LET ids == Collect(prop.value)
        IN  [i \in DOMAIN ids |-> [script |-> script.name, property |-> prop.name, id |-> ids[i]]]
      ofScript(script) == FlattenSeq([i \in DOMAIN script.props |-> ofProp(script, script.props[i])])
  IN  FlattenSeq([i \in DOMAIN rec.scripts |-> ofScript(rec.scripts[i])])

ScriptEdges(lists) == [i \in DOMAIN lists |-> Edge(lists[i].id, "script", <<lists[i].script, lists[i].property>>)]

\* What a magic effect hands on, and the references to it.
MgefSummary(db, rec) ==
  LET known(id) == IF IsTarget(db, id) THEN id ELSE NoForm
  IN  [perk |-> known(rec.perk), ability |-> known(rec.ability), lists |-> ScriptLeveledLists(rec)]
NoSummary == [perk |-> NoForm, ability |-> NoForm, lists |-> <<>>]
Granted(db, summary) ==
  EdgeTo(db, summary.perk, "Perk to Apply") \o EdgeTo(db, summary.ability, "Equip Ability") \o ScriptEdges(summary.lists)

DigestMgef(db, rec) == Digest(MgefSummary(db, rec), Granted(db, MgefSummary(db, rec)))

\* An effect's own curve, unless it runs over something other than level.
CurveAtLevel(sig, row, level) ==
  LET told(fields, points) == fields # <<>> /\ points # <<>> /\ L!GuardAxis(fields[1].guard, row) = L!Absent
      curve(points) == IF told(L!FieldFor(sig, L!EffectCurve), points) THEN <<L!Eval(points, level)>> ELSE <<>>
  IN  curve(L!Points(L!FieldOf(row, "Curve Table")))

DigestMagicItem(db, sig, rec, level) ==
  LET summary(e) ==
        IF IsTarget(db, e.base) /\ Fetched(db, e.base) THEN MgefSummary(db, db.rec[e.base]) ELSE NoSummary
      row(e) == summary(e) @@ [base |-> e.base, tests |-> e.tests, curve |-> CurveAtLevel(sig, e.row, level)]
      effects == rec.effects
  IN  Digest([effects |-> [i \in DOMAIN effects |-> row(effects[i])]],
             Concat([i \in DOMAIN effects |-> Granted(db, summary(effects[i]))]))

\* A condition of the third tab runs on the target.
FlattenPerkConditions(tabs) ==
  LET ofTab(t) == [i \in DOMAIN t.tests |-> [test |-> t.tests[i], onTarget |-> t.tab = 2]]
  IN  Concat([i \in DOMAIN tabs |-> ofTab(tabs[i])])

DigestPerk(db, rec) ==
  LET row(e, i) ==
        CASE e.kind = "Ability" -> [kind |-> e.kind, index |-> i, ability |-> e.target]
          [] e.kind = "Entry Point" -> [kind |-> e.kind, index |-> i, tests |-> FlattenPerkConditions(e.tabs)]
          [] OTHER -> [kind |-> e.kind, index |-> i]
      told(i) == rec.effects[i].kind # "Ability" \/ rec.effects[i].target # NoForm
      shown == SelectSeq([i \in DOMAIN rec.effects |-> i], told)
      ability(e) == IF e.kind = "Ability" THEN EdgeTo(db, e.target, "Ability") ELSE <<>>
  IN  Digest([effects |-> [i \in DOMAIN shown |-> row(rec.effects[shown[i]], shown[i])]],
             Concat([i \in DOMAIN rec.effects |-> ability(rec.effects[i])]))

-----------------------------------------------------------------------------
(* Keywords, values, weapons and records of other types *)

\* digest_keyword_or_av: the spells and perks next to it, a group for each
\* type that has any, with the count of all and the place in the first ones.
ConsumerGroups(db, id, lists) ==
  LET row(r) == [id |-> r.id, via |-> IF FieldPaths(db, r.id, id) = <<>> THEN <<>> ELSE <<Head(FieldPaths(db, r.id, id))>>]
      group(i) == [type |-> ConsumerTypes[i], total |-> lists[i].total,
                   rows |-> [j \in DOMAIN lists[i].rows |-> row(lists[i].rows[j])]]
      any(i) == lists[i].rows # <<>>
      shown == SelectSeq([i \in DOMAIN lists |-> i], any)
  IN  [i \in DOMAIN shown |-> group(shown[i])]
DigestConsumers(db, caps, id) == [consumers |-> ConsumerGroups(db, id, ConsumerLists(db, id, 1, caps.rows))]

RelevantPrefixes == {"WeaponType", "HasLegendary", "ma_"}
DigestWeap(fields, level) ==
  LET relevant(k) ==
        LET name == L!FieldOf(k, "editor_id") IN name.k = "text" /\ name.prefix \in RelevantPrefixes
      keywords == SelectSeq(L!Items(L!FieldOf(L!FieldOf(fields, "Keywords"), "Keywords")), relevant)
  IN  [keywords |-> [i \in DOMAIN keywords |-> keywords[i].id], level |-> level,
       curves |-> L!EvalLevelCurves("WEAP", fields, level)]

GenericNoiseKeys ==
  {"Object Bounds", "Model", "Preview Transform", "Sound Level", "Sounds", "Sound", "Pickup Sound", "Putdown Sound",
   "Icon", "Message Icon", "Transform", "Animation Sound"}
IsGenericNoiseValue(v) == v.k = "null" \/ L!IsText(v, "")
HasRawMarker(v) == L!FieldOf(v, "_raw") # L!Absent

RECURSIVE TrimGenericFields(_)
TrimGenericFields(v) ==
  LET noise(key) == \/ key \in {"_record_type", "Editor ID", "Unknown"} \union GenericNoiseKeys
                    \/ IsGenericNoiseValue(v.of[key]) \/ HasRawMarker(v.of[key])
  IN  CASE v.k = "obj" -> [v EXCEPT !.of = [key \in {k \in DOMAIN v.of : ~noise(k)} |-> TrimGenericFields(v.of[key])]]
        [] v.k = "arr" -> [v EXCEPT !.items = [i \in DOMAIN v.items |-> TrimGenericFields(v.items[i])]]
        [] OTHER -> v

DigestGeneric(fields) == [trimmed |-> TrimGenericFields(fields)]
DigestGenericLeveled(sig, fields, level) ==
  DigestGeneric(fields) @@ [level |-> level, curves |-> L!EvalLevelCurves(sig, fields, level)]

-----------------------------------------------------------------------------
(* Modifications, projectiles and lists *)

\* omod_hops_enqueue: projectiles and enchantments attached directly, those of
\* an included template under its name.
HopEdges(db, root, hops) ==
  LET attached(hop) == hop.kind = "direct_property" /\ hop.target # NoForm /\ db.type[hop.target] \in {"PROJ", "ENCH"}
      direct == SelectSeq(hops, attached)
  IN  [i \in DOMAIN direct |->
         Edge(direct[i].target, "OMOD property", IF direct[i].source = root THEN <<>> ELSE <<direct[i].source>>)]

DigestTree(db, caps, id, tree) ==
  LET templates == IF db.role[id] = "compose" THEN Take(IncludeAlternatives(db, id), caps.enqueue) ELSE <<>>
      shown == Take(tree.alternatives, caps.enqueue)
  IN  Digest([hops |-> tree.hops, templates |-> [i \in DOMAIN templates |-> templates[i].mod],
              alternatives |-> shown, total |-> Len(tree.alternatives)],
             HopEdges(db, id, tree.hops) \o [i \in DOMAIN shown |-> Edge(shown[i].mod, "alternative", <<id>>)])
DigestOmod(db, caps, id) == DigestTree(db, caps, id, OmodChase(db, caps, id))

DigestProj(db, rec) == Digest([explosion |-> rec.explosion], EdgeTo(db, rec.explosion, "projectile explosion"))

\* A list shows at least its direct entries, whatever hops are left.
DigestLvli(db, opts, id, remaining) ==
  [table |-> T!DropTableOf(db, [opts.odds EXCEPT !.level = opts.level, !.treeDepth = IF remaining = 0 THEN 1 ELSE remaining], id)]

DigestNode(db, opts, id, remaining) ==
  LET type == db.type[id]
      rec == db.rec[id]
  IN  CASE type = "LVLI" -> Digest(DigestLvli(db, opts, id, remaining), <<>>)
        [] type \in {"AVIF", "KYWD"} -> Digest(DigestConsumers(db, opts.caps, id), <<>>)
        [] type = "MGEF" -> DigestMgef(db, rec)
        [] type \in {"SPEL", "ENCH", "ALCH"} -> DigestMagicItem(db, type, rec, opts.level)
        [] type = "PERK" -> DigestPerk(db, rec)
        [] type = "WEAP" -> Digest(DigestWeap(rec.fields, opts.level), <<>>)
        [] type = "PROJ" -> DigestProj(db, rec)
        [] type = "EXPL" -> Digest([curves |-> L!EvalLevelCurves(type, rec.fields, opts.level)], <<>>)
        [] type \in {"NPC_", "RACE", "ARMO"} -> Digest(DigestGenericLeveled(type, rec.fields, opts.level), <<>>)
        [] type = "OMOD" -> DigestOmod(db, opts.caps, id)
        [] OTHER -> Digest(DigestGeneric(rec.fields), <<>>)

-----------------------------------------------------------------------------
(* The walk *)

Queued(id, depth, via) == [id |-> id, depth |-> depth, via |-> via]

(* Mutant: the edges of the last level are followed too. *)
NextLevel_OneMore(enqueue, visited, depth, max) ==
  LET unseen(edge) == edge.id \notin visited
      fresh == SelectSeq(enqueue, unseen)
  IN  IF depth > max THEN <<>> ELSE [i \in DOMAIN fresh |-> Queued(fresh[i].id, depth + 1, <<fresh[i].via>>)]

\* The edges of a record at the last level are not followed.
NextLevel(enqueue, visited, depth, max) ==
  LET unseen(edge) == edge.id \notin visited
      fresh == SelectSeq(enqueue, unseen)
  IN  IF depth >= max THEN <<>> ELSE [i \in DOMAIN fresh |-> Queued(fresh[i].id, depth + 1, <<fresh[i].via>>)]

\* A queued record that does not resolve is skipped, one that was visited too.
RECURSIVE Visit(_, _, _, _)
Visit(db, opts, max, walk) ==
  LET item == Head(walk.queue)
      below == IF item.depth < max THEN max - item.depth ELSE 0
      skipped == ~Fetched(db, item.id) \/ item.id \in walk.visited
      visited == walk.visited \union {item.id}
      shown(done) ==
        [queue |-> Tail(walk.queue) \o NextLevel(done.enqueue, visited, item.depth, max), visited |-> visited,
         nodes |-> Append(walk.nodes, item @@ [type |-> db.type[item.id], digest |-> done.digest])]
  IN  IF walk.queue = <<>> THEN walk.nodes
      ELSE Visit(db, opts, max, IF skipped THEN [walk EXCEPT !.queue = Tail(@)]
                                ELSE shown(DigestNode(db, opts, item.id, below)))

MaxDepth(db, opts, root) == IF opts.depth = Unset THEN DefaultDepth(db.type[root]) ELSE opts.depth
NotFound == [notFound |-> TRUE]
WalkFrom(db, opts, root) ==
  IF ~Fetched(db, root) THEN NotFound
  ELSE [notFound |-> FALSE,
        nodes |-> Visit(db, opts, MaxDepth(db, opts, root),
                        [queue |-> <<Queued(root, 0, <<>>)>>, visited |-> {}, nodes |-> <<>>])]

-----------------------------------------------------------------------------
(* The digest of who references the root *)

ObtainableTypes == {"COBJ", "GMRW", "LGDI", "QUST", "CONT", "MISC", "FLST"}

\* A group for each type, shown by size; its first referencers are a sample.
BuildRefsDigest(db, rows, sample) ==
  LET ofType(type) == LET its(row) == db.type[row.id] = type IN SelectSeq(rows, its)
      tag(type) == CASE type \in ObtainableTypes -> "player_facing" [] type = "LVLI" -> "leveled_list" [] OTHER -> "none"
      group(type) ==
        LET some == Take(ofType(type), sample)
        IN  [type |-> type, count |-> Len(ofType(type)), sample |-> [i \in DOMAIN some |-> some[i].id], tag |-> tag(type)]
  IN  {group(type) : type \in {db.type[row.id] : row \in ToSet(rows)}}

\* Op walk: the walk, and on request the direct references to the root.
WalkWithRefs(db, opts, root, wantRefs) ==
  LET direct == ReferencedByWalk(db, <<[id |-> root, tags |-> {}]>>, FALSE, 1, 0, NoFilter, FALSE)
      told(walk) == IF wantRefs /\ ~walk.notFound
                    THEN walk @@ [refs |-> BuildRefsDigest(db, direct.rows, opts.caps.sample)] ELSE walk
  IN  told(WalkFrom(db, opts, root))
=============================================================================
