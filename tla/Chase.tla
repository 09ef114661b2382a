-------------------------------- MODULE Chase --------------------------------
(***************************************************************************)
(* The chase of a unique effect (chase.rs): an object modification's       *)
(* property rows are classified and each mechanism is followed to its      *)
(* evidence; a perk, spell, ingestible or enchantment is followed from its *)
(* own effects.                                                            *)
(*                                                                         *)
(* db is the reference graph of References with, for each id,              *)
(*   db.bad        the records that do not decode                          *)
(*   db.role[id]   "compose" or "alternatives", by its record flags        *)
(*   db.rec[id]    the fields the chase reads:                             *)
(*     props       for each property row the FormID of its value, or       *)
(*                 NoForm for a number                                     *)
(*     includes    sequence of [mod, level]                                *)
(*     effects     sequence of [base, target, tests]: a base effect, a     *)
(*                 perk's target and the forms its conditions test         *)
(*     told        whether it has a description                            *)
(*     kwType      a keyword's type, "None" when it has none               *)
(*     perk, ability   what a magic effect passes through to               *)
(*     explosion   a projectile's explosion                                *)
(* caps holds the limits of the source: includes, includeDepth, effects,   *)
(* depth and refs.  Wording, names and the explosion's figures are left    *)
(* out of the evidence.                                                    *)
(***************************************************************************)
EXTENDS References

Error == [error |-> TRUE]
ConsumerTypes == <<"SPEL", "PERK">>

\* Target::of: a reference that resolves to a record or an engine form.
IsTarget(db, id) == id \in Forms(db) \union db.engine

\* A record source answers every id; one that does not decode is an error.
Fetched(db, id) == id \in Forms(db) \ db.bad

EffectsOf(db, id) == IF Fetched(db, id) THEN db.rec[id].effects ELSE <<>>
Take(s, n) == IF Len(s) > n THEN SubSeq(s, 1, n) ELSE s

\* All the pieces of a sequence of sequences, in order.
Concat(s) == FlattenSeq(s)

-----------------------------------------------------------------------------
(* Where an object modification's properties come from *)

Included(db, caps, id) ==
  LET listed == Take(db.rec[id].includes, caps.includes)
      resolves(inc) == IsTarget(db, inc.mod)
      known == SelectSeq(listed, resolves)
  IN  [i \in DOMAIN known |-> known[i].mod]

\* include_alternatives: of a collection or selector, not capped.
IncludeAlternatives(db, id) ==
  LET resolves(inc) == IsTarget(db, inc.mod) IN SelectSeq(db.rec[id].includes, resolves)

(* Mutant: an include is queued once per line that names it. *)
Enqueue_Repeats(queue, visited, ids, depth) ==
  LET new(id) == id \notin visited
      fresh == SelectSeq(ids, new)
  IN  [queue |-> queue \o [i \in DOMAIN fresh |-> [id |-> fresh[i], depth |-> depth]],
       visited |-> visited \union ToSet(fresh)]

Enqueue(queue, visited, ids, depth) ==
  LET new(id) == id \notin visited
      fresh == Distinct(SelectSeq(ids, new))
  IN  [queue |-> queue \o [i \in DOMAIN fresh |-> [id |-> fresh[i], depth |-> depth]],
       visited |-> visited \union ToSet(fresh)]

RECURSIVE DrainIncludes(_, _, _, _)
DrainIncludes(db, caps, walk, found) ==
  IF walk.queue = <<>> THEN found
  ELSE LET item == Head(walk.queue)
           ok == item.depth <= caps.includeDepth /\ Fetched(db, item.id)
           opens == ok /\ item.depth < caps.includeDepth /\ db.role[item.id] = "compose"
           kids == IF opens THEN Included(db, caps, item.id) ELSE <<>>
       IN  DrainIncludes(db, caps, Enqueue(Tail(walk.queue), walk.visited, kids, item.depth + 1),
                         IF ok THEN Append(found, item.id) ELSE found)

\* The root first, then its composed includes in breadth-first order.
CollectPropertySources(db, caps, root) ==
  LET first == IF db.role[root] = "compose" THEN Included(db, caps, root) ELSE <<>>
  IN  <<root>> \o DrainIncludes(db, caps, Enqueue(<<>>, {}, first, 1), <<>>)

-----------------------------------------------------------------------------
(* Evidence *)

Note(source) == [source |-> source, kind |-> "note"]

\* forward_evidence: the description and the first effects of the target.
ForwardEvidence(db, caps, id) ==
  LET rec == db.rec[id]
      some == Fetched(db, id) /\ (rec.told \/ rec.effects # <<>>)
  IN  IF ~some THEN Note(id)
      ELSE [source |-> id, kind |-> "record", told |-> rec.told,
            effects |-> Take(rec.effects, caps.effects),
            truncated |-> Len(rec.effects) - Len(Take(rec.effects, caps.effects))]

ProjectileEvidence(db, id) ==
  LET expl == IF Fetched(db, id) THEN db.rec[id].explosion ELSE NoForm
      known == IsTarget(db, expl)
  IN  [source |-> id, kind |-> "projectile",
       explosion |-> IF known THEN expl ELSE NoForm,
       summarized |-> known /\ Fetched(db, expl)]

\* mgef_pass_through: the magic effects behind some effects that hand the
\* work on to a perk or an ability, each once.
PassThrough(db, effects) ==
  LET bases == Distinct([i \in DOMAIN effects |-> effects[i].base])
      passes(id) == /\ IsTarget(db, id) /\ db.type[id] = "MGEF" /\ Fetched(db, id)
                    /\ db.rec[id].perk # NoForm \/ db.rec[id].ability # NoForm
      through == SelectSeq(bases, passes)
  IN  [i \in DOMAIN through |->
         [source |-> through[i], kind |-> "pass",
          perk |-> db.rec[through[i]].perk, ability |-> db.rec[through[i]].ability]]

TagEvidence(db, id) == [source |-> id, kind |-> "tag", type |-> db.rec[id].kwType]

\* The field paths of a record that name another: the effects whose
\* conditions test it or that lead to it, and 0 for a field outside of them.
FieldPaths(db, id, named) ==
  LET effects == db.rec[id].effects
      names(i) == named \in {effects[i].base, effects[i].target} \union ToSet(effects[i].tests)
      inside == SelectSeq([i \in DOMAIN effects |-> i], names)
      outside == \/ named \in ToSet(db.rec[id].props)
                 \/ named \in {db.rec[id].perk, db.rec[id].ability, db.rec[id].explosion}
  IN  inside \o (IF outside THEN <<0>> ELSE <<>>)

\* consumer_refs_by_type: one reverse walk for each type of consumer.
ConsumerLists(db, id, depth, limit) ==
  LET seeds == <<[id |-> id, tags |-> {}]>>
  IN  [i \in DOMAIN ConsumerTypes |-> ReferencedByWalk(db, seeds, FALSE, depth, limit, ConsumerTypes[i], FALSE)]

\* reverse_chase: each consumer's effects that the reference sits in, isolated
\* where the path leads into an array.
EvidenceOfRows(db, id, rows) ==
  LET before(row) == IF row.path = <<>> THEN id ELSE Last(row.path)
      places(row) == IF Fetched(db, row.id) THEN FieldPaths(db, row.id, before(row)) ELSE <<>>
      evidence(row, place) ==
        [source |-> row.id, kind |-> IF place = 0 THEN "note" ELSE "effect", at |-> place,
         hops |-> IF row.depth > 1 THEN row.depth ELSE 0]
      ofRow(row) == IF places(row) = <<>> THEN <<evidence(row, 0)>>
                    ELSE [i \in DOMAIN places(row) |-> evidence(row, places(row)[i])]
  IN  Concat([i \in DOMAIN rows |-> ofRow(rows[i])])
ReverseChase(db, caps, id) ==
  LET rows(lists) == Concat([i \in DOMAIN lists |-> lists[i].rows])
  IN  EvidenceOfRows(db, id, rows(ConsumerLists(db, id, caps.depth, caps.refs)))

-----------------------------------------------------------------------------
(* An object modification *)

IsPopulated(type) == type # "None"

\* classify_property_row: what a property row attaches, and how it is followed.
ClassifyPropertyRow(db, id) ==
  LET type == IF IsTarget(db, id) THEN db.type[id] ELSE "none"
      tagged == Fetched(db, id) /\ IsPopulated(db.rec[id].kwType)
      hop(kind, fetch) == [kind |-> kind, target |-> id, fetch |-> fetch]
  IN  CASE type = "none" -> [kind |-> "direct_property", target |-> NoForm, fetch |-> "none"]
        [] type = "KYWD" /\ tagged -> hop("tag_keyword", "none")
        [] type = "KYWD" /\ ~tagged -> hop("keyword_hook", "reverse")
        [] type = "PERK" -> hop("perk_grant", "forward")
        [] type \in {"ENCH", "SPEL", "PROJ"} -> hop("direct_property", "forward")
        [] type = "AVIF" -> hop("direct_property", "reverse")
        [] OTHER -> hop("direct_property", "none")

FollowHop(db, caps, hop) ==
  LET id == hop.target
      proj == db.type[id] = "PROJ"
      evidence ==
        CASE hop.kind = "tag_keyword" -> <<TagEvidence(db, id)>>
          [] hop.fetch = "forward" /\ proj -> <<ProjectileEvidence(db, id)>>
          [] hop.fetch = "forward" /\ ~proj ->
               <<ForwardEvidence(db, caps, id)>> \o PassThrough(db, Take(EffectsOf(db, id), caps.effects))
          [] hop.fetch = "reverse" -> ReverseChase(db, caps, id)
          [] OTHER -> <<>>
      \* A keyword that nothing tests is a tag after all.
      followed(found) ==
        IF hop.kind = "keyword_hook" /\ found = <<>> /\ Fetched(db, id)
        THEN [kind |-> "tag_keyword", target |-> id, fetch |-> "none", evidence |-> <<TagEvidence(db, id)>>]
        ELSE hop @@ [evidence |-> found]
  IN  followed(evidence)

OmodChase(db, caps, root) ==
  LET row(source, i) ==
        FollowHop(db, caps, ClassifyPropertyRow(db, db.rec[source].props[i])) @@ [index |-> i, source |-> source]
      rows(source) == [i \in DOMAIN db.rec[source].props |-> row(source, i)]
      hops(sources) == Concat([i \in DOMAIN sources |-> rows(sources[i])])
  IN  [root |-> root,
       hops |-> hops(CollectPropertySources(db, caps, root)),
       effectHops |-> <<>>,
       alternatives |-> IF db.role[root] = "alternatives" THEN IncludeAlternatives(db, root) ELSE <<>>]

-----------------------------------------------------------------------------
(* A record with effects of its own *)

EffectHop(db, caps, effect) ==
  LET kind == CASE IsTarget(db, effect.base) -> "base_effect"
                [] ~IsTarget(db, effect.base) /\ IsTarget(db, effect.target) -> "forward_target"
                [] OTHER -> "no_target"
      id == IF kind = "base_effect" THEN effect.base ELSE effect.target
      theirs == Take(EffectsOf(db, id), caps.effects)
  IN  CASE kind = "base_effect" ->
             [kind |-> kind, target |-> id, evidence |-> PassThrough(db, <<effect>>)]
        [] kind = "forward_target" ->
             [kind |-> kind, target |-> id,
              evidence |-> <<ForwardEvidence(db, caps, id)>> \o PassThrough(db, theirs)]
        [] OTHER -> [kind |-> kind, target |-> NoForm, evidence |-> <<>>]

EffectChase(db, caps, root) ==
  LET effects == db.rec[root].effects
  IN  [root |-> root, hops |-> <<>>, alternatives |-> <<>>,
       effectHops |-> [i \in DOMAIN effects |-> EffectHop(db, caps, effects[i])]]

\* chase: the two walks by the root's type; depth 0 (unbounded) is refused.
ChaseTree(db, caps, root) ==
  CASE caps.depth = 0 \/ ~Fetched(db, root) -> Error
    [] caps.depth > 0 /\ Fetched(db, root) /\ db.type[root] = "OMOD" -> OmodChase(db, caps, root)
    [] caps.depth > 0 /\ Fetched(db, root) /\ db.type[root] \in {"PERK", "SPEL", "ALCH", "ENCH"} ->
         EffectChase(db, caps, root)
    [] OTHER -> Error
=============================================================================
