------------------------------ MODULE References ------------------------------
(***************************************************************************)
(* Who references a record, and how two records connect (refs/mod.rs,      *)
(* refs/seeds.rs and the carrier lists of database.rs).                    *)
(*                                                                         *)
(* The database is its reference graph, a record db with                   *)
(*   db.order      the FormIDs the index holds, in file order              *)
(*   db.engine     the FormIDs the engine defines without a record         *)
(*   db.body[id]   the FormIDs the record's own fields name, in order      *)
(*   db.type[id]   its record type                                         *)
(* Editor names, display names and field paths decorate rows and decide    *)
(* nothing, so a row keeps its FormID, depth, path and tags.               *)
(***************************************************************************)
EXTENDS Orders

NoForm == 0
NoFilter == "any"

\* Without repetitions, in order of first occurrence.
Distinct(s) == Picked(s, {i \in DOMAIN s : \A j \in 1..(i - 1) : s[j] # s[i]})

Forms(db) == ToSet(db.order)
Defined(db) == Forms(db) \union db.engine

\* Database::referencers: the records whose body names id, in file order; the
\* index keeps no references to what does not exist.
ReferencersOf(db, id) ==
  LET names == {i \in DOMAIN db.order : db.order[i] # id /\ id \in ToSet(db.body[db.order[i]])}
  IN  Picked(db.order, IF id \in Defined(db) THEN names ELSE {})

\* Database::outgoing_formids: what the record's own fields name.
OutgoingFormIds(db, id) ==
  LET body == IF id \in Forms(db) THEN db.body[id] ELSE <<>>
  IN  Distinct(Picked(body, {i \in DOMAIN body : body[i] # id /\ body[i] # NoForm}))

-----------------------------------------------------------------------------
(* Carrier seeds *)

\* A carrier is [id, effects]; each of its effects is an entry point or an
\* OMOD property [id, name].  The spec asks for one id, or a set of names.
SpecMatches(spec, effect) ==
  IF spec.by = "id" THEN effect.id = spec.id ELSE effect.name \in spec.names

MatchedTags(spec, carrier) == {e.id : e \in {e \in ToSet(carrier.effects) : SpecMatches(spec, e)}}

\* One seed per carrier that matched, by primary tag and then by FormID.
CarrierSeeds(spec, sample) ==
  LET seed(carrier) == [id |-> carrier.id, tags |-> MatchedTags(spec, carrier)]
      seeds == {seed(c) : c \in {c \in ToSet(sample) : MatchedTags(spec, c) # {}}}
  IN  SortedByTwo(seeds, [s \in seeds |-> Min(s.tags)], [s \in seeds |-> s.id])

\* EntryPointSpec::parse and OmodPropertySpec::parse: a FormID is refused,
\* digits are an id (of a property only with its form type), the rest a name.
ParseSpec(token, property) ==
  CASE token.kind = "hex" -> [by |-> "refused"]
    [] token.kind = "digits" /\ property /\ ~token.scoped -> [by |-> "refused"]
    [] token.kind = "digits" /\ (~property \/ token.scoped) -> [by |-> "id", id |-> token.id]
    [] OTHER -> [by |-> "name", names |-> token.names]

\* resolve_ref_seeds: an EditorID wins over an entry point of the same name,
\* and an entry point that no carrier has is an error there only.
ByCarrier(sel, named) == sel.by # "formid" /\ ~(sel.by = "edid" /\ named # NoForm)
SpecOf(sel) == ParseSpec(sel.token, sel.by = "omod_property")
CarriersOf(sel, sample) ==
  IF SpecOf(sel).by = "refused" THEN <<>> ELSE CarrierSeeds(SpecOf(sel), sample)

RefSeedsFail(sel, named, sample) ==
  /\ ByCarrier(sel, named)
  /\ IF sel.by = "edid" THEN CarriersOf(sel, sample) = <<>> ELSE SpecOf(sel).by = "refused"

ResolveRefSeeds(sel, named, sample) ==
  IF ByCarrier(sel, named) THEN CarriersOf(sel, sample)
  ELSE <<[id |-> IF sel.by = "formid" THEN sel.id ELSE named, tags |-> {}]>>

-----------------------------------------------------------------------------
(* The breadth-first walk *)

\* Seeds keep the caller's order; of two seeds of one FormID the first stays.
DedupSeeds(seeds) == Picked(seeds, {i \in DOMAIN seeds : \A j \in 1..(i - 1) : seeds[j].id # seeds[i].id})

TypeMatches(db, filter, id) == filter = NoFilter \/ db.type[id] = filter

\* The walk keeps all that was ever queued: its n-th step takes the n-th.
StartWalk(db, seeds, emit, filter) ==
  LET known == Picked(seeds, {i \in DOMAIN seeds : emit => seeds[i].id \in Forms(db)})
      carriers == Picked(known, {i \in DOMAIN known : emit /\ TypeMatches(db, filter, known[i].id)})
  IN  [seen |-> {seed.id : seed \in ToSet(seeds)},
       queued |-> [i \in DOMAIN known |->
          [node |-> known[i].id, tags |-> known[i].tags, path |-> IF emit THEN <<known[i].id>> ELSE <<>>]],
       carriers |-> [i \in DOMAIN carriers |->
          [id |-> carriers[i].id, depth |-> 0, path |-> <<>>, tags |-> carriers[i].tags]],
       rows |-> <<>>,
       frontier |-> 0]

(* Mutant: a second meeting adds no tags. *)
MergeTags_Dropped(rows, met, depth, tags) == rows

\* A row reached again at its own depth takes the other carrier's tags.
MergeTags(rows, met, depth, tags) ==
  [i \in DOMAIN rows |->
     IF rows[i].id \in met /\ rows[i].depth = depth
     THEN [rows[i] EXCEPT !.tags = @ \union tags] ELSE rows[i]]

\* The referencers of a node that was taken off the queue (each is listed once).
Discover(db, emit, filter, maxDepth, walk, item) ==
  LET depth == Len(item.path) + 1 - (IF emit THEN 1 ELSE 0)
      further == depth < maxDepth
      found == ReferencersOf(db, item.node)
      new == Picked(found, {i \in DOMAIN found : found[i] \notin walk.seen})
      listed == Picked(new, {i \in DOMAIN new : TypeMatches(db, filter, new[i])})
      row(id) == [id |-> id, depth |-> depth, path |-> item.path, tags |-> item.tags]
      next(id) == [node |-> id, tags |-> item.tags, path |-> Append(item.path, id)]
  IN  [walk EXCEPT
         !.seen = @ \union ToSet(found),
         !.rows = MergeTags(@, ToSet(found), depth, item.tags) \o [i \in DOMAIN listed |-> row(listed[i])],
         !.queued = IF further THEN @ \o [i \in DOMAIN new |-> next(new[i])] ELSE @,
         !.frontier = IF further THEN @ ELSE @ + Len(new)]

\* No record is queued twice, so the queue is empty after a step for each.
Drain(db, emit, filter, maxDepth, start) ==
  LET steps == Len(start.queued) + Len(db.order)
      walk[n \in 0..steps] ==
        IF n = 0 THEN start
        ELSE LET so == walk[n - 1]
             IN  IF n <= Len(so.queued) THEN Discover(db, emit, filter, maxDepth, so, so.queued[n]) ELSE so
  IN  walk[steps]

\* By FormID, or by depth and then by FormID.
SortRows(rows, byDepth) ==
  LET all == ToSet(rows)
  IN  SortedByTwo(all, [row \in all |-> IF byDepth THEN row.depth ELSE 0], [row \in all |-> row.id])

\* RefDepth: 0 asks for everything (no walk is longer than the file), more
\* than the cap is clamped to it.
MaxHops(db, depth, cap) ==
  IF depth = 0 THEN Len(db.order) + 1 ELSE IF depth > cap THEN cap ELSE depth

\* What a finished walk answers: all are counted, limit of them shown.
WalkAnswer(walk, all, limit) ==
  LET shown == IF limit > 0 /\ Len(all) > limit THEN SubSeq(all, 1, limit) ELSE all
      depths == {row.depth : row \in ToSet(all)}
  IN  [rows |-> shown,
       total |-> Len(all),
       capped |-> limit > 0 /\ Len(all) > limit,
       carrierTotal |-> Len(walk.carriers),
       depthCapped |-> walk.frontier > 0,
       frontier |-> walk.frontier,
       perDepth |-> [d \in 0..(IF depths = {} THEN 0 ELSE Max(depths)) |->
                       Cardinality({row \in ToSet(all) : row.depth = d})]]

\* The carriers in the caller's order, and behind them the sorted rows.
RefListOf(walk, byDepth, limit) == WalkAnswer(walk, walk.carriers \o SortRows(walk.rows, byDepth), limit)

ReferencedByWalk(db, seeds, emit, maxDepth, limit, filter, byDepth) ==
  RefListOf(Drain(db, emit, filter, maxDepth, StartWalk(db, DedupSeeds(seeds), emit, filter)), byDepth, limit)

-----------------------------------------------------------------------------
(* The bidirectional path search *)

\* A side of the search: the chain from its end to each node it found (the
\* parents, followed back), the level to be expanded next and its number.
SideOf(id) == [chain |-> [n \in {id} |-> <<id>>], level |-> <<id>>, depth |-> 0]

Around(db, back, node) == IF back THEN ReferencersOf(db, node) ELSE OutgoingFormIds(db, node)

\* All that the nodes of a level lead to, in the order it is looked at.
Onward(db, back, level) ==
  LET upTo[n \in 0..Len(level)] ==
        IF n = 0 THEN <<>>
        ELSE LET around == Around(db, back, level[n])
             IN  upTo[n - 1] \o [i \in DOMAIN around |-> [from |-> level[n], id |-> around[i]]]
  IN  upTo[Len(level)]

(* Mutant: a node counts for the other side only once that has expanded it. *)
Meets_Late(other, lead) == lead.id \in DOMAIN other.chain /\ lead.id \notin ToSet(other.level)

\* The other side knows the node, too.
Meets(other, lead) == lead.id \in DOMAIN other.chain

\* What a level finds that its side did not know, and where it stops: at the
\* first node that the other side knows, or when the budget of visited nodes
\* is used up.
NewOn(side, leads) ==
  Picked(leads, {i \in DOMAIN leads : /\ leads[i].id \notin DOMAIN side.chain
                                      /\ \A j \in 1..(i - 1) : leads[j].id # leads[i].id})
Stops(other, new, visited, budget) ==
  {k \in DOMAIN new : Meets(other, new[k]) \/ visited + k >= budget}

Longer(side, new) ==
  LET ids == {new[k].id : k \in DOMAIN new}
      lead(id) == CHOOSE lead \in ToSet(new) : lead.id = id
  IN  [chain |-> [id \in DOMAIN side.chain \union ids |->
                    IF id \in ids THEN Append(side.chain[lead(id).from], id) ELSE side.chain[id]],
       level |-> [k \in DOMAIN new |-> new[k].id],
       depth |-> side.depth + 1]

\* A search ends with a chain or exhausted; until then there is none.
Ended(how, chain) == [how |-> how, chain |-> chain]

\* One level more of the smaller side; an empty one is never picked.
ExpandLevel(db, search, budget) ==
  LET b == search.back
      f == search.fwd
      pickBack == b.level # <<>> /\ (f.level = <<>> \/ Len(b.level) <= Len(f.level))
      side == IF pickBack THEN b ELSE f
      other == IF pickBack THEN f ELSE b
      new == NewOn(side, Onward(db, pickBack, side.level))
      stops == Stops(other, new, search.visited, budget)
      lead == new[Min(stops)]
      reached == Append(side.chain[lead.from], lead.id)
      tail == Tail(Reverse(other.chain[lead.id]))
      through == IF pickBack THEN reached \o tail ELSE other.chain[lead.id] \o Tail(Reverse(reached))
  IN  IF stops = {}
      THEN [search EXCEPT !.back = IF pickBack THEN Longer(b, new) ELSE b,
                          !.fwd = IF pickBack THEN f ELSE Longer(f, new),
                          !.visited = @ + Len(new)]
      ELSE IF Meets(other, lead) THEN [search EXCEPT !.end = Ended("found", through)]
      ELSE [search EXCEPT !.end = Ended("exhausted", <<>>)]

\* The two ends count as visited.
SearchPath(db, from, to, maxHops, budget) ==
  LET start == [back |-> SideOf(from), fwd |-> SideOf(to), visited |-> 2, end |-> Ended("none", <<>>)]
      search[n \in 0..maxHops] ==
        IF n = 0 THEN start
        ELSE LET so == search[n - 1]
             IN  IF so.end.how # "none" \/ (so.back.level = <<>> /\ so.fwd.level = <<>>) THEN so
                 ELSE ExpandLevel(db, so, budget)
  IN  search[maxHops].end

FindRefPath(db, from, to, hops, defaultHops, budget) ==
  IF from = to THEN Ended("found", <<from>>)
  ELSE SearchPath(db, from, to, IF hops = 0 THEN defaultHops ELSE hops, budget)
=============================================================================
