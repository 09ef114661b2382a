----------------------------- MODULE Connections -----------------------------
(***************************************************************************)
(* The operations on the reference graph: who references the records that  *)
(* a request names (ops/refs.rs, ReferencedBy), and how two records        *)
(* connect (RefPath).                                                      *)
(***************************************************************************)
EXTENDS Requests, References

DefaultHops == 12

ReferencedBy ==
  LET q == request
      seeds == ResolveRefSeeds(q.sel, q.named, q.sample)
      emit == ByCarrier(q.sel, q.named)
      hops == MaxHops(q.db, q.depth, q.cap)
  IN  /\ q.op = "referenced_by"
      /\ IF RefSeedsFail(q.sel, q.named, q.sample) THEN Refuse("referenced_by")
         ELSE Run("referenced_by", ReferencedByWalk(q.db, seeds, emit, hops, q.limit, q.filter, q.byDepth))

RefPath ==
  Run("ref_path", FindRefPath(request.db, request.from, request.to, request.hops, DefaultHops, request.budget))

-----------------------------------------------------------------------------
(* Distances *)

\* The records that name one of some forms, other than themselves.
NextTo(db, ids) ==
  {r \in Forms(db) : \E id \in (ids \intersect Defined(db)) \ {r} : id \in ToSet(db.body[r])}

\* The forms within 0 to max hops of some.
Within(db, seeds, max) ==
  LET within[n \in 0..max] ==
        IF n = 0 THEN seeds ELSE LET before == within[n - 1] IN before \union NextTo(db, before)
  IN  within

\* So many hops from the seeds, and not fewer.
AtHops(within, n, id) == id \in within[n] /\ (n = 0 \/ id \notin within[n - 1])

IsChain(db, path) ==
  \A i \in 1..(Len(path) - 1) : path[i + 1] \in Forms(db) /\ path[i] \in ToSet(db.body[path[i + 1]])

-----------------------------------------------------------------------------
(* Lists *)

\* The records a selector stands for: one form, or the carriers of an entry
\* point or property it asks for by its name or number.
AskedFor(sel, effect) ==
  IF sel.token.kind = "digits" THEN effect.id = sel.token.id ELSE effect.name \in sel.token.names
TagsOf(q, id) ==
  UNION {{e.id : e \in {e \in ToSet(c.effects) : AskedFor(q.sel, e)}} : c \in {c \in ToSet(q.sample) : c.id = id}}
Origins(q) ==
  IF ByCarrier(q.sel, q.named) THEN {c.id : c \in {c \in ToSet(q.sample) : TagsOf(q, c.id) # {}}}
  ELSE {IF q.sel.by = "formid" THEN q.sel.id ELSE q.named}

ListIsExact(q, out) ==
  LET within == Within(q.db, Origins(q), MaxHops(q.db, q.depth, q.cap))
      carriers == ByCarrier(q.sel, q.named)
      first == IF carriers THEN 0 ELSE 1
      wanted == {id \in Forms(q.db) : /\ TypeMatches(q.db, q.filter, id)
                                      /\ \E n \in first..MaxHops(q.db, q.depth, q.cap) : AtHops(within, n, id)}
      start == IF carriers THEN <<>> ELSE <<CHOOSE id \in Origins(q) : TRUE>>
      chain(row) == start \o row.path \o <<row.id>>
      nextTo(id) == {s \in Origins(q) : s \in ToSet(q.db.body[id])}
  IN  /\ q.limit = 0 => {row.id : row \in ToSet(out.rows)} = wanted
      /\ \A i, j \in DOMAIN out.rows : out.rows[i].id = out.rows[j].id => i = j
      /\ out.total = Cardinality(wanted) /\ (out.capped <=> out.total > Len(out.rows))
      /\ \A row \in ToSet(out.rows) :
           /\ row.id \in wanted /\ AtHops(within, row.depth, row.id)
           /\ chain(row)[1] \in Origins(q) /\ Len(chain(row)) = row.depth + 1 /\ IsChain(q.db, chain(row))
           /\ carriers =>
                CASE row.depth = 0 -> row.tags = TagsOf(q, row.id)
                  [] row.depth = 1 -> row.tags = UNION {TagsOf(q, s) : s \in nextTo(row.id)}
                  [] OTHER -> TagsOf(q, row.path[1]) \subseteq row.tags

\* A list of references holds exactly the records of the wanted type at a
\* distance of one hop up to the limit from the seeds (and the seeds, if they
\* are carriers), each once and at its distance, with a chain of references
\* that leads there; a record next to several carriers has the tags of them
\* all (refs/mod.rs keeps one visited set and merges tags on a second meeting).
RefListIsExact == Answered("referenced_by") => ListIsExact(request, Out)

-----------------------------------------------------------------------------
(* Paths *)

PathIsShortest(q, out) ==
  LET hops == IF q.hops = 0 THEN DefaultHops ELSE q.hops
      within == Within(q.db, {q.from}, hops)
  IN  CASE out.how = "found" -> /\ out.chain[1] = q.from /\ Last(out.chain) = q.to
                                /\ IsChain(q.db, out.chain) /\ AtHops(within, Len(out.chain) - 1, q.to)
        [] out.how = "none" -> q.to \notin within[hops]
        [] OTHER -> out.how = "exhausted"

\* Two records are connected exactly when one reaches the other within the
\* hops, by a shortest chain of references; only a search that ran out of its
\* budget may say less (the two frontiers of find_ref_path).
RefPathIsShortest == Answered("ref_path") => PathIsShortest(request, Out)
=============================================================================
