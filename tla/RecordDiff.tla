------------------------------ MODULE RecordDiff ------------------------------
(***************************************************************************)
(* The diff of two databases (diff/mod.rs diff_databases_with) and the     *)
(* five stages of noise suppression (diff/noise.rs).                       *)
(*                                                                         *)
(* A database is [localized, forms]; forms maps a FormID to its record     *)
(*   [sig, fv, edid, payload, bad, fields]                                 *)
(* fv: the form version; payload: the bytes; bad: the decoder fails on     *)
(* them; fields: the typed object they decode to.  A schema maps a type to *)
(* its top-level members, trees of [name, from, below, kids]: a member is  *)
(* read from version from on and below version below.                      *)
(***************************************************************************)
EXTENDS JsonDiff

Error == [error |-> TRUE]

Without(f, names) == [n \in DOMAIN f \ names |-> f[n]]

-----------------------------------------------------------------------------
(* Stage 1: fields that are always noise *)

NoiseFields(sig) ==
  {"Object Bounds"}
    \union (IF sig \in {"REFR", "ACHR", "PGRE", "PHZD"}
            THEN {"Position/Rotation", "Bound Half Extents", "Scale", "Radius", "Distant LOD Data"}
            ELSE {})
    \union (IF sig = "CELL"
            THEN {"PreVis File Hash", "In PreVis File Of", "PreCombined Files Timestamp",
                  "Combined References", "Physics References", "Combined Physics",
                  "Precombined Object Level XY", "Precombined Object Level Z", "Max Height Data"}
            ELSE {})

StripNoiseFields(changes, sig) == Without(changes, NoiseFields(sig))

-----------------------------------------------------------------------------
(* Pruning the leaves that a rule calls noise *)

ZeroHex == {"00", "0000"}
Str(v) == [k |-> "val", v |-> v]
IsZeroRawBlob(v) ==
  v.k = "obj" /\ {"_raw", "hex"} \subseteq DOMAIN v.of /\ v.of["hex"] \in {Str(z) : z \in ZeroHex}
IsZeroRawTransition(from, to) ==
  (from = Null /\ IsZeroRawBlob(to)) \/ (to = Null /\ IsZeroRawBlob(from))

MaterializedOnResave == {<<"INFO", "Previous INFO">>}
IsAppearance(from, to) == from = Null /\ to # Null
IsMaterializedOnResave(sig, name, from, to) ==
  IsAppearance(from, to) /\ <<sig, name>> \in MaterializedOnResave

\* The one text here that the string tables rewrite; ~ is a no-break space.
TableNormalized(text) == IF text = "a~b" THEN "a b" ELSE text
IsString(v) == v.k \in {"val", "hex"}

IsPaddingZeroed(from, to) == IsString(from) /\ IsString(to) /\ to.v \in ZeroHex

\* within tells what holds the leaf: the record, an array element, a struct.
IsNoise(rule, name, within, from, to) ==
  CASE rule.by = "restamp" ->
         IsZeroRawTransition(from, to) \/ IsMaterializedOnResave(rule.sig, name, from, to)
    [] rule.by = "flip" ->
         IsString(from) /\ IsString(to) /\ TableNormalized(from.v) = TableNormalized(to.v)
    [] rule.by = "padding" -> name = "hex" /\ within = "struct" /\ IsPaddingZeroed(from, to)
    [] rule.by = "defaults" -> IsAppearance(from, to) /\ <<name, to>> \in rule.defaults

(* Mutant: an array goes once no changed element is left. *)
RECURSIVE PruneLeaves_ForgetsMembers(_, _, _)
PruneLeaves_ForgetsMembers(changes, within, rule) ==
  LET element(c) ==
        IF c.changes.d = "fields"
        THEN [c EXCEPT !.changes.of = PruneLeaves_ForgetsMembers(@, "element", rule)] ELSE c
      real(c) == c.changes # Same
      pruned(name) ==
        LET diff == changes[name] IN
        CASE diff.d = "leaf" -> IF IsNoise(rule, name, within, diff.from, diff.to) THEN Same ELSE diff
          [] diff.d = "fields" -> [diff EXCEPT !.of = PruneLeaves_ForgetsMembers(@, "struct", rule)]
          [] diff.d = "array" ->
               LET kept == SelectSeq([i \in DOMAIN diff.changed |-> element(diff.changed[i])], real)
               IN  IF kept = <<>> THEN Same ELSE [diff EXCEPT !.changed = kept]
  IN  [name \in {name \in DOMAIN changes : pruned(name) # Same} |-> pruned(name)]

\* What is left of some changes: a noisy leaf goes, and with it every struct,
\* element and array that it empties.  Added and removed elements stay.
RECURSIVE PruneLeaves(_, _, _)
PruneLeaves(changes, within, rule) ==
  LET element(c) ==
        IF c.changes.d = "fields"
        THEN [c EXCEPT !.changes.of = PruneLeaves(@, "element", rule)] ELSE c
      real(c) == c.changes # Same
      pruned(name) ==
        LET diff == changes[name] IN
        CASE diff.d = "leaf" -> IF IsNoise(rule, name, within, diff.from, diff.to) THEN Same ELSE diff
          [] diff.d = "fields" -> [diff EXCEPT !.of = PruneLeaves(@, "struct", rule)]
          [] diff.d = "array" ->
               LET kept == SelectSeq([i \in DOMAIN diff.changed |-> element(diff.changed[i])], real)
               IN  IF diff.added = <<>> /\ diff.removed = <<>> /\ kept = <<>> THEN Same
                   ELSE [diff EXCEPT !.changed = kept]
      left == {name \in DOMAIN changes : pruned(name) # Same}
  IN  [name \in left |-> pruned(name)]

\* Every leaf of a diff as [name, from, to]; name is the key it sits under.
RECURSIVE LeavesOf(_, _)
LeavesOf(diff, name) ==
  LET gather(s, c) == s \o LeavesOf(c.changes, name)
      member(s, n) == s \o LeavesOf(diff.of[n], n)
  IN  CASE diff.d = "leaf" -> <<[name |-> name, from |-> diff.from, to |-> diff.to]>>
        [] diff.d = "array" -> FoldLeft(gather, <<>>, diff.changed)
        [] diff.d = "fields" -> FoldLeft(member, <<>>, SetToSeq(DOMAIN diff.of \ {"_raw"}))

Leaves(changes) == LeavesOf([d |-> "fields", of |-> changes], "record")

-----------------------------------------------------------------------------
(* Stages 2 to 4: what a flip of localization or a re-save explains *)

\* Every leaf has its null on that side, and no element came or went.
RECURSIVE IsPureTransition(_, _)
IsPureTransition(diff, side) ==
  CASE diff.d = "leaf" -> (IF side = "from" THEN diff.from ELSE diff.to) = Null
    [] diff.d = "array" ->
         /\ diff.added = <<>> /\ diff.removed = <<>>
         /\ \A c \in ToSet(diff.changed) : IsPureTransition(c.changes, side)
    [] diff.d = "fields" ->
         LET names == DOMAIN diff.of \ {"_raw"}
         IN  names # {} /\ \A n \in names : IsPureTransition(diff.of[n], side)

MemberVersionOk(fv, member) == member.from <= fv /\ fv < member.below

RECURSIVE MemberSubtreeCrossesGate(_, _, _, _)
MemberSubtreeCrossesGate(member, fvs, activeA, activeB) ==
  \/ MemberVersionOk(fvs[1], member) = activeA /\ MemberVersionOk(fvs[2], member) = activeB
  \/ \E kid \in member.kids : MemberSubtreeCrossesGate(kid, fvs, activeA, activeB)

StripVersionGatedTransitions(changes, schema, sig, fvs) ==
  LET gated(name, activeA, activeB) ==
        \E m \in schema[sig] : m.name = name /\ MemberSubtreeCrossesGate(m, fvs, activeA, activeB)
      noise(name) ==
        IF IsPureTransition(changes[name], "from") THEN gated(name, FALSE, TRUE)
        ELSE IsPureTransition(changes[name], "to") /\ gated(name, TRUE, FALSE)
  IN  IF sig \in DOMAIN schema THEN Without(changes, {n \in DOMAIN changes : noise(n)}) ELSE changes

\* suppress_record: stages 1 to 4, in this order.
SuppressRecord(changes, sig, schema, fvs, flip) ==
  LET plain == StripNoiseFields(changes, sig)
      unflipped == IF flip THEN PruneLeaves(plain, "record", [by |-> "flip"]) ELSE plain
      restamp == fvs[1] # fvs[2]
      settled == PruneLeaves(StripVersionGatedTransitions(unflipped, schema, sig, fvs), "record",
                             [by |-> "restamp", sig |-> sig])
  IN  [changes |-> IF restamp THEN settled ELSE unflipped,
       restamp |-> restamp,
       flipText |-> Len(Leaves(plain)) - Len(Leaves(unflipped))]

-----------------------------------------------------------------------------
(* Stage 5: what the frequencies across the whole diff explain *)

\* Appearances that repeat often enough and that nobody also wrote.
SuppressibleDefaults(changed, minCount) ==
  LET counted(l) == ~(l.name = "hex" /\ IsPaddingZeroed(l.from, l.to))
      key(l) == <<l.name, l.to>>
      appears(leaves, k) == {i \in DOMAIN leaves : IsAppearance(leaves[i].from, leaves[i].to) /\ key(leaves[i]) = k}
      written(leaves) == {key(l) : l \in {l \in ToSet(leaves) : l.from # Null /\ l.to # Null}}
      often(leaves) == {k \in {key(l) : l \in ToSet(leaves)} \ written(leaves) :
                          k[2] # Null /\ Cardinality(appears(leaves, k)) >= minCount}
  IN  often(SelectSeq(FoldFunction(LAMBDA r, s : s \o Leaves(r.changes), <<>>, changed), counted))

\* Only restamped records are revisited.
Calibrate(record, defaults) ==
  LET unpadded == PruneLeaves(record.changes, "record", [by |-> "padding"])
      left == PruneLeaves(unpadded, "record", [by |-> "defaults", defaults |-> defaults])
  IN  IF record.restamp THEN [record EXCEPT !.changes = left] ELSE record

PaddingZeroed(record) ==
  IF ~record.restamp THEN 0
  ELSE Len(Leaves(record.changes))
         - Len(Leaves(PruneLeaves(record.changes, "record", [by |-> "padding"])))

-----------------------------------------------------------------------------
(* The diff of two databases *)

Skip(opts, sig) == sig \in opts.exclude \/ (opts.only # "all" /\ sig # opts.only)

Resolves(a, b, hardcoded, id) == id \in DOMAIN a.forms \union DOMAIN b.forms \union hardcoded

\* A record of one side only; a body that does not decode is left out.
Stub(record, opts) ==
  LET bodied == opts.bodies /\ ~record.bad
  IN  [sig |-> record.sig, edid |-> record.edid, bodied |-> bodied,
       refs |-> IF bodied THEN FormIdsIn(record.fields) ELSE {}]

\* A record of both sides, equal when the bytes or the decoded fields agree.
RecordChange(from, to, opts, schema, flip) ==
  LET cut(changes) == IF opts.suppress
                      THEN SuppressRecord(changes, to.sig, schema, <<from.fv, to.fv>>, flip)
                      ELSE [changes |-> changes, restamp |-> FALSE, flipText |-> 0]
      change(raw) == IF raw = Same THEN [equal |-> TRUE] ELSE
        [sig |-> to.sig, edid |-> to.edid, equal |-> FALSE,
         prevEdid |-> IF from.edid # to.edid THEN from.edid ELSE "none"] @@ cut(raw.of)
  IN  change(IF from.payload = to.payload THEN Same ELSE Diff(Rendered(from.fields), Rendered(to.fields)))

\* The references the final changes touch, and which of them are new and
\* resolve nowhere.
Referenced(change, from, to, resolved(_)) ==
  LET new == FormIdsIn(to.fields) \ FormIdsIn(from.fields)
      with(refs) == change @@ [refs |-> refs, dangling |-> {r \in refs \cap new : ~resolved(r)}]
  IN  with(ChangedRefs([d |-> "fields", of |-> change.changes], from.fields, to.fields))

\* The records of both sides that are not equal, and of those the ones that
\* have changes left.
Unequal(a, b, opts, schema, common) ==
  LET flip == a.localized # b.localized
      kept(changes) == Restrict(changes, {id \in common : ~changes[id].equal})
  IN  kept([id \in common |-> RecordChange(a.forms[id], b.forms[id], opts, schema, flip)])
Changed(changes) == Restrict(changes, {id \in DOMAIN changes : changes[id].changes # <<>>})

\* What stage 5 leaves, and which defaults it took away.
Calibrated(early, minCount) ==
  LET restamped == \E id \in DOMAIN early : early[id].restamp
      calibrate(defaults) ==
        [defaults |-> defaults, changed |-> Changed([id \in DOMAIN early |-> Calibrate(early[id], defaults)])]
  IN  calibrate(IF restamped THEN SuppressibleDefaults(early, minCount) ELSE {})

\* What the changes of each stage come to.
Tally(all, early, late) ==
  LET dropped(sig) == {id \in DOMAIN all \ DOMAIN late.changed : all[id].sig = sig}
  IN  [suppressed |-> [sig \in {all[id].sig : id \in DOMAIN all} |-> Cardinality(dropped(sig))],
       flipText |-> FoldFunction(LAMBDA r, n : n + r.flipText, 0, all),
       paddingZeroed |-> FoldFunction(LAMBDA r, n : n + PaddingZeroed(r), 0, early),
       defaults |-> late.defaults]

\* added, removed and changed are listed by FormID: functions here.
DiffDatabasesWith(a, b, opts, schema, hardcoded) ==
  LET resolved(id) == Resolves(a, b, hardcoded, id)
      wanted(db, ids) == {id \in ids : ~Skip(opts, db.forms[id].sig)}
      stubs(db, other) == [id \in wanted(db, DOMAIN db.forms \ DOMAIN other.forms) |-> Stub(db.forms[id], opts)]
      dangling(s) == s @@ [dangling |-> {r \in s.refs : ~resolved(r)}]
      common == wanted(a, DOMAIN a.forms \cap DOMAIN b.forms)
      unreadable(id) == /\ a.forms[id].payload # b.forms[id].payload
                        /\ a.forms[id].bad \/ b.forms[id].bad
      lists(added, removed, changed) ==
        [added |-> [id \in DOMAIN added |-> dangling(added[id])],
         removed |-> removed,
         changed |-> changed,
         refNames |-> {r \in UNION {s.refs : s \in Range(changed) \union Range(added) \union Range(removed)}
                         : resolved(r)}]
      referenced(changed) ==
        [id \in DOMAIN changed |-> Referenced(changed[id], a.forms[id], b.forms[id], resolved)]
      result(all, early, late) ==
        lists(stubs(b, a), stubs(a, b), referenced(late.changed)) @@ Tally(all, early, late)
      calibrate(all, early) == result(all, early, Calibrated(early, opts.minCount))
      suppress(all) == calibrate(all, Changed(all))
  IN  IF \E id \in common : unreadable(id) THEN Error
      ELSE suppress(Unequal(a, b, opts, schema, common))
=============================================================================
