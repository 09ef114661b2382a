------------------------------- MODULE Wildcard -------------------------------
(***************************************************************************)
(* The wildcard search over the search section: wildcard.rs, and           *)
(* Database::search with what listings share with it.                      *)
(*                                                                         *)
(* A text is a sequence of characters, case already folded: every          *)
(* comparison of these files ignores case.                                 *)
(***************************************************************************)
EXTENDS Orders

Star == "*"
NoText == <<"none">>

EffectiveTake(s, limit) == IF limit = 0 \/ limit > Len(s) THEN s ELSE SubSeq(s, 1, limit)

ById(rows) == Sorted(rows, [row \in rows |-> row.id])

-----------------------------------------------------------------------------
(* Wildcards *)

\* The stars of a pattern, in order, between two more around it.
Stars(pattern) == {i \in DOMAIN pattern : pattern[i] = Star}
Cuts(pattern) == <<0>> \o Rising(Stars(pattern)) \o <<Len(pattern) + 1>>

\* The parts of a pattern between its stars.
Segments(pattern) ==
  LET cuts == Cuts(pattern)
  IN  [i \in 1..(Len(cuts) - 1) |-> SubSeq(pattern, cuts[i] + 1, cuts[i + 1] - 1)]

Occurs(part, text, at) == at + Len(part) <= Len(text) /\ SubSeq(text, at + 1, at + Len(part)) = part

\* Where the part first occurs at or after a position, or past the text.
Find(part, text, from) ==
  LET hits == {at \in from..Len(text) : Occurs(part, text, at)}
  IN  IF hits = {} THEN Len(text) + 1 ELSE Min(hits)

\* Behind the first occurrence of a part, or past the text.
Consumed(part, text, cursor) ==
  LET at == Find(part, text, cursor)
  IN  IF at > Len(text) THEN at ELSE at + Len(part)

\* Where the cursor is behind the prefix and n more parts, each taken where it
\* first occurs.
CursorAfter(parts, text, n) ==
  LET cursor[i \in 0..(Len(parts) - 1)] ==
        IF i = 0 THEN Len(parts[1]) ELSE Consumed(parts[i + 1], text, cursor[i - 1])
  IN  cursor[n]

(* Mutant: the suffix may overlap what the middle parts consumed. *)
WildcardMatch_Overlaps(pattern, text) ==
  LET parts == Segments(pattern)
      suffix == Last(parts)
  IN  IF Len(parts) = 1 THEN Find(pattern, text, 0) <= Len(text)
      ELSE /\ Occurs(parts[1], text, 0)
           /\ CursorAfter(parts, text, Len(parts) - 2) <= Len(text)
           /\ Len(suffix) <= Len(text) /\ Occurs(suffix, text, Len(text) - Len(suffix))

\* The cursor runs over the text: the prefix is anchored, each middle part is
\* taken where it first occurs, the suffix must lie in what is left.
WildcardMatch(pattern, text) ==
  LET parts == Segments(pattern)
      suffix == Last(parts)
  IN  IF Len(parts) = 1 THEN Find(pattern, text, 0) <= Len(text)
      ELSE /\ Occurs(parts[1], text, 0)
           /\ CursorAfter(parts, text, Len(parts) - 2) + Len(suffix) <= Len(text)
           /\ Occurs(suffix, text, Len(text) - Len(suffix))

\* entry_point_name_matches: a pattern without a star must be the whole name.
EntryPointNameMatches(pattern, name) ==
  IF Stars(pattern) # {} THEN WildcardMatch(pattern, name) ELSE pattern = name

-----------------------------------------------------------------------------
(* The search *)

\* A row of the search section is [id, sig, edid, name, desc]; rows come in any
\* order and leave in FormID order, cut last.
SearchHit(row, pattern, types, field) ==
  LET hit(text) == text # NoText /\ WildcardMatch(pattern, text)
  IN  /\ types = {} \/ row.sig \in types
      /\ \/ field # "name" /\ hit(row.edid)
         \/ field # "edid" /\ (hit(row.name) \/ hit(row.desc))

Search(rows, pattern, types, field, limit) ==
  EffectiveTake(ById({row \in rows : SearchHit(row, pattern, types, field)}), limit)
=============================================================================
